---------------------------- MODULE VStreamProofs ----------------------------
(***************************************************************************)
(* Proofs about a video stream, for every panel, picture, session and      *)
(* number of frames, in this order:                                        *)
(*   - its ends: who may be where, what a stream takes and gives back;     *)
(*   - the poisoned frame buffer, whatever the decoder makes of a frame;   *)
(*   - the decoder: what one byte may do to it and to the frame buffer,    *)
(*     and that a run written at once is a run written byte by byte;       *)
(*   - the host: what it packs and frames are bytes, of a known length;    *)
(*   - the panel and the frame buffer between two frames;                  *)
(*   - a frame read: the unpacker undoes the packer, an exclusive or gives *)
(*     back the picture, a doubled plane is the picture by two;            *)
(*   - a frame on its way: the decoder is where the host is;               *)
(*   - what follows: the panel shows what was sent.                        *)
(***************************************************************************)
EXTENDS VStream, WellFoundedInduction, SequenceTheorems, TLAPS

(***************************************************************************)
(* Who is where.                                                           *)
(***************************************************************************)
Ends == {"cancel", "busy", "drop", "saver"}

(* The threads and flags are of their types.                               *)
ControlOK ==
    /\ {vstream_active, watchdog, vs_poisoned, keep_on, streaming_mode, write_red, saver, on,
        photo, late} \subseteq BOOLEAN
    /\ pc \in [Thread -> {"free", "clear", "ready", "flush"} \cup Ends]
    /\ was_active \in [Thread -> BOOLEAN] /\ restore \in [Thread -> BOOLEAN]
    /\ pc["rx"] \notin {"clear", "ready"}
    /\ pc["cmd"] \notin {"flush", "drop", "saver"}
    /\ pc["wq"] \notin {"clear", "ready", "flush", "cancel"}

(* A command runs, or waits, only while no stream does.                    *)
CmdAlone ==
    /\ pc["cmd"] # "free" \/ todo # None => ~vstream_active /\ pc["rx"] = "free"
    /\ todo # None => pc["cmd"] = "free"
    /\ pc["cmd"] = "busy" => ~was_active["cmd"]

(* The receive thread ends a stream with the watchdog out of the way.      *)
RxAlone ==
    /\ pc["rx"] \in Ends => ~watchdog
    /\ pc["rx"] \in Ends \ {"cancel"} => pc["wq"] = "free"
    /\ pc["rx"] = "busy" => was_active["rx"] = vstream_active
    /\ pc["rx"] \in {"drop", "saver"} => ~vstream_active /\ was_active["rx"]

(* The watchdog ends the stream it found, and gives the saver back.        *)
WqOwns ==
    /\ pc["wq"] # "free" => was_active["wq"] /\ restore["wq"]
    /\ pc["wq"] = "busy" => vstream_active
    /\ ~late /\ pc["wq"] # "free" => pc["cmd"] \notin {"clear", "ready"}
    /\ ~late /\ pc["wq"] \in {"drop", "saver"} => ~vstream_active

(* A stream is running or about to.                                        *)
Streaming == vstream_active \/ pc["cmd"] \in {"clear", "ready"}

(* Some thread is at x of the end of a stream.                             *)
EndAt(x) == pc["rx"] = x \/ pc["wq"] = x

(* What is taken belongs to a stream, or to a thread about to give it up.  *)
TakenInv ==
    /\ ~late /\ (streaming_mode \/ write_red \/ keep_on \/ on) => Streaming \/ EndAt("drop")
    /\ ~late /\ EndAt("drop") => ~streaming_mode

(* From a stream's start to the last step of its end the saver is off and  *)
(* no photo is kept.                                                       *)
SaverInv ==
    /\ PhotoKept
    /\ ~late /\ (Streaming \/ EndAt("drop") \/ EndAt("saver")) => ~saver /\ ~photo

IInv == ControlOK /\ CmdAlone /\ RxAlone /\ WqOwns /\ TakenInv /\ SaverInv

(* What the other threads and the panel read and no byte alone changes.    *)
control == <<vs_poisoned, vstream_active, watchdog, takenVars, on, threadVars, todo,
             photo, late>>

-----------------------------------------------------------------------------
(* The first state.                                                        *)
LEMMA InitControl == Init => IInv
BY DEF Init, IInv, ControlOK, CmdAlone, RxAlone, WqOwns, TakenInv, SaverInv, PhotoKept, Streaming,
       EndAt, Ends, Thread

(* A step that leaves all that alone.                                      *)
LEMMA ControlKept == IInv /\ UNCHANGED control => IInv'
BY DEF IInv, ControlOK, CmdAlone, RxAlone, WqOwns, TakenInv, SaverInv, PhotoKept, Streaming,
       EndAt, control, takenVars, threadVars

(* The verdict on a frame is a Boolean.                                    *)
LEMMA PoisonedType == IInv => PoisonedAfter \in BOOLEAN
BY DEF IInv, ControlOK, PoisonedAfter, CrcBad, IsDelta

(* The host's steps and the bytes that arrive.                             *)
LEMMA HostKeeps ==
    ASSUME IInv, Host
    PROVE  IInv'
<1> USE DEF IInv, ControlOK
<1>1. CASE Disconnect
    <2>1. /\ pc["rx"] = "free" /\ todo' = None /\ watchdog' = FALSE
          /\ UNCHANGED <<vs_poisoned, vstream_active, keep_on, saver, on, was_active, photo, late>>
        BY <1>1 DEF Disconnect, panelVars
    <2>2. CASE vstream_active
        <3>1. /\ pc' = [pc EXCEPT !["rx"] = "cancel"] /\ restore' = [restore EXCEPT !["rx"] = TRUE]
              /\ UNCHANGED <<streaming_mode, write_red>>
            BY <1>1, <2>2 DEF Disconnect
        <3> QED BY <2>1, <2>2, <3>1 DEF CmdAlone, RxAlone, WqOwns, TakenInv, SaverInv, PhotoKept,
                Streaming, EndAt, Ends, Thread
    <2>3. CASE ~vstream_active
        <3>1. streaming_mode' = FALSE /\ write_red' = FALSE /\ UNCHANGED <<pc, restore>>
            BY <1>1, <2>3 DEF Disconnect
        <3> QED BY <2>1, <2>3, <3>1 DEF CmdAlone, RxAlone, WqOwns, TakenInv, SaverInv, PhotoKept,
                Streaming, EndAt
    <2> QED BY <2>2, <2>3
<1>2. ASSUME NEW c \in {"start", "stop"}, Ask(c) PROVE IInv'
    BY <1>2, VStreamAssumption DEF Ask, CmdAlone, RxAlone, WqOwns, TakenInv, SaverInv, PhotoKept,
                Streaming, EndAt, decVars, streamVars, takenVars, panelVars, threadVars, ghostVars
<1>3. CASE Connect
    BY <1>3, ControlKept DEF Connect, control, decVars, streamVars, panelVars, ghostVars
<1>4. CASE Corrupt
    BY <1>4, ControlKept DEF Corrupt, control, decVars, streamVars, panelVars
<1>5. ASSUME NEW n, Lose(n) PROVE IInv'
    BY <1>5, ControlKept DEF Lose, control, decVars, streamVars, panelVars
<1>6. ASSUME NEW second, SendStop(second) PROVE IInv'
    BY <1>6, ControlKept DEF SendStop, control, decVars, streamVars, panelVars, ghostVars
<1>7. ASSUME NEW type, NEW new, SendFrame(type, new) PROVE IInv'
    BY <1>7, ControlKept DEF SendFrame, control, decVars, streamVars, panelVars
<1> QED BY <1>1, <1>2, <1>3, <1>4, <1>5, <1>6, <1>7 DEF Host

(* What arrives, and the frame shown.                                      *)
LEMMA ReceiveKeeps ==
    ASSUME IInv, Receive
    PROVE  IInv'
<1> USE DEF IInv, ControlOK
<1>1. CASE Ignored \/ HeaderByte \/ DataByte \/ FlushMissing
    BY <1>1, ControlKept DEF Ignored, HeaderByte, DataByte, FlushMissing, control, decVars, streamVars,
                             panelVars, ghostVars
<1>2. CASE Flush
    <2>1. /\ vstream_active /\ pc["rx"] = "free" /\ vs_poisoned' = PoisonedAfter
          /\ UNCHANGED <<vstream_active, takenVars, on, photo, late, todo, was_active, restore>>
          /\ \/ watchdog' = TRUE /\ pc' = pc
             \/ watchdog' = watchdog /\ pc' = [pc EXCEPT !["rx"] = "flush"]
        BY <1>2 DEF Flush, Arrives, Arm, threadVars, panelVars
    <2> QED BY <2>1, PoisonedType, ZenonT(60)
            DEF CmdAlone, RxAlone, WqOwns, TakenInv, SaverInv, PhotoKept,
                Streaming, EndAt, Ends, Thread, takenVars
<1>3. CASE FlushShows
    <2>1. /\ pc["rx"] = "flush" /\ pc' = [pc EXCEPT !["rx"] = "free"]
          /\ keep_on' = TRUE /\ on' \in BOOLEAN /\ write_red' \in BOOLEAN /\ watchdog' = TRUE
          /\ late' = (late \/ ~vstream_active \/ pc["wq"] # "free")
          /\ UNCHANGED <<vs_poisoned, vstream_active, streaming_mode, saver, was_active, restore,
                         todo, photo>>
        BY <1>3 DEF FlushShows, Arm, IsDual, hostVars
    <2>2. ControlOK'
        <3>1. late' \in BOOLEAN
            BY <2>1, Zenon
        <3> QED BY <2>1, <3>1 DEF Ends, Thread
    <2>3. CmdAlone' /\ RxAlone'
        BY <2>1 DEF CmdAlone, RxAlone, Ends, Thread
    <2>4. CASE late'
        BY <2>1, <2>2, <2>3, <2>4 DEF WqOwns, TakenInv, SaverInv, PhotoKept, Ends, Thread
    <2>5. CASE ~late'
        <3>1. ~late /\ vstream_active /\ pc["wq"] = "free" /\ pc["cmd"] = "free"
            BY <2>1, <2>5 DEF CmdAlone
        <3> QED BY <2>1, <2>2, <2>3, <3>1 DEF WqOwns, TakenInv, SaverInv, PhotoKept, Streaming,
                EndAt, Ends, Thread
    <2> QED BY <2>4, <2>5
<1>4. CASE StopByte
    <2>1. /\ vstream_active /\ pc["rx"] = "free"
          /\ UNCHANGED <<vs_poisoned, vstream_active, takenVars, on, photo, late, todo, was_active>>
        BY <1>4 DEF StopByte, Arrives, panelVars, ghostVars
    <2>2. CASE Head(wire) \in {VIDEO_STOP2, PHOTO_STOP2}
        <3>1. PICK b \in BOOLEAN : restore' = [restore EXCEPT !["rx"] = b]
            BY <1>4, <2>2 DEF StopByte
        <3>2. pc' = [pc EXCEPT !["rx"] = "cancel"] /\ watchdog' = FALSE
            BY <1>4, <2>2 DEF StopByte
        <3> QED BY <2>1, <3>1, <3>2 DEF CmdAlone, RxAlone, WqOwns, TakenInv, SaverInv, PhotoKept,
                Streaming, EndAt, Ends, Thread, takenVars
    <2>3. CASE Head(wire) \notin {VIDEO_STOP2, PHOTO_STOP2}
        <3>1. UNCHANGED <<pc, restore, watchdog>>
            BY <1>4, <2>3 DEF StopByte
        <3> QED BY <2>1, <3>1, ControlKept DEF control, threadVars
    <2> QED BY <2>2, <2>3
<1> QED BY <1>1, <1>2, <1>3, <1>4 DEF Receive

(* The command thread.                                                     *)
LEMMA CommandKeeps ==
    ASSUME IInv, Command
    PROVE  IInv'
<1> USE DEF IInv, ControlOK, CmdAlone, RxAlone, WqOwns, TakenInv, SaverInv, PhotoKept, Streaming, EndAt,
            Ends, Thread, takenVars
<1>1. CASE CmdStop
    BY <1>1, VStreamAssumption DEF CmdStop, Move, decVars, panelVars, ghostVars
<1>2. CASE CmdStart
    BY <1>2, VStreamAssumption, ZenonT(60) DEF CmdStart, Move, decVars, streamVars
<1>3. CASE CmdPrimes
    BY <1>3 DEF CmdPrimes, Move, streamVars, hostVars, ghostVars
<1>4. ASSUME NEW s, CmdReady(s) PROVE IInv'
    BY <1>4 DEF CmdReady, Arm, Move, panelVars
<1> QED BY <1>1, <1>2, <1>3, <1>4 DEF Command

(* The watchdog, and the end of a stream.                                  *)
LEMMA EndKeeps ==
    ASSUME IInv, WatchdogFires \/ \E t \in Thread : Teardown(t)
    PROVE  IInv'
<1> USE DEF IInv, ControlOK, CmdAlone, RxAlone, WqOwns, TakenInv, SaverInv, PhotoKept, Streaming, EndAt,
            Ends, Thread, takenVars
<1>1. CASE WatchdogFires
    <2>1. /\ watchdog /\ pc["wq"] = "free" /\ watchdog' = FALSE
          /\ UNCHANGED <<vs_poisoned, vstream_active, takenVars, on, todo, photo, late>>
        BY <1>1 DEF WatchdogFires, decVars, panelVars, hostVars, ghostVars
    <2>2. CASE vstream_active
        <3>1. /\ pc' = [pc EXCEPT !["wq"] = "busy"]
              /\ was_active' = [was_active EXCEPT !["wq"] = TRUE]
              /\ restore' = [restore EXCEPT !["wq"] = TRUE]
            BY <1>1, <2>2 DEF WatchdogFires, Move
        <3> QED BY <2>1, <2>2, <3>1
    <2>3. CASE ~vstream_active
        <3>1. UNCHANGED threadVars
            BY <1>1, <2>3 DEF WatchdogFires
        <3> QED BY <2>1, <2>3, <3>1 DEF threadVars
    <2> QED BY <2>2, <2>3
<1>2. ASSUME NEW t \in Thread, TearBegins(t) PROVE IInv'
    BY <1>2 DEF TearBegins, HandlerDone, Move, decVars, streamVars, panelVars, hostVars, ghostVars
<1>3. ASSUME NEW t \in Thread, TearStops(t) PROVE IInv'
    BY <1>3, ZenonT(60) DEF TearStops, Move, panelVars, hostVars, ghostVars
<1>4. ASSUME NEW t \in Thread, TearDrops(t) PROVE IInv'
    BY <1>4, ZenonT(60) DEF TearDrops, Move, decVars, streamVars, hostVars, ghostVars
<1>5. ASSUME NEW t \in Thread, TearEnds(t) PROVE IInv'
    BY <1>5 DEF TearEnds, Restores, Move, decVars, streamVars, panelVars, hostVars
<1> QED BY <1>1, <1>2, <1>3, <1>4, <1>5 DEF Teardown

(* Every step keeps the invariant of the threads.                          *)
LEMMA StepControl == IInv /\ [Next]_vars => IInv'
<1>1. IInv /\ UNCHANGED vars => IInv'
    BY ControlKept DEF vars, control, decVars, streamVars, panelVars, hostVars, ghostVars
<1> QED BY <1>1, HostKeeps, ReceiveKeeps, CommandKeeps, EndKeeps DEF Next

-----------------------------------------------------------------------------
(* The threads of a stream keep out of each other's way: commands wait for *)
(* the stream to be over, and the receive thread for the watchdog.         *)
(* (vs_exit_streaming, vs_watchdog_handler, cmd_vstream)                   *)
THEOREM ThreadsAgree == Spec => []IInv
BY InitControl, StepControl, PTL DEF Spec

(* However a stream ended, and with whatever threads in its end, nothing   *)
(* it took is left behind (vs_teardown).                                   *)
THEOREM NothingIsLeft == Spec => []LetGo
<1>1. IInv => LetGo
    BY DEF IInv, ControlOK, TakenInv, Streaming, EndAt, LetGo, Quiet, Thread
<1> QED BY <1>1, ThreadsAgree, PTL

(* A photo a stream left on the panel is not drawn over by the saver, for  *)
(* any stops after it (vs_teardown, was_active).                           *)
THEOREM PhotoIsKept == Spec => []PhotoKept
<1>1. IInv => PhotoKept
    BY DEF IInv, SaverInv
<1> QED BY <1>1, ThreadsAgree, PTL

-----------------------------------------------------------------------------
(***************************************************************************)
(* The poisoned frame buffer.  A frame that heals it has a good CRC and no *)
(* deltas; that it then fills its planes is the CRC's promise, not the     *)
(* decoder's: a shorter one would leave what was spoiled in place.         *)
(***************************************************************************)
HealsWhole ==
    Flush /\ vs_poisoned /\ ~PoisonedAfter =>
        DrainAtEnd(With(dec, fb)).d.dec = MaxDec(dec)

(* The flag tells when the black and white plane is spoiled, and a frame   *)
(* waits for the panel only when it is not.                                *)
PoisonInv ==
    /\ "bw" \in spoiled => vs_poisoned
    /\ pc["rx"] = "flush" => ~vs_poisoned
    /\ PoisonHolds

(* A frame received keeps it.                                              *)
LEMMA FlushPoison ==
    ASSUME IInv, PoisonInv, Flush, HealsWhole
    PROVE  PoisonInv'
<1>1. vs_poisoned' = PoisonedAfter /\ PoisonedAfter \in BOOLEAN /\ shown' = shown
    BY PoisonedType DEF Flush
<1>2. pc'["rx"] = "flush" => ~PoisonedAfter
    BY DEF Flush, Arrives, threadVars
<1>3. "bw" \in spoiled' => PoisonedAfter
    <2> SUFFICES ASSUME "bw" \in spoiled', ~PoisonedAfter PROVE FALSE
        BY <1>1
    <2>1. ~CrcBad
        BY DEF PoisonedAfter
    <2>2. "bw" \in spoiled
        BY <2>1 DEF Flush
    <2>3. vs_poisoned /\ ~IsDelta(dec.type)
        BY <2>2 DEF PoisonInv, PoisonedAfter
    <2>4. DrainAtEnd(With(dec, fb)).d.dec = MaxDec(dec)
        BY <2>3 DEF HealsWhole
    <2>5. spoiled' = spoiled \ Carries(dec.type)
        BY <2>1, <2>3, <2>4 DEF Flush
    <2> QED BY <2>5 DEF Carries, Both
<1> QED BY <1>1, <1>2, <1>3 DEF PoisonInv, PoisonHolds

(* So does every other step.                                               *)
LEMMA StepPoison ==
    ASSUME IInv, PoisonInv, [Next]_vars, HealsWhole
    PROVE  PoisonInv'
<1> USE DEF IInv, ControlOK, PoisonInv, PoisonHolds
<1>1. CASE Flush
    BY <1>1, FlushPoison
<1>2. ASSUME UNCHANGED <<vs_poisoned, spoiled, shown>>, pc'["rx"] = "flush" => pc["rx"] = "flush"
      PROVE  PoisonInv'
    BY <1>2
<1>3. CASE FlushShows
    BY <1>3 DEF FlushShows, Thread
<1>4. CASE Ignored \/ HeaderByte \/ DataByte \/ FlushMissing \/ StopByte
    BY <1>2, <1>4 DEF Ignored, HeaderByte, DataByte, FlushMissing, StopByte, threadVars, ghostVars,
                      decVars, Thread
<1>5. CASE Host
    <2>1. ASSUME UNCHANGED <<decVars, threadVars, spoiled, shown>> PROVE PoisonInv'
        BY <1>2, <2>1 DEF decVars, threadVars
    <2> QED BY <1>2, <1>5, <2>1 DEF Host, Connect, Disconnect, Corrupt, Ask, SendFrame, SendStop, Lose,
                      ghostVars, Thread
<1>6. CASE Command
    <2>1. ASSUME NEW s, CmdReady(s) PROVE PoisonInv'
        BY <2>1 DEF CmdReady, Move, CmdAlone, Thread
    <2>2. CASE CmdStop \/ CmdStart \/ CmdPrimes
        BY <1>2, <2>2 DEF CmdStop, CmdStart, CmdPrimes, Move, decVars, ghostVars, Thread
    <2> QED BY <1>6, <2>1, <2>2 DEF Command
<1>7. CASE WatchdogFires \/ \E t \in Thread : Teardown(t)
    BY <1>2, <1>7 DEF WatchdogFires, Teardown, TearBegins, TearStops, TearDrops, TearEnds, Move,
                      decVars, threadVars, ghostVars, Thread
<1>8. CASE UNCHANGED vars
    BY <1>2, <1>8 DEF vars, decVars, threadVars, ghostVars
<1> QED BY <1>1, <1>3, <1>4, <1>5, <1>6, <1>7, <1>8 DEF Next, Receive

-----------------------------------------------------------------------------
(***************************************************************************)
(* The bytes of a frame: what one of them may do to the decoder and to the *)
(* frame buffer, at any resolution and for any panel.                      *)
(***************************************************************************)
(* Division with remainder, for any divisor.                               *)
LEMMA DivMod ==
    ASSUME NEW n \in Nat, NEW m \in Nat \ {0}
    PROVE  n \div m \in Nat /\ n % m \in 0 .. m - 1 /\ n = m * (n \div m) + (n % m)
<1>1. n % m = n - m * (n \div m)
    BY Z3
<1>2. n \div m \in Nat
    OBVIOUS
<1>3. n % m \in 0 .. m - 1
    OBVIOUS
<1> DEFINE q == n \div m
           r == n % m
<1> HIDE DEF q, r
<1>4. r = n - m * q /\ q \in Nat /\ r \in 0 .. m - 1
    BY <1>1, <1>2, <1>3 DEF q, r
<1>5. m * q \in Nat
    BY <1>4
<1>6. n = m * q + r
    BY <1>4, <1>5
<1> QED BY <1>2, <1>3, <1>6 DEF q, r

(* There is one way to divide.                                             *)
LEMMA DivUnique ==
    ASSUME NEW m \in Nat \ {0}, NEW q \in Nat, NEW r \in 0 .. m - 1
    PROVE  (m * q + r) \div m = q /\ (m * q + r) % m = r
BY SMTT(30)

(* What is below a product is divided to less than its factor.             *)
LEMMA DivBelow ==
    ASSUME NEW m \in Nat \ {0}, NEW k \in Nat, NEW n \in 0 .. m * k - 1
    PROVE  n \div m \in 0 .. k - 1
<1>0. m * k \in Nat /\ n \in Nat /\ n < m * k
    OBVIOUS
<1> DEFINE q == n \div m
           r == n % m
<1>1. q \in Nat /\ r \in 0 .. m - 1 /\ n = m * q + r
    BY <1>0, DivMod
<1> HIDE DEF q, r
<1>2. ASSUME q >= k PROVE FALSE
    <2>1. m * q = m * k + m * (q - k)
        BY <1>1, <1>2
    <2>2. m * (q - k) >= 0
        BY <1>1, <1>2
    <2> QED BY <1>0, <1>1, <2>1, <2>2
<1> QED BY <1>1, <1>2 DEF q

(* A panel halved both ways.                                               *)
LEMMA Halved ==
    \E h, r \in Nat \ {0} :
        /\ Stride = 2 * h /\ Rows = 2 * r /\ Stride \div 2 = h
        /\ h * r \in Nat \ {0} /\ Size = 4 * (h * r) /\ Size \div 4 = h * r
<1> DEFINE h == Stride \div 2
           r == Rows \div 2
<1>1. Stride = 2 * h /\ Rows = 2 * r /\ h \in Nat \ {0} /\ r \in Nat \ {0}
    BY StreamCodecAssumption
<1> HIDE DEF h, r
<1>2. h * r \in Nat /\ h * r # 0
    BY <1>1
<1>3. Size = 4 * (h * r)
    BY <1>1 DEF Size
<1> DEFINE n == h * r
<1>4. (4 * n) \div 4 = n
    BY <1>2
<1> QED BY <1>1, <1>2, <1>3, <1>4 DEF h

(* The row of a cell.                                                      *)
LEMMA RowOfCell ==
    ASSUME NEW c \in Cells
    PROVE  c \div Stride \in 0 .. Rows - 1
<1>1. Stride \in Nat \ {0} /\ Rows \in Nat
    BY StreamCodecAssumption
<1> QED BY <1>1, DivBelow DEF Cells, Size

(* vs_plane_bytes by resolution.                                           *)
PlaneOf(half) == IF half THEN Size \div 4 ELSE Size

(* A decoded byte lands inside the plane (vs_write_byte).                  *)
LEMMA PlacesInPlane ==
    ASSUME NEW half \in BOOLEAN, NEW off \in 0 .. PlaneOf(half) - 1
    PROVE  Places(half, off) \subseteq Cells
<1>1. CASE ~half
    BY <1>1 DEF Places, PlaneOf, Cells
<1>2. CASE half
    <2>1. PICK h \in Nat \ {0}, r \in Nat \ {0} :
              /\ Stride = 2 * h /\ Rows = 2 * r /\ Stride \div 2 = h
              /\ h * r \in Nat \ {0} /\ Size = 4 * (h * r) /\ Size \div 4 = h * r
        BY Halved
    <2> DEFINE y == off \div h
               x == off % h
    <2>2. off \in Nat /\ off \in 0 .. h * r - 1
        BY <1>2, <2>1 DEF PlaneOf
    <2>3. y \in 0 .. r - 1 /\ x \in 0 .. h - 1
        BY <2>1, <2>2, DivBelow, DivMod
    <2> HIDE DEF y, x
    <2> DEFINE left == (2 * y) * Stride + 2 * x
    <2>4. left \in Nat /\ left + Stride + 1 < Size
        <3>1. left = 4 * (h * y) + 2 * x
            BY <2>1, <2>3
        <3>2. h * y \in Nat /\ h * (r - 1 - y) \in Nat
            BY <2>1, <2>3
        <3>3. h * r = h * y + h + h * (r - 1 - y)
            BY <2>1, <2>3
        <3> HIDE DEF left
        <3> QED BY <2>1, <2>3, <3>1, <3>2, <3>3
    <2>5. Places(half, off) = {left, left + 1, left + Stride, left + Stride + 1}
        BY <1>2, <2>1 DEF Places, y, x
    <2> HIDE DEF left
    <2>6. Stride \in Nat /\ Size \in Nat
        BY <2>1
    <2> QED BY <2>4, <2>5, <2>6 DEF Cells
<1> QED BY <1>1, <1>2

(* No two of them land in one cell, so that each may be written at once    *)
(* and a delta turns each cell over once.                                  *)
LEMMA PlacesApart ==
    ASSUME NEW half \in BOOLEAN, NEW o1 \in 0 .. PlaneOf(half) - 1,
           NEW o2 \in 0 .. PlaneOf(half) - 1, o1 # o2
    PROVE  Places(half, o1) \cap Places(half, o2) = {}
<1>1. CASE ~half
    BY <1>1 DEF Places
<1>2. CASE half
    <2>1. PICK h \in Nat \ {0}, r \in Nat \ {0} :
              /\ Stride = 2 * h /\ Rows = 2 * r /\ Stride \div 2 = h
              /\ h * r \in Nat \ {0} /\ Size = 4 * (h * r) /\ Size \div 4 = h * r
        BY Halved
    <2>2. ASSUME NEW off \in 0 .. PlaneOf(half) - 1, NEW c \in Places(half, off)
          PROVE  off = h * ((c \div Stride) \div 2) + (c % Stride) \div 2
        <3> DEFINE y == off \div h
                   x == off % h
        <3>1. off \in Nat
            BY <1>2, <2>1 DEF PlaneOf
        <3>2. y \in Nat /\ x \in 0 .. h - 1 /\ off = h * y + x
            BY <2>1, <3>1, DivMod
        <3>3. \E i, j \in {0, 1} : c = (2 * y) * Stride + 2 * x + i * Stride + j
            <4> DEFINE left == (2 * y) * Stride + 2 * x
            <4>1. c \in {left, left + 1, left + Stride, left + Stride + 1}
                BY <1>2, <2>1 DEF Places
            <4>2. left \in Nat /\ Stride \in Nat
                BY <2>1, <3>2
            <4> HIDE DEF left
            <4>3. \E i, j \in {0, 1} : c = left + i * Stride + j
                BY <4>1, <4>2
            <4> QED BY <4>3 DEF left
        <3> HIDE DEF y, x
        <3>4. PICK i \in {0, 1}, j \in {0, 1} : c = (2 * y) * Stride + 2 * x + i * Stride + j
            BY <3>3
        <3>5. c = Stride * (2 * y + i) + (2 * x + j)
            BY <2>1, <3>2, <3>4
        <3>6. 2 * y + i \in Nat /\ 2 * x + j \in 0 .. Stride - 1 /\ Stride \in Nat \ {0}
            BY <2>1, <3>2
        <3>7. c \div Stride = 2 * y + i /\ c % Stride = 2 * x + j
            BY <3>5, <3>6, DivUnique
        <3>8. (2 * y + i) \div 2 = y /\ (2 * x + j) \div 2 = x
            BY <3>2
        <3> QED BY <3>2, <3>7, <3>8
    <2> QED BY <2>2
<1> QED BY <1>1, <1>2

-----------------------------------------------------------------------------
(* Nibbles and bytes.                                                      *)
Nibble == 0 .. 15

LEMMA NibblesXor ==
    ASSUME NEW a \in Nibble, NEW b \in Nibble
    PROVE  XorNibble[<<a, b>>] \in Nibble
<1> DEFINE bit(k) == ((a \div k + b \div k) % 2) * k
<1>1. <<a, b>> \in (0 .. 15) \X (0 .. 15)
    BY DEF Nibble
<1>2. XorNibble[<<a, b>>] = bit(1) + bit(2) + bit(4) + bit(8)
    BY <1>1 DEF XorNibble
<1>3. bit(1) \in 0 .. 1 /\ bit(2) \in 0 .. 2 /\ bit(4) \in 0 .. 4 /\ bit(8) \in 0 .. 8
    BY DEF Nibble
<1> HIDE DEF bit
<1> QED BY <1>2, <1>3 DEF Nibble

LEMMA NibblesOf ==
    ASSUME NEW b \in Byte
    PROVE  b \div 16 \in Nibble /\ b % 16 \in Nibble /\ b = 16 * (b \div 16) + (b % 16)
BY DEF Byte, Nibble

(* What a number of sixteen bits is.                                       *)
LEMMA WordOf ==
    ASSUME NEW w
    PROVE  w \in Word <=> w \in Nat /\ w <= 65535
<1>1. \A m \in Nat : w \in 0 .. m <=> w \in Nat /\ w <= m
    OBVIOUS
<1>2. WordMax \in Nat
    BY DEF WordMax
<1>3. w \in Word <=> w \in Nat /\ w <= WordMax
    BY <1>1, <1>2 DEF Word
<1> QED BY <1>3 DEF WordMax

LEMMA BytesOf ==
    ASSUME NEW w \in Word
    PROVE  w \div 256 \in Byte /\ w % 256 \in Byte
<1>1. w \in Nat /\ w <= 65535
    BY WordOf
<1>2. w \div 256 \in Nat /\ w \div 256 <= 255 /\ w % 256 \in Nat /\ w % 256 <= 255
    BY <1>1
<1> QED BY <1>2 DEF Byte

LEMMA BytesXor ==
    ASSUME NEW a \in Byte, NEW b \in Byte
    PROVE  Xor(a, b) \in Byte
<1> DEFINE x == XorNibble[<<a \div 16, b \div 16>>]
           y == XorNibble[<<a % 16, b % 16>>]
<1>1. x \in Nibble /\ y \in Nibble
    BY NibblesOf, NibblesXor
<1> HIDE DEF x, y
<1>2. 16 * x + y \in Byte
    BY <1>1 DEF Nibble, Byte
<1> QED BY <1>2 DEF Xor, x, y

LEMMA WordsXor ==
    ASSUME NEW a \in Word, NEW b \in Word
    PROVE  Xor16(a, b) \in Word
<1> DEFINE x == Xor(a \div 256, b \div 256)
           y == Xor(a % 256, b % 256)
<1>1. x \in Byte /\ y \in Byte
    BY BytesOf, BytesXor
<1> HIDE DEF x, y
<1>2. x \in Nat /\ x <= 255 /\ y \in Nat /\ y <= 255
    BY <1>1 DEF Byte
<1>3. 256 * x + y \in Nat /\ 256 * x + y <= 65535
    BY <1>2
<1>4. 256 * x + y \in Word
    BY <1>3, WordOf
<1> QED BY <1>4 DEF Xor16, x, y

(* The checksum stays within its sixteen bits.                             *)
LEMMA CrcType ==
    ASSUME NEW crc \in Word, NEW b \in Byte
    PROVE  Crc16(crc, b) \in Word
<1>1. ASSUME NEW k \in Word, NEW n \in Nibble PROVE CrcNibble(k, n) \in Word
    <2> DEFINE z == XorNibble[<<k \div 4096, n>>]
    <2>0. k \in Nat /\ k <= 65535
        BY WordOf
    <2>1. k \div 4096 \in Nat /\ k \div 4096 <= 15
        BY <2>0
    <2>2. z \in Nibble
        <3>1. k \div 4096 \in Nibble
            BY <2>1 DEF Nibble
        <3> QED BY <3>1, NibblesXor
    <2> HIDE DEF z
    <2>3. (k * 16) % 65536 \in Nat /\ (k * 16) % 65536 <= 65535
        BY <2>0
    <2>4. 4129 * z \in Nat /\ 4129 * z <= 65535
        BY <2>2 DEF Nibble
    <2>5. (k * 16) % 65536 \in Word /\ 4129 * z \in Word
        BY <2>3, <2>4, WordOf
    <2>6. Xor16((k * 16) % 65536, 4129 * z) \in Word
        BY <2>5, WordsXor
    <2> QED BY <2>6 DEF CrcNibble, z
<1>2. CrcNibble(crc, b \div 16) \in Word
    BY <1>1, NibblesOf
<1> QED BY <1>1, <1>2, NibblesOf DEF Crc16

(* Nothing is turned over by a byte of zeros.                              *)
LEMMA XorZero ==
    ASSUME NEW a \in Byte
    PROVE  Xor(a, 0) = a
<1>1. ASSUME NEW n \in Nibble PROVE XorNibble[<<n, 0>>] = n
    <2> DEFINE bit(k) == ((n \div k + 0 \div k) % 2) * k
    <2>1. <<n, 0>> \in (0 .. 15) \X (0 .. 15)
        BY DEF Nibble
    <2>2. XorNibble[<<n, 0>>] = bit(1) + bit(2) + bit(4) + bit(8)
        BY <2>1 DEF XorNibble
    <2>3. /\ bit(1) = n % 2 /\ bit(2) = ((n \div 2) % 2) * 2
          /\ bit(4) = ((n \div 4) % 2) * 4 /\ bit(8) = ((n \div 8) % 2) * 8
        BY DEF Nibble
    <2> HIDE DEF bit
    <2>4. n = (n % 2) + ((n \div 2) % 2) * 2 + ((n \div 4) % 2) * 4 + ((n \div 8) % 2) * 8
        BY DEF Nibble
    <2> QED BY <2>2, <2>3, <2>4
<1>2. 0 \div 16 = 0 /\ 0 % 16 = 0
    OBVIOUS
<1>3. XorNibble[<<a \div 16, 0>>] = a \div 16 /\ XorNibble[<<a % 16, 0>>] = a % 16
    BY <1>1, NibblesOf
<1>4. Xor(a, 0) = 16 * (a \div 16) + (a % 16)
    BY <1>2, <1>3 DEF Xor
<1> QED BY <1>4, NibblesOf

LEMMA PartType ==
    ASSUME NEW half \in BOOLEAN, NEW c \in Cells, NEW b \in Byte
    PROVE  Part(half, c, b) \in Byte /\ (b = 0 => Part(half, c, b) = 0)
<1>1. ASSUME NEW n \in Nibble PROVE DoubleNibble(n) \in Byte /\ (n = 0 => DoubleNibble(n) = 0)
    <2> DEFINE bit(k) == ((n \div k) % 2) * 3 * k * k
    <2>1. bit(1) \in 0 .. 3 /\ bit(2) \in 0 .. 12 /\ bit(4) \in 0 .. 48 /\ bit(8) \in 0 .. 192
        BY DEF Nibble
    <2>2. n = 0 => bit(1) = 0 /\ bit(2) = 0 /\ bit(4) = 0 /\ bit(8) = 0
        OBVIOUS
    <2>3. DoubleNibble(n) = bit(1) + bit(2) + bit(4) + bit(8)
        BY DEF DoubleNibble
    <2> HIDE DEF bit
    <2> QED BY <2>1, <2>2, <2>3, SMTT(30) DEF Byte
<1>2. b = 0 => b \div 16 = 0 /\ b % 16 = 0
    OBVIOUS
<1> QED BY <1>1, <1>2, NibblesOf DEF Part

-----------------------------------------------------------------------------
(* What a frame may decode to, and how far a decoder has got.              *)
LEMMA FrameBytes ==
    ASSUME NEW d \in Decoder
    PROVE  /\ PlaneBytes(d) = PlaneOf(d.half) /\ PlaneBytes(d) \in 1 .. Size
           /\ MaxDec(d) \in {PlaneBytes(d), 2 * PlaneBytes(d)} /\ MaxDec(d) \in 1 .. 2 * Size
           /\ Size \in Nat
<1>1. PICK h \in Nat \ {0}, r \in Nat \ {0} :
          /\ Stride = 2 * h /\ Rows = 2 * r /\ Stride \div 2 = h
          /\ h * r \in Nat \ {0} /\ Size = 4 * (h * r) /\ Size \div 4 = h * r
    BY Halved
<1>2. d.half \in BOOLEAN
    BY DEF Decoder
<1> QED BY <1>1, <1>2 DEF PlaneBytes, MaxDec, PlaneOf

(* The bytes to come land inside the planes.                               *)
LEMMA ReachedInPlane ==
    ASSUME NEW d \in Decoder, NEW m \in Nat, d.dec + m <= MaxDec(d), NEW p \in {"bw", "red"}
    PROVE  Reached(d, m, p) \subseteq Cells
<1> DEFINE plane == PlaneBytes(d)
<1>1. d.dec \in Nat /\ d.half \in BOOLEAN
    BY DEF Decoder
<1>2. plane \in Nat \ {0} /\ plane = PlaneOf(d.half)
    BY FrameBytes
<1> HIDE DEF plane
<1>3. ASSUME NEW o \in d.dec .. d.dec + m - 1 PROVE Places(d.half, o % plane) \subseteq Cells
    <2>1. o \in Nat
        BY <1>1
    <2>2. o % plane \in 0 .. PlaneOf(d.half) - 1
        BY <1>2, <2>1
    <2> QED BY <1>1, <2>2, PlacesInPlane
<1> QED BY <1>3 DEF Reached, plane

(* ... and there are some.                                                 *)
LEMMA ReachedSome ==
    ASSUME NEW d \in Decoder, NEW m \in Nat \ {0}
    PROVE  Reached(d, m, "bw") \cup Reached(d, m, "red") # {}
<1>1. d.dec \in Nat /\ d.dec \in d.dec .. d.dec + m - 1
    BY DEF Decoder
<1>2. Places(d.half, d.dec % PlaneBytes(d)) # {}
    BY DEF Places
<1>3. CASE d.dec < PlaneBytes(d)
    <2>1. Places(d.half, d.dec % PlaneBytes(d)) \subseteq Reached(d, m, "bw")
        BY <1>1, <1>3 DEF Reached
    <2> QED BY <1>2, <2>1
<1>4. CASE ~(d.dec < PlaneBytes(d))
    <2>1. Places(d.half, d.dec % PlaneBytes(d)) \subseteq Reached(d, m, "red")
        BY <1>1, <1>4 DEF Reached
    <2> QED BY <1>2, <2>1
<1> QED BY <1>3, <1>4

(* A nonempty set of naturals has a least member.                          *)
LEMMA NatMin ==
    ASSUME NEW T \in SUBSET Nat, T # {}
    PROVE  \E m \in T : \A k \in T : m <= k
<1> DEFINE R == {ss \in Nat \X Nat : ss[1] < ss[2]}
<1>1. IsWellFoundedOn(R, Nat)
    BY NatLessThanWellFounded DEF OpToRel
<1>2. \A k, m \in Nat : k < m => <<k, m>> \in R
    OBVIOUS
<1> HIDE DEF R
<1>3. PICK m \in T : \A k \in T : ~(<<k, m>> \in R)
    BY <1>1, WFMin
<1>4. \A k \in T : ~(k < m)
    BY <1>2, <1>3
<1> QED BY <1>4

(* ... and a bounded one a greatest.                                       *)
LEMMA BoundedMax ==
    ASSUME NEW b \in Nat, NEW T \in SUBSET (0 .. b), T # {}
    PROVE  \E m \in T : \A k \in T : k <= m
<1> DEFINE U == {b - k : k \in T}
<1>0. \A k \in T : b - k \in Nat
    OBVIOUS
<1>1. U \in SUBSET Nat /\ U # {}
    BY <1>0
<1>2. PICK u \in U : \A v \in U : u <= v
    BY <1>1, NatMin
<1>3. PICK m \in T : u = b - m
    BY <1>2
<1>4. \A k \in T : b - m <= b - k
    BY <1>2, <1>3
<1>5. \A k \in T : k \in Nat /\ b - k \in Nat
    OBVIOUS
<1> QED BY <1>3, <1>4, <1>5

(* The rows that are to be written to the panel.                           *)
Marked(d, c) == d.y0 <= c \div Stride /\ c \div Stride <= d.y1

(* The topmost and the lowest row of some cells.                           *)
TopRow(cells) ==
    LET rows == {c \div Stride : c \in cells} IN CHOOSE r \in rows : \A s \in rows : r <= s

BottomRow(cells) ==
    LET rows == {c \div Stride : c \in cells} IN CHOOSE r \in rows : \A s \in rows : r >= s

LEMMA RowsOf ==
    ASSUME NEW cells \in SUBSET Cells, cells # {}
    PROVE  /\ TopRow(cells) \in 0 .. Rows - 1 /\ BottomRow(cells) \in 0 .. Rows - 1
           /\ \A c \in cells : TopRow(cells) <= c \div Stride /\ c \div Stride <= BottomRow(cells)
           /\ \E c \in cells : c \div Stride = TopRow(cells)
           /\ \E c \in cells : c \div Stride = BottomRow(cells)
<1> DEFINE rows == {c \div Stride : c \in cells}
<1>1. rows \in SUBSET (0 .. Rows - 1) /\ rows # {} /\ Rows - 1 \in Nat
    BY RowOfCell, StreamCodecAssumption
<1>2. TopRow(cells) \in rows /\ \A s \in rows : TopRow(cells) <= s
    <2>1. TopRow(cells) = CHOOSE r \in rows : \A s \in rows : r <= s
        BY DEF TopRow
    <2>2. rows \in SUBSET Nat
        BY <1>1
    <2> HIDE DEF rows
    <2>3. \E r \in rows : \A s \in rows : r <= s
        BY <1>1, <2>2, NatMin
    <2> QED BY <2>1, <2>3
<1>3. BottomRow(cells) \in rows /\ \A s \in rows : BottomRow(cells) >= s
    <2>1. BottomRow(cells) = CHOOSE r \in rows : \A s \in rows : r >= s
        BY DEF BottomRow
    <2> HIDE DEF rows
    <2>2. \E r \in rows : \A s \in rows : s <= r
        BY <1>1, BoundedMax
    <2>3. \A r, s \in rows : r >= s <=> s <= r
        BY <1>1
    <2>4. \E r \in rows : \A s \in rows : r >= s
        BY <2>2, <2>3
    <2> QED BY <2>1, <2>4
<1>4. \A c \in cells : c \div Stride \in rows
    OBVIOUS
<1>5. \A r \in rows : \E c \in cells : c \div Stride = r
    OBVIOUS
<1> HIDE DEF rows
<1>6. \A r \in rows : r \in Int
    BY <1>1
<1> QED BY <1>1, <1>2, <1>3, <1>4, <1>5, <1>6

(* vs_mark_dirty, by these two.                                            *)
LEMMA MarkIs ==
    ASSUME NEW d, NEW cells
    PROVE  MarkDirty(d, cells) = [d EXCEPT !.y0 = Lower(d.y0, TopRow(cells)),
                                           !.y1 = Upper(d.y1, BottomRow(cells))]
BY DEF MarkDirty, TopRow, BottomRow

(* vs_mark_dirty marks the rows it is given and forgets none.              *)
LEMMA MarkCovers ==
    ASSUME NEW d \in Decoder, NEW cells \in SUBSET Cells, cells # {}
    PROVE  /\ MarkDirty(d, cells) \in Decoder
           /\ MarkDirty(d, cells) =
                 [d EXCEPT !.y0 = MarkDirty(d, cells).y0, !.y1 = MarkDirty(d, cells).y1]
           /\ MarkDirty(d, cells).y0 <= d.y0 /\ d.y1 <= MarkDirty(d, cells).y1
           /\ \A c \in cells : Marked(MarkDirty(d, cells), c)
<1> DEFINE top == TopRow(cells)
           bottom == BottomRow(cells)
           e == MarkDirty(d, cells)
<1>1. e = [d EXCEPT !.y0 = Lower(d.y0, top), !.y1 = Upper(d.y1, bottom)]
    BY MarkIs
<1>2. /\ top \in 0 .. Rows - 1 /\ bottom \in 0 .. Rows - 1 /\ Rows \in Nat
      /\ \A c \in cells : top <= c \div Stride /\ c \div Stride <= bottom
    BY RowsOf, StreamCodecAssumption
<1> HIDE DEF top, bottom, e
<1>3. d.y0 \in 0 .. Rows /\ d.y1 \in -1 .. Rows - 1
    BY DEF Decoder
<1>4. /\ Lower(d.y0, top) \in 0 .. Rows /\ Lower(d.y0, top) <= d.y0 /\ Lower(d.y0, top) <= top
      /\ Upper(d.y1, bottom) \in -1 .. Rows - 1 /\ d.y1 <= Upper(d.y1, bottom)
      /\ bottom <= Upper(d.y1, bottom)
    BY <1>2, <1>3 DEF Lower, Upper
<1>5. e.y0 = Lower(d.y0, top) /\ e.y1 = Upper(d.y1, bottom) /\ e \in Decoder
    BY <1>1, <1>4, ZenonT(60) DEF Decoder
<1>6. \A c \in cells : Marked(e, c)
    <2> TAKE c \in cells
    <2>1. c \div Stride \in Int
        BY RowOfCell
    <2> QED BY <1>2, <1>3, <1>4, <1>5, <2>1 DEF Marked
<1> QED BY <1>1, <1>4, <1>5, <1>6 DEF e

-----------------------------------------------------------------------------
(* A decoder that may go on: it has not gone past the end of its frame.    *)
Within(d) == d \in Decoder /\ d.dec <= MaxDec(d)

(* What one step of decoding may do to a frame buffer: it stays within the *)
(* planes, forgets no mark, and marks what a delta turned over.            *)
Advances(s, t) ==
    /\ t.d \in Decoder /\ t.fb \in Planes
    /\ t.d.dec <= MaxDec(t.d) /\ s.d.dec <= t.d.dec
    /\ t.d.type = s.d.type /\ t.d.half = s.d.half
    /\ t.d.y0 <= s.d.y0 /\ s.d.y1 <= t.d.y1
    /\ IsDelta(s.d.type) =>
          \A p \in {"bw", "red"}, c \in Cells : t.fb[p][c] # s.fb[p][c] => Marked(t.d, c)

Pairs == [d : {d \in Decoder : Within(d)}, fb : Planes]

(* vs_write_byte.                                                          *)
LEMMA WriteAdvances ==
    ASSUME NEW s \in Pairs, NEW n \in Nat, NEW b \in Byte
    PROVE  /\ Advances(s, Write(s, n, b))
           /\ Write(s, n, b) \in Pairs
           /\ LET e == Write(s, n, b).d
              IN e = [s.d EXCEPT !.dec = e.dec, !.y0 = e.y0, !.y1 = e.y1]
<1> DEFINE d == s.d
           m == Lower(n, MaxDec(d) - d.dec)
           cells == [p \in {"bw", "red"} |-> Reached(d, m, p)]
           all == cells["bw"] \cup cells["red"]
           marks == IsDelta(d.type) /\ b # 0 /\ m > 0
           marked == IF marks THEN MarkDirty(d, all) ELSE d
           e == [marked EXCEPT !.dec = @ + m]
           new(p, c) == IF c \notin cells[p] THEN s.fb[p][c]
                        ELSE IF IsDelta(d.type) THEN Xor(s.fb[p][c], Part(d.half, c, b))
                             ELSE Part(d.half, c, b)
           planes == [p \in {"bw", "red"} |-> [c \in Cells |-> new(p, c)]]
<1>1. Write(s, n, b) = [d |-> e, fb |-> planes]
    BY DEF Write
<1>2. d \in Decoder /\ d.dec <= MaxDec(d) /\ s.fb \in Planes
    BY DEF Pairs, Within
<1>3. /\ d.dec \in Nat /\ MaxDec(d) \in Nat /\ MaxDec(d) <= 2 * Size /\ Size \in Nat
      /\ d.half \in BOOLEAN
    BY <1>2, FrameBytes DEF Decoder
<1>4. m \in Nat /\ d.dec + m <= MaxDec(d)
    BY <1>2, <1>3 DEF Lower
<1> HIDE DEF m, d
<1>5. \A p \in {"bw", "red"} : cells[p] \in SUBSET Cells
    BY <1>2, <1>4, ReachedInPlane
<1>6. m > 0 => all # {}
    BY <1>2, <1>4, ReachedSome
<1>7. all \in SUBSET Cells
    BY <1>5
<1> HIDE DEF cells
<1>8. /\ marked \in Decoder
      /\ marked = [d EXCEPT !.y0 = marked.y0, !.y1 = marked.y1]
      /\ marked.y0 <= d.y0 /\ d.y1 <= marked.y1
      /\ marks => \A c \in all : Marked(marked, c)
    <2>1. CASE marks
        <3>1. marked = MarkDirty(d, all) /\ all # {}
            BY <1>6, <2>1
        <3> HIDE DEF all, marked
        <3> QED BY <1>2, <1>7, <3>1, MarkCovers
    <2>2. CASE ~marks
        <3>1. marked = d
            BY <2>2
        <3>2. d.y0 \in Int /\ d.y1 \in Int
            BY <1>2 DEF Decoder
        <3>3. d = [d EXCEPT !.y0 = d.y0, !.y1 = d.y1]
            BY <1>2 DEF Decoder
        <3> HIDE DEF marked
        <3> QED BY <1>2, <2>2, <3>1, <3>2, <3>3
    <2> QED BY <2>1, <2>2
<1> HIDE DEF marked
<1>9. /\ e \in Decoder /\ e.dec = d.dec + m
      /\ e = [d EXCEPT !.dec = e.dec, !.y0 = e.y0, !.y1 = e.y1]
      /\ e.y0 = marked.y0 /\ e.y1 = marked.y1 /\ e.type = d.type /\ e.half = d.half
    <2>1. marked.dec = d.dec /\ marked.type = d.type /\ marked.half = d.half
        BY <1>2, <1>8 DEF Decoder
    <2>2. d.dec + m \in 0 .. 2 * Size
        BY <1>3, <1>4
    <2>3. e = [marked EXCEPT !.dec = d.dec + m]
        BY <2>1
    <2>4. e \in Decoder
        BY <1>8, <2>2, <2>3 DEF Decoder
    <2>5. e.dec = d.dec + m /\ e.y0 = marked.y0 /\ e.y1 = marked.y1
        BY <1>8, <2>3 DEF Decoder
    <2>6. e.type = d.type /\ e.half = d.half
        BY <1>8, <2>1, <2>3 DEF Decoder
    <2>7. e = [d EXCEPT !.dec = d.dec + m, !.y0 = marked.y0, !.y1 = marked.y1]
        BY <1>2, <1>8, <2>3 DEF Decoder
    <2> QED BY <2>4, <2>5, <2>6, <2>7
<1>10. planes \in Planes
    <2>1. ASSUME NEW p \in {"bw", "red"}, NEW c \in Cells PROVE new(p, c) \in Byte
        <3>1. s.fb[p][c] \in Byte
            BY <1>2 DEF Planes, Plane
        <3>2. Part(d.half, c, b) \in Byte
            BY <1>3, PartType
        <3> QED BY <3>1, <3>2, BytesXor
    <2> HIDE DEF new
    <2> QED BY <2>1 DEF Planes, Plane
<1>11. ASSUME IsDelta(d.type), NEW p \in {"bw", "red"}, NEW c \in Cells, planes[p][c] # s.fb[p][c]
       PROVE  Marked(e, c)
    <2>1. planes[p][c] = new(p, c)
        OBVIOUS
    <2>2. c \in cells[p] /\ new(p, c) = Xor(s.fb[p][c], Part(d.half, c, b))
        BY <1>11, <2>1
    <2>3. s.fb[p][c] \in Byte
        BY <1>2 DEF Planes, Plane
    <2>4. b # 0
        <3> SUFFICES ASSUME b = 0 PROVE FALSE
            OBVIOUS
        <3>1. Part(d.half, c, b) = 0
            BY <1>3, PartType
        <3> QED BY <1>11, <2>1, <2>2, <2>3, <3>1, XorZero
    <2>5. c \in all
        BY <2>2
    <2>6. m > 0
        <3> SUFFICES ASSUME m = 0 PROVE FALSE
            BY <1>4
        <3>1. \A q \in {"bw", "red"} : cells[q] = {}
            <4>1. d.dec .. d.dec + m - 1 = {}
                BY <1>3
            <4> QED BY <4>1 DEF cells, Reached
        <3> QED BY <2>2, <3>1
    <2>7. Marked(marked, c)
        BY <1>8, <1>11, <2>4, <2>5, <2>6
    <2> QED BY <1>9, <2>7 DEF Marked
<1>12. MaxDec(e) = MaxDec(d)
    BY <1>9 DEF MaxDec, PlaneBytes
<1> HIDE DEF e, planes
<1> DEFINE t == Write(s, n, b)
<1>13. t.d = e /\ t.fb = planes
    BY <1>1
<1>14. e.dec <= MaxDec(e) /\ d.dec <= e.dec /\ e.y0 <= d.y0 /\ d.y1 <= e.y1
    BY <1>3, <1>4, <1>8, <1>9, <1>12
<1>15. t \in Pairs
    BY <1>1, <1>9, <1>10, <1>14 DEF Pairs, Within
<1>16. Advances(s, t)
    BY <1>9, <1>10, <1>11, <1>13, <1>14, ZenonT(60) DEF Advances, d
<1> QED BY <1>9, <1>13, <1>15, <1>16 DEF d

(* One step after another.                                                 *)
LEMMA AdvancesOn ==
    ASSUME NEW s, NEW t, NEW u, s.d \in Decoder, Advances(s, t), Advances(t, u)
    PROVE  Advances(s, u)
<1>1. /\ s.d.y0 \in Int /\ t.d.y0 \in Int /\ u.d.y0 \in Int
      /\ s.d.y1 \in Int /\ t.d.y1 \in Int /\ u.d.y1 \in Int
      /\ s.d.dec \in Int /\ t.d.dec \in Int /\ u.d.dec \in Int
    BY DEF Advances, Decoder
<1>2. ASSUME IsDelta(s.d.type), NEW p \in {"bw", "red"}, NEW c \in Cells, u.fb[p][c] # s.fb[p][c]
      PROVE  Marked(u.d, c)
    <2>1. c \div Stride \in Int
        BY RowOfCell
    <2>2. CASE t.fb[p][c] # s.fb[p][c]
        <3>1. Marked(t.d, c)
            BY <1>2, <2>2 DEF Advances
        <3> QED BY <1>1, <2>1, <3>1 DEF Advances, Marked
    <2>3. CASE t.fb[p][c] = s.fb[p][c]
        BY <1>2, <2>3 DEF Advances
    <2> QED BY <2>2, <2>3
<1> QED BY <1>1, <1>2 DEF Advances

(* ... of two sets of cells together.                                      *)
LEMMA RowsJoined ==
    ASSUME NEW A \in SUBSET Cells, NEW B \in SUBSET Cells, A # {}, B # {}
    PROVE  /\ TopRow(A \cup B) = Lower(TopRow(A), TopRow(B))
           /\ BottomRow(A \cup B) = Upper(BottomRow(A), BottomRow(B))
<1>1. A \cup B \in SUBSET Cells /\ A \cup B # {}
    OBVIOUS
<1>2. /\ TopRow(A \cup B) \in Int /\ TopRow(A) \in Int /\ TopRow(B) \in Int
      /\ BottomRow(A \cup B) \in Int /\ BottomRow(A) \in Int /\ BottomRow(B) \in Int
    BY <1>1, RowsOf
<1>3. TopRow(A \cup B) <= TopRow(A) /\ TopRow(A \cup B) <= TopRow(B)
    BY <1>1, RowsOf
<1>4. TopRow(A) <= TopRow(A \cup B) \/ TopRow(B) <= TopRow(A \cup B)
    BY <1>1, RowsOf
<1>5. BottomRow(A) <= BottomRow(A \cup B) /\ BottomRow(B) <= BottomRow(A \cup B)
    BY <1>1, RowsOf
<1>6. BottomRow(A \cup B) <= BottomRow(A) \/ BottomRow(A \cup B) <= BottomRow(B)
    BY <1>1, RowsOf
<1> QED BY <1>2, <1>3, <1>4, <1>5, <1>6 DEF Lower, Upper

(* The cells of one more byte are new ones.                                *)
LEMMA ReachedMore ==
    ASSUME NEW d \in Decoder, NEW m \in Nat, d.dec + m + 1 <= MaxDec(d), NEW p \in {"bw", "red"},
           NEW e \in Decoder, e.type = d.type, e.half = d.half, e.dec = d.dec + m
    PROVE  /\ Reached(d, m + 1, p) = Reached(d, m, p) \cup Reached(e, 1, p)
           /\ Reached(d, m, p) \cap Reached(e, 1, p) = {}
<1> DEFINE plane == PlaneBytes(d)
           In(o) == p = IF o < plane THEN "bw" ELSE "red"
           P(o) == Places(d.half, o % plane)
           k == d.dec + m
<1>1. d.dec \in Nat /\ d.half \in BOOLEAN /\ k \in Nat
    BY DEF Decoder
<1>2. plane \in Nat \ {0} /\ plane = PlaneOf(d.half) /\ MaxDec(d) <= 2 * plane
    BY FrameBytes
<1>3. PlaneBytes(e) = plane
    BY DEF PlaneBytes
<1>4. Reached(d, m + 1, p) = UNION {P(o) : o \in {o \in d.dec .. k : In(o)}}
    <2>1. d.dec .. d.dec + (m + 1) - 1 = d.dec .. k
        BY <1>1
    <2> QED BY <2>1 DEF Reached
<1>5. Reached(d, m, p) = UNION {P(o) : o \in {o \in d.dec .. k - 1 : In(o)}}
    <2>1. d.dec .. d.dec + m - 1 = d.dec .. k - 1
        BY <1>1
    <2> QED BY <2>1, Zenon DEF Reached
<1>6. Reached(e, 1, p) = UNION {P(o) : o \in {o \in {k} : In(o)}}
    <2>1. e.dec .. e.dec + 1 - 1 = {k}
        BY <1>1
    <2> QED BY <1>3, <2>1 DEF Reached
<1>7. \A o \in d.dec .. k - 1 : In(o) /\ In(k) => P(o) \cap P(k) = {}
    <2> SUFFICES ASSUME NEW o \in d.dec .. k - 1, In(o), In(k) PROVE P(o) \cap P(k) = {}
        OBVIOUS
    <2>1. o \in Nat /\ o < k /\ k < 2 * plane /\ o < 2 * plane
        <3>1. o \in Nat /\ o < k
            BY <1>1
        <3>2. k < MaxDec(d) /\ MaxDec(d) \in Nat
            BY <1>1, FrameBytes
        <3> HIDE DEF plane, k
        <3> QED BY <1>1, <1>2, <3>1, <3>2
    <2> HIDE DEF plane, k
    <2>2. \/ o < plane /\ k < plane
          \/ plane <= o /\ plane <= k
        <3>1. p = (IF o < plane THEN "bw" ELSE "red") /\ p = IF k < plane THEN "bw" ELSE "red"
            OBVIOUS
        <3>2. "bw" # "red"
            OBVIOUS
        <3> QED BY <1>1, <1>2, <2>1, <3>1, <3>2
    <2>3. ASSUME NEW x \in Nat, x < 2 * plane
          PROVE  x % plane = IF x < plane THEN x ELSE x - plane
        <3>1. CASE x < plane
            BY <1>2, <3>1
        <3>2. CASE ~(x < plane)
            <4>1. x = plane * 1 + (x - plane) /\ x - plane \in 0 .. plane - 1
                BY <1>2, <2>3, <3>2
            <4> DEFINE y == x - plane
            <4> HIDE DEF y
            <4>2. (plane * 1 + y) % plane = y
                BY <1>2, <4>1, DivUnique DEF y
            <4> QED BY <3>2, <4>1, <4>2 DEF y
        <3> QED BY <3>1, <3>2
    <2>4. /\ o % plane = (IF o < plane THEN o ELSE o - plane)
          /\ k % plane = IF k < plane THEN k ELSE k - plane
        BY <1>1, <2>1, <2>3
    <2>5. o % plane # k % plane
        BY <1>1, <1>2, <2>1, <2>2, <2>4
    <2>6. o % plane \in 0 .. PlaneOf(d.half) - 1 /\ k % plane \in 0 .. PlaneOf(d.half) - 1
        BY <1>1, <1>2, <2>1, DivMod
    <2> QED BY <1>1, <2>5, <2>6, PlacesApart
<1>8. \A o : o \in d.dec .. k <=> o \in d.dec .. k - 1 \/ o = k
    BY <1>1
<1> HIDE DEF P, In, k, plane
<1> QED BY <1>4, <1>5, <1>6, <1>7, <1>8

(* vs_mark_dirty twice is as good as once for all.                         *)
LEMMA MarkTwice ==
    ASSUME NEW d \in Decoder, NEW A \in SUBSET Cells, NEW B \in SUBSET Cells, A # {}, B # {},
           NEW k \in Int
    PROVE  MarkDirty([MarkDirty(d, A) EXCEPT !.dec = k], B) = [MarkDirty(d, A \cup B) EXCEPT !.dec = k]
<1> DEFINE u == Lower(d.y0, TopRow(A))
           v == Upper(d.y1, BottomRow(A))
           e == [MarkDirty(d, A) EXCEPT !.dec = k]
<1>1. /\ d.y0 \in Int /\ d.y1 \in Int
      /\ TopRow(A) \in Int /\ TopRow(B) \in Int /\ BottomRow(A) \in Int /\ BottomRow(B) \in Int
    BY RowsOf DEF Decoder
<1>2. e = [d EXCEPT !.y0 = u, !.y1 = v, !.dec = k]
    BY MarkIs
<1>3. MarkDirty(e, B) = [e EXCEPT !.y0 = Lower(e.y0, TopRow(B)), !.y1 = Upper(e.y1, BottomRow(B))]
    BY MarkIs
<1>4. MarkDirty(d, A \cup B) = [d EXCEPT !.y0 = Lower(d.y0, Lower(TopRow(A), TopRow(B))),
                                        !.y1 = Upper(d.y1, Upper(BottomRow(A), BottomRow(B)))]
    BY MarkIs, RowsJoined
<1>5. /\ Lower(d.y0, Lower(TopRow(A), TopRow(B))) = Lower(u, TopRow(B))
      /\ Upper(d.y1, Upper(BottomRow(A), BottomRow(B))) = Upper(v, BottomRow(B))
    BY <1>1 DEF Lower, Upper
<1> HIDE DEF u, v, e
<1>6. e.y0 = u /\ e.y1 = v
    BY <1>2 DEF Decoder
<1> DEFINE w == Lower(u, TopRow(B))
           x == Upper(v, BottomRow(B))
<1>7. MarkDirty(e, B) = [e EXCEPT !.y0 = w, !.y1 = x]
    BY <1>3, <1>6
<1>8. MarkDirty(d, A \cup B) = [d EXCEPT !.y0 = w, !.y1 = x]
    BY <1>4, <1>5
<1> HIDE DEF w, x
<1>9. MarkDirty(e, B) = [MarkDirty(d, A \cup B) EXCEPT !.dec = k]
    BY <1>2, <1>7, <1>8 DEF Decoder
<1> QED BY <1>9 DEF e

(* What a write does, once it is known how many bytes fit.                 *)
Landed(d, m) == Reached(d, m, "bw") \cup Reached(d, m, "red")

MarkedBy(d, m, b) == IF IsDelta(d.type) /\ b # 0 /\ m > 0 THEN MarkDirty(d, Landed(d, m)) ELSE d

Over(d, c, b, old) ==
    IF IsDelta(d.type) THEN Xor(old, Part(d.half, c, b)) ELSE Part(d.half, c, b)

Painted(s, m, b) ==
    [p \in {"bw", "red"} |->
        [c \in Cells |-> IF c \notin Reached(s.d, m, p) THEN s.fb[p][c]
                         ELSE Over(s.d, c, b, s.fb[p][c])]]

Fits(s, m, b) == [d |-> [MarkedBy(s.d, m, b) EXCEPT !.dec = @ + m], fb |-> Painted(s, m, b)]

LEMMA WriteFits ==
    ASSUME NEW s, NEW n, NEW b
    PROVE  Write(s, n, b) = Fits(s, Lower(n, MaxDec(s.d) - s.d.dec), b)
<1> DEFINE m == Lower(n, MaxDec(s.d) - s.d.dec)
           cells == [p \in {"bw", "red"} |-> Reached(s.d, m, p)]
           marks == IsDelta(s.d.type) /\ b # 0 /\ m > 0
<1>1. Write(s, n, b) =
        [d |-> [(IF marks THEN MarkDirty(s.d, cells["bw"] \cup cells["red"]) ELSE s.d)
                   EXCEPT !.dec = @ + m],
         fb |-> [p \in {"bw", "red"} |-> [c \in Cells |->
                   IF c \notin cells[p] THEN s.fb[p][c] ELSE Over(s.d, c, b, s.fb[p][c])]]]
    BY DEF Write, Over
<1>2. \A p \in {"bw", "red"} : cells[p] = Reached(s.d, m, p)
    OBVIOUS
<1> HIDE DEF cells, m
<1>3. [p \in {"bw", "red"} |-> [c \in Cells |->
           IF c \notin cells[p] THEN s.fb[p][c] ELSE Over(s.d, c, b, s.fb[p][c])]] = Painted(s, m, b)
    BY <1>2 DEF Painted
<1>4. cells["bw"] \cup cells["red"] = Landed(s.d, m)
    BY <1>2 DEF Landed
<1> QED BY <1>1, <1>3, <1>4 DEF Fits, MarkedBy, m

LEMMA NoneMore ==
    ASSUME NEW s \in Pairs, NEW b
    PROVE  Fits(s, 0, b) = s
<1>1. s = [d |-> s.d, fb |-> s.fb] /\ s.d \in Decoder /\ s.fb \in Planes
    BY DEF Pairs
<1>2. s.d.dec \in Nat
    BY <1>1 DEF Decoder
<1>3. \A p \in {"bw", "red"} : Reached(s.d, 0, p) = {}
    <2>1. s.d.dec .. s.d.dec + 0 - 1 = {}
        BY <1>2
    <2> QED BY <2>1 DEF Reached
<1>4. Painted(s, 0, b) = s.fb
    <2>1. Painted(s, 0, b) = [p \in {"bw", "red"} |-> [c \in Cells |-> s.fb[p][c]]]
        BY <1>3 DEF Painted
    <2> QED BY <1>1, <2>1 DEF Planes, Plane
<1>5. [MarkedBy(s.d, 0, b) EXCEPT !.dec = @ + 0] = s.d
    BY <1>1, <1>2 DEF MarkedBy, Decoder
<1> QED BY <1>1, <1>4, <1>5 DEF Fits

LEMMA OneMore ==
    ASSUME NEW s \in Pairs, NEW m \in Nat, NEW b \in Byte, s.d.dec + m + 1 <= MaxDec(s.d)
    PROVE  Fits(Fits(s, m, b), 1, b) = Fits(s, m + 1, b)
<1> DEFINE d == s.d
           t == Fits(s, m, b)
           e == t.d
<1>1. d \in Decoder /\ s.fb \in Planes
    BY DEF Pairs
<1>2. d.dec \in Nat /\ MaxDec(d) \in Nat
    BY <1>1, FrameBytes DEF Decoder
<1>3. Lower(m, MaxDec(d) - d.dec) = m
    BY <1>2 DEF Lower
<1>4. t = Write(s, m, b)
    BY <1>3, WriteFits
<1>5. e \in Decoder /\ e.type = d.type /\ e.half = d.half
    <2>1. Advances(s, t)
        <3>1. Advances(s, Write(s, m, b))
            BY WriteAdvances
        <3> QED BY <1>4, <3>1
    <2> QED BY <2>1 DEF Advances
<1>6. e = [MarkedBy(d, m, b) EXCEPT !.dec = d.dec + m] /\ t.fb = Painted(s, m, b)
    <2>1. MarkedBy(d, m, b).dec = d.dec
        BY <1>1, MarkIs DEF MarkedBy, Decoder
    <2> QED BY <2>1 DEF Fits
<1>7. e.dec = d.dec + m
    BY <1>1, <1>6, MarkIs DEF MarkedBy, Decoder
<1> HIDE DEF t
<1>8. ASSUME NEW p \in {"bw", "red"}
      PROVE  /\ Reached(d, m + 1, p) = Reached(d, m, p) \cup Reached(e, 1, p)
             /\ Reached(d, m, p) \cap Reached(e, 1, p) = {}
    BY <1>1, <1>5, <1>7, ReachedMore
<1>9. Painted(t, 1, b) = Painted(s, m + 1, b)
    <2>1. ASSUME NEW p \in {"bw", "red"}, NEW c \in Cells
          PROVE  (IF c \notin Reached(e, 1, p) THEN t.fb[p][c] ELSE Over(e, c, b, t.fb[p][c])) =
                 (IF c \notin Reached(d, m + 1, p) THEN s.fb[p][c] ELSE Over(d, c, b, s.fb[p][c]))
        <3>1. t.fb[p][c] = IF c \notin Reached(d, m, p) THEN s.fb[p][c] ELSE Over(d, c, b, s.fb[p][c])
            BY <1>6 DEF Painted
        <3>2. Over(e, c, b, s.fb[p][c]) = Over(d, c, b, s.fb[p][c])
            BY <1>5 DEF Over
        <3> QED BY <1>8, <3>1, <3>2
    <2> QED BY <2>1 DEF Painted
<1>10. Landed(d, m + 1) = Landed(d, m) \cup Landed(e, 1)
    BY <1>8 DEF Landed
<1>11. [MarkedBy(e, 1, b) EXCEPT !.dec = @ + 1] = [MarkedBy(d, m + 1, b) EXCEPT !.dec = @ + (m + 1)]
    <2>1. CASE ~(IsDelta(d.type) /\ b # 0)
        <3>1. MarkedBy(d, m, b) = d /\ MarkedBy(d, m + 1, b) = d /\ MarkedBy(e, 1, b) = e
            BY <1>5, <2>1 DEF MarkedBy
        <3>2. e = [d EXCEPT !.dec = d.dec + m]
            BY <1>6, <3>1
        <3>3. d.dec + m + 1 = d.dec + (m + 1)
            BY <1>2
        <3> HIDE DEF e, d
        <3> QED BY <1>1, <1>7, <3>1, <3>2, <3>3 DEF Decoder
    <2>2. CASE IsDelta(d.type) /\ b # 0
        <3>1. /\ MarkedBy(d, m + 1, b) = MarkDirty(d, Landed(d, m + 1))
              /\ MarkedBy(e, 1, b) = MarkDirty(e, Landed(e, 1))
            BY <1>5, <2>2 DEF MarkedBy
        <3>2. Landed(e, 1) \in SUBSET Cells /\ Landed(e, 1) # {}
            <4>1. MaxDec(e) = MaxDec(d)
                BY <1>5 DEF MaxDec, PlaneBytes
            <4>2. e.dec + 1 <= MaxDec(e)
                BY <1>7, <4>1
            <4> QED BY <1>5, <4>2, ReachedInPlane, ReachedSome DEF Landed
        <3>3. CASE m = 0
            <4>1. MarkedBy(d, m, b) = d
                BY <3>3 DEF MarkedBy
            <4>2. e = d
                BY <1>1, <1>2, <1>6, <3>3, <4>1 DEF Decoder
            <4> QED BY <3>1, <3>3, <4>2
        <3>4. CASE m # 0
            <4>1. MarkedBy(d, m, b) = MarkDirty(d, Landed(d, m))
                BY <2>2, <3>4 DEF MarkedBy
            <4>2. Landed(d, m) \in SUBSET Cells /\ Landed(d, m) # {}
                <5>1. d.dec + m <= MaxDec(d)
                    BY <1>2
                <5> QED BY <1>1, <3>4, <5>1, ReachedInPlane, ReachedSome DEF Landed
            <4> DEFINE A == Landed(d, m)
                       B == Landed(e, 1)
                       f == MarkDirty(d, A \cup B)
                       k == d.dec + m
            <4>3. MarkDirty(e, B) = [f EXCEPT !.dec = k]
                <5>1. k \in Int
                    BY <1>2
                <5>2. e = [MarkDirty(d, A) EXCEPT !.dec = k]
                    BY <1>6, <4>1
                <5> HIDE DEF e, d, A, B, k
                <5> QED BY <1>1, <3>2, <4>2, <5>1, <5>2, MarkTwice DEF A, B
            <4>4. f.dec = d.dec
                BY <1>1, MarkIs DEF Decoder
            <4>5. f \in Decoder /\ k + 1 = d.dec + (m + 1)
                <5>1. A \cup B \in SUBSET Cells /\ A \cup B # {}
                    BY <3>2, <4>2
                <5> HIDE DEF A, B, d
                <5>2. f \in Decoder
                    BY <1>1, <5>1, MarkCovers
                <5> QED BY <1>2, <5>2
            <4>6. MarkedBy(d, m + 1, b) = f /\ MarkedBy(e, 1, b) = [f EXCEPT !.dec = k]
                BY <1>10, <3>1, <4>3
            <4> HIDE DEF f, k
            <4> QED BY <4>4, <4>5, <4>6 DEF Decoder
        <3> QED BY <3>3, <3>4
    <2> QED BY <2>1, <2>2
<1> QED BY <1>9, <1>11 DEF Fits, t

(* Bytes written together are bytes written one by one, the last of them   *)
(* after the others: no cell is reached twice, and the rows are marked the *)
(* same.  (vs_write_byte in the loop of vs_rle_feed)                       *)
THEOREM WrittenOneByOne ==
    ASSUME NEW s \in Pairs, NEW n \in Nat, NEW b \in Byte
    PROVE  Write(s, 0, b) = s /\ Write(s, n + 1, b) = Write(Write(s, n, b), 1, b)
<1> DEFINE room == MaxDec(s.d) - s.d.dec
           m == Lower(n, room)
           t == Write(s, n, b)
<1>1. s.d \in Decoder /\ s.d.dec \in Nat /\ MaxDec(s.d) \in Nat /\ s.d.dec <= MaxDec(s.d)
    BY FrameBytes DEF Pairs, Within, Decoder
<1>2. room \in Nat
    BY <1>1
<1>3. t = Fits(s, m, b) /\ Write(s, n + 1, b) = Fits(s, Lower(n + 1, room), b)
      /\ Write(s, 0, b) = Fits(s, Lower(0, room), b)
    BY WriteFits
<1>4. Write(t, 1, b) = Fits(t, Lower(1, MaxDec(t.d) - t.d.dec), b)
    BY WriteFits, SMTT(30)
<1>5. t \in Pairs /\ MaxDec(t.d) = MaxDec(s.d)
    BY WriteAdvances DEF Advances, MaxDec, PlaneBytes
<1>6. t.d.dec = s.d.dec + m
    <2>1. MarkedBy(s.d, m, b).dec = s.d.dec
        BY <1>1, MarkIs DEF MarkedBy, Decoder
    <2>2. t.d = [MarkedBy(s.d, m, b) EXCEPT !.dec = s.d.dec + m]
        BY <1>3, <2>1 DEF Fits
    <2> HIDE DEF m, t
    <2> QED BY <1>1, <2>2, MarkIs DEF MarkedBy, Decoder
<1>7. Lower(0, room) = 0
    BY <1>2 DEF Lower
<1>8. CASE room <= n
    <2>1. m = room /\ Lower(n + 1, room) = m
        BY <1>2, <1>8 DEF Lower
    <2>2. Lower(1, MaxDec(t.d) - t.d.dec) = 0
        BY <1>1, <1>5, <1>6, <2>1 DEF Lower
    <2> HIDE DEF t, m
    <2>3. Fits(t, 0, b) = t /\ Fits(s, 0, b) = s
        BY <1>5, NoneMore
    <2>4. Write(s, n + 1, b) = t /\ Write(t, 1, b) = t /\ Write(s, 0, b) = s
        BY <1>3, <1>4, <1>7, <2>1, <2>2, <2>3
    <2> QED BY <2>4 DEF t
<1>9. CASE ~(room <= n)
    <2>1. m = n /\ Lower(n + 1, room) = n + 1
        BY <1>2, <1>9 DEF Lower
    <2>2. Lower(1, MaxDec(t.d) - t.d.dec) = 1
        BY <1>1, <1>5, <1>6, <1>9, <2>1 DEF Lower
    <2>3. s.d.dec + n + 1 <= MaxDec(s.d)
        BY <1>1, <1>9
    <2> HIDE DEF t, m
    <2>4. Fits(Fits(s, n, b), 1, b) = Fits(s, n + 1, b) /\ Fits(s, 0, b) = s
        BY <2>3, OneMore, NoneMore
    <2>5. Write(s, n + 1, b) = Write(t, 1, b) /\ Write(s, 0, b) = s
        BY <1>3, <1>4, <1>7, <2>1, <2>2, <2>4
    <2> QED BY <2>5 DEF t
<1> QED BY <1>8, <1>9

-----------------------------------------------------------------------------
(* A run or a literal under way has bytes left.                            *)
RunOK(d) == d.mode # "ctrl" => d.count >= 1

(* The fields a write leaves alone.                                        *)
SameFrame(d, e) ==
    /\ e.at = d.at /\ e.plen = d.plen /\ e.prx = d.prx
    /\ e.has_crc = d.has_crc /\ e.crc = d.crc /\ e.crc_rx = d.crc_rx

(* One byte, or several, with the decoder's mode and run left alone.       *)
LEMMA WriteKeeps ==
    ASSUME NEW s \in Pairs, NEW n \in Nat, NEW b \in Byte
    PROVE  LET t == Write(s, n, b)
           IN  /\ t \in Pairs /\ Advances(s, t) /\ SameFrame(s.d, t.d)
               /\ t.d.mode = s.d.mode /\ t.d.count = s.d.count
<1> DEFINE t == Write(s, n, b)
           e == t.d
<1>1. t \in Pairs /\ Advances(s, t) /\ e = [s.d EXCEPT !.dec = e.dec, !.y0 = e.y0, !.y1 = e.y1]
    BY WriteAdvances, ZenonT(60)
<1> HIDE DEF t
<1>2. s.d \in Decoder
    BY DEF Pairs
<1>3. SameFrame(s.d, e) /\ e.mode = s.d.mode /\ e.count = s.d.count
    BY <1>1, <1>2 DEF SameFrame, Decoder
<1> QED BY <1>1, <1>3 DEF t

(* The modes of the unpacker, and a change of its mode, run and value      *)
(* alone.                                                                  *)
Modes == {"ctrl", "literal", "first", "repeat"}

Moved(s, md, k, v) == With([s.d EXCEPT !.mode = md, !.count = k, !.val = v], s.fb)

Still(s, t, md, k) ==
    /\ t \in Pairs /\ Advances(s, t) /\ SameFrame(s.d, t.d)
    /\ t.d.mode = md /\ t.d.count = k

LEMMA ModeChanges ==
    ASSUME NEW s \in Pairs, NEW md \in Modes, NEW k \in 0 .. 128, NEW v \in Byte
    PROVE  Still(s, Moved(s, md, k, v), md, k)
<1> DEFINE e == [s.d EXCEPT !.mode = md, !.count = k, !.val = v]
<1>1. s.d \in Decoder /\ s.d.dec <= MaxDec(s.d) /\ s.fb \in Planes
    BY DEF Pairs, Within
<1>2. e \in Decoder
    BY <1>1, ZenonT(60) DEF Decoder, Modes
<1>3. SameFrame(s.d, e) /\ e.mode = md /\ e.count = k
    BY <1>1 DEF Decoder, SameFrame
<1>4. e.type = s.d.type /\ e.half = s.d.half /\ e.dec = s.d.dec /\ e.y0 = s.d.y0 /\ e.y1 = s.d.y1
    BY <1>1 DEF Decoder
<1> HIDE DEF e
<1>5. MaxDec(e) = MaxDec(s.d)
    BY <1>4 DEF MaxDec, PlaneBytes
<1>6. With(e, s.fb) \in Pairs
    BY <1>1, <1>2, <1>4, <1>5 DEF Pairs, Within, With
<1>7. s.d.y0 \in Int /\ s.d.y1 \in Int /\ s.d.dec \in Int
    BY <1>1 DEF Decoder
<1>8. Advances(s, With(e, s.fb))
    BY <1>1, <1>2, <1>4, <1>5, <1>7 DEF Advances, With
<1> QED BY <1>3, <1>6, <1>8 DEF e, With, Moved, Still

(* What every part of the decoder keeps.                                   *)
Keeps(s, t) ==
    /\ t \in Pairs /\ Advances(s, t) /\ SameFrame(s.d, t.d) /\ RunOK(t.d)

LEMMA KeepsOn ==
    ASSUME NEW s \in Pairs, NEW t, NEW u, t \in Pairs, Advances(s, t), SameFrame(s.d, t.d),
           Keeps(t, u)
    PROVE  Keeps(s, u)
<1>1. s.d \in Decoder
    BY DEF Pairs
<1> QED BY <1>1, AdvancesOn DEF Keeps, SameFrame

(* Draining a run.                                                         *)
LEMMA DrainKeeps ==
    ASSUME NEW s \in Pairs, RunOK(s.d)
    PROVE  Keeps(s, DrainRun(s)) /\ DrainRun(s).d.mode # "repeat"
<1>1. s.d \in Decoder /\ s.d.count \in 0 .. 128 /\ s.d.val \in Byte /\ s.fb \in Planes
      /\ s.d.dec <= MaxDec(s.d)
    BY DEF Pairs, Decoder, Within
<1>2. CASE s.d.mode = "repeat"
    <2> DEFINE t == Write(s, s.d.count, s.d.val)
               u == With([t.d EXCEPT !.mode = "ctrl", !.count = 0], t.fb)
    <2>1. s.d.count \in Nat
        BY <1>1
    <2>2. t \in Pairs /\ Advances(s, t) /\ SameFrame(s.d, t.d)
        BY <1>1, <2>1, WriteKeeps
    <2>3. DrainRun(s) = u
        BY <1>2 DEF DrainRun
    <2> HIDE DEF t
    <2>4. t.d.val \in Byte /\ t.d \in Decoder
        BY <2>2 DEF Pairs, Decoder
    <2>5. u = Moved(t, "ctrl", 0, t.d.val)
        BY <2>4 DEF Decoder, Moved
    <2> HIDE DEF u
    <2>6. Still(t, u, "ctrl", 0)
        <3>1. "ctrl" \in Modes /\ 0 \in 0 .. 128
            BY DEF Modes
        <3> QED BY <2>2, <2>4, <2>5, <3>1, ModeChanges
    <2>7. Keeps(t, u) /\ u.d.mode = "ctrl"
        BY <2>6 DEF Keeps, RunOK, Still
    <2> QED BY <2>2, <2>3, <2>7, KeepsOn
<1>3. CASE s.d.mode # "repeat"
    <2>1. DrainRun(s) = s
        BY <1>3 DEF DrainRun
    <2>2. s.d.y0 \in Int /\ s.d.y1 \in Int /\ s.d.dec \in Int
        BY <1>1 DEF Decoder
    <2>3. Advances(s, s) /\ SameFrame(s.d, s.d)
        BY <1>1, <2>2 DEF Advances, SameFrame
    <2> QED BY <1>3, <2>1, <2>3 DEF Keeps
<1> QED BY <1>2, <1>3

(* A byte of a literal, or the first of a run.                             *)
LEMMA CountDownKeeps ==
    ASSUME NEW s \in Pairs, s.d.count >= 1, NEW next \in {"literal", "repeat"}
    PROVE  Keeps(s, CountDown(s, next))
<1> DEFINE k == s.d.count - 1
           md == IF s.d.count = 1 THEN "ctrl" ELSE next
<1>1. s.d \in Decoder /\ s.d.count \in 0 .. 128 /\ s.d.val \in Byte
    BY DEF Pairs, Decoder
<1>2. k \in 0 .. 128 /\ md \in Modes /\ (md # "ctrl" => k >= 1)
    BY <1>1 DEF Modes
<1>3. CountDown(s, next) = Moved(s, md, k, s.d.val)
    BY <1>1 DEF CountDown, Decoder, Moved
<1> HIDE DEF k, md
<1>4. Still(s, CountDown(s, next), md, k)
    BY <1>1, <1>2, <1>3, ModeChanges
<1> QED BY <1>2, <1>4 DEF Keeps, RunOK, Still

(* vs_rle_feed.                                                            *)
LEMMA FeedKeeps ==
    ASSUME NEW s \in Pairs, RunOK(s.d), NEW b \in Byte
    PROVE  Keeps(s, RleFeed(s, b))
<1> DEFINE t == DrainRun(s)
<1>1. Keeps(s, t) /\ t.d.mode # "repeat"
    BY DrainKeeps
<1>2. t \in Pairs /\ Advances(s, t) /\ SameFrame(s.d, t.d)
    BY <1>1 DEF Keeps
<1>3. SUFFICES Keeps(t, RleFeed(s, b))
    BY <1>2, KeepsOn
<1>4. /\ t.d \in Decoder /\ t.d.mode \in {"ctrl", "literal", "first"} /\ t.d.val \in Byte
      /\ t.d.count \in 0 .. 128 /\ (t.d.mode # "ctrl" => t.d.count >= 1)
    BY <1>1 DEF Keeps, Pairs, Decoder, RunOK
<1>5. CASE t.d.mode = "ctrl"
    <2> DEFINE k == (b % 128) + 1
               md == IF b >= 128 THEN "first" ELSE "literal"
    <2>1. RleFeed(s, b) = With([t.d EXCEPT !.count = k, !.mode = md], t.fb)
        BY <1>5 DEF RleFeed
    <2> HIDE DEF t
    <2>2. k \in 0 .. 128 /\ k >= 1 /\ md \in Modes
        BY DEF Byte, Modes
    <2>3. With([t.d EXCEPT !.count = k, !.mode = md], t.fb) = Moved(t, md, k, t.d.val)
        BY <1>4, ZenonT(60) DEF Decoder, Moved
    <2> HIDE DEF k, md
    <2>4. Still(t, RleFeed(s, b), md, k)
        BY <1>2, <1>4, <2>1, <2>2, <2>3, ModeChanges
    <2> QED BY <2>2, <2>4 DEF Keeps, RunOK, Still
<1>6. CASE t.d.mode = "literal"
    <2> DEFINE u == Write(t, 1, b)
    <2>1. RleFeed(s, b) = CountDown(u, "literal")
        BY <1>6 DEF RleFeed
    <2> HIDE DEF t
    <2>2. /\ u \in Pairs /\ Advances(t, u) /\ SameFrame(t.d, u.d)
          /\ u.d.mode = t.d.mode /\ u.d.count = t.d.count
        BY <1>2, WriteKeeps
    <2> HIDE DEF u
    <2>3. Keeps(u, CountDown(u, "literal"))
        BY <1>4, <1>6, <2>2, CountDownKeeps
    <2> QED BY <1>2, <2>1, <2>2, <2>3, KeepsOn
<1>7. CASE t.d.mode = "first"
    <2> DEFINE v == With([t.d EXCEPT !.val = b], t.fb)
               u == Write(v, 1, b)
    <2>1. RleFeed(s, b) = CountDown(u, "repeat")
        BY <1>7 DEF RleFeed
    <2> HIDE DEF t
    <2>2. v = Moved(t, "first", t.d.count, b)
        BY <1>4, <1>7 DEF Decoder, Moved
    <2>3. /\ v \in Pairs /\ Advances(t, v) /\ SameFrame(t.d, v.d)
          /\ v.d.mode = "first" /\ v.d.count = t.d.count
        <3> HIDE DEF v
        <3>1. "first" \in Modes
            BY DEF Modes
        <3>2. Still(t, v, "first", t.d.count)
            BY <1>2, <1>4, <2>2, <3>1, ModeChanges
        <3> QED BY <3>2 DEF Still
    <2> HIDE DEF v
    <2>4. /\ u \in Pairs /\ Advances(v, u) /\ SameFrame(v.d, u.d)
          /\ u.d.count = v.d.count
        BY <2>3, WriteKeeps
    <2> HIDE DEF u
    <2>5. Keeps(u, CountDown(u, "repeat"))
        BY <1>4, <1>7, <2>3, <2>4, CountDownKeeps
    <2>6. Keeps(v, CountDown(u, "repeat"))
        BY <2>3, <2>4, <2>5, KeepsOn
    <2> QED BY <1>2, <2>1, <2>3, <2>6, KeepsOn
<1> QED BY <1>4, <1>5, <1>6, <1>7

(* A change of the bytes received and their checksum, and of the state.    *)
Counted(s, n, c) == With([s.d EXCEPT !.prx = n, !.crc = c], s.fb)

Turned(s, a) == With([s.d EXCEPT !.at = a], s.fb)

LEMMA CountedKeeps ==
    ASSUME NEW s \in Pairs, RunOK(s.d), NEW n \in Word, NEW c \in Word
    PROVE  LET t == Counted(s, n, c)
           IN  /\ t \in Pairs /\ RunOK(t.d) /\ Advances(s, t)
               /\ t.d.prx = n /\ t.d.plen = s.d.plen
<1> DEFINE e == [s.d EXCEPT !.prx = n, !.crc = c]
<1>1. s.d \in Decoder /\ s.d.dec <= MaxDec(s.d) /\ s.fb \in Planes
    BY DEF Pairs, Within
<1>2. e \in Decoder
    BY <1>1, ZenonT(60) DEF Decoder
<1>3. /\ e.type = s.d.type /\ e.half = s.d.half /\ e.dec = s.d.dec /\ e.y0 = s.d.y0
      /\ e.y1 = s.d.y1 /\ e.mode = s.d.mode /\ e.count = s.d.count
      /\ e.prx = n /\ e.plen = s.d.plen
    BY <1>1 DEF Decoder
<1>4. s.d.y0 \in Int /\ s.d.y1 \in Int /\ s.d.dec \in Int
    BY <1>1 DEF Decoder
<1> HIDE DEF e
<1>5. MaxDec(e) = MaxDec(s.d) /\ RunOK(e)
    BY <1>3 DEF MaxDec, PlaneBytes, RunOK
<1>6. With(e, s.fb) \in Pairs
    BY <1>1, <1>2, <1>3, <1>5 DEF Pairs, Within, With
<1>7. Advances(s, With(e, s.fb))
    BY <1>1, <1>2, <1>3, <1>4, <1>5 DEF Advances, With
<1> QED BY <1>3, <1>5, <1>6, <1>7 DEF e, With, Counted

LEMMA TurnedKeeps ==
    ASSUME NEW s \in Pairs, RunOK(s.d), NEW a \in States
    PROVE  LET t == Turned(s, a)
           IN  /\ t \in Pairs /\ RunOK(t.d) /\ Advances(s, t)
               /\ t.d.at = a /\ t.d.prx = s.d.prx /\ t.d.plen = s.d.plen
<1> DEFINE e == [s.d EXCEPT !.at = a]
<1>1. s.d \in Decoder /\ s.d.dec <= MaxDec(s.d) /\ s.fb \in Planes
    BY DEF Pairs, Within
<1>2. e \in Decoder
    BY <1>1 DEF Decoder
<1>3. /\ e.type = s.d.type /\ e.half = s.d.half /\ e.dec = s.d.dec /\ e.y0 = s.d.y0
      /\ e.y1 = s.d.y1 /\ e.mode = s.d.mode /\ e.count = s.d.count
      /\ e.at = a /\ e.prx = s.d.prx /\ e.plen = s.d.plen
    BY <1>1 DEF Decoder
<1>4. s.d.y0 \in Int /\ s.d.y1 \in Int /\ s.d.dec \in Int
    BY <1>1 DEF Decoder
<1> HIDE DEF e
<1>5. MaxDec(e) = MaxDec(s.d) /\ RunOK(e)
    BY <1>3 DEF MaxDec, PlaneBytes, RunOK
<1>6. With(e, s.fb) \in Pairs
    BY <1>1, <1>2, <1>3, <1>5 DEF Pairs, Within, With
<1>7. Advances(s, With(e, s.fb))
    BY <1>1, <1>2, <1>3, <1>4, <1>5 DEF Advances, With
<1> QED BY <1>3, <1>5, <1>6, <1>7 DEF e, With, Turned

-----------------------------------------------------------------------------
(***************************************************************************)
(* The decoder's invariant.                                                *)
(***************************************************************************)
InFrame == {"DATA", "CRC_HI", "CRC_LO", "FLUSH_WAIT"}

(* Half of a number has come, and there is room for the other.             *)
HighByte(w) == \E k \in Byte : w = 256 * k

DecoderOK(d) ==
    /\ d \in Decoder /\ RunOK(d)
    /\ d.at \in InFrame => d.dec <= MaxDec(d)
    /\ d.at = "DATA" => d.prx < d.plen
    /\ d.at = "LEN_LO" => HighByte(d.plen)
    /\ d.at = "CRC_LO" => HighByte(d.crc_rx)

(* The data state of vs_process_byte.                                      *)
LEMMA DataKeeps ==
    ASSUME NEW s \in Pairs, DecoderOK(s.d), s.d.at = "DATA", NEW b \in Byte
    PROVE  LET u == Data(s, b)
           IN  u \in Pairs /\ Advances(s, u) /\ DecoderOK(u.d) /\ u.d.at \in InFrame
<1> DEFINE n == s.d.prx + 1
           c == Crc16(s.d.crc, b)
           fed == Counted(s, n, c)
           t == IF IsRaw(s.d.type) THEN Write(fed, 1, b) ELSE RleFeed(fed, b)
           a == IF t.d.prx >= t.d.plen THEN AfterPayload(t.d) ELSE "DATA"
           u == Turned(t, a)
<1>1. /\ s.d \in Decoder /\ RunOK(s.d) /\ s.d.prx \in Word /\ s.d.plen \in Word
      /\ s.d.crc \in Word /\ s.d.prx < s.d.plen
    BY DEF DecoderOK, Decoder
<1>2. n \in Word /\ c \in Word
    BY <1>1, WordOf, CrcType
<1>3. Data(s, b) = u
    <2>1. fed = With([s.d EXCEPT !.prx = @ + 1, !.crc = Crc16(@, b)], s.fb)
        BY <1>1 DEF Decoder, Counted
    <2>2. Data(s, b) = With([t.d EXCEPT !.at = a], t.fb)
        BY <2>1 DEF Data
    <2> QED BY <2>2 DEF Turned
<1> HIDE DEF n, c
<1>4. fed \in Pairs /\ RunOK(fed.d) /\ Advances(s, fed) /\ fed.d.plen = s.d.plen
    BY <1>1, <1>2, CountedKeeps
<1> HIDE DEF fed
<1>5. Keeps(fed, t)
    <2>1. CASE IsRaw(s.d.type)
        <3>1. t = Write(fed, 1, b)
            BY <2>1
        <3> HIDE DEF t
        <3>2. /\ t \in Pairs /\ Advances(fed, t) /\ SameFrame(fed.d, t.d)
              /\ t.d.mode = fed.d.mode /\ t.d.count = fed.d.count
            BY <1>4, <3>1, WriteKeeps
        <3> QED BY <1>4, <3>2 DEF Keeps, RunOK
    <2>2. CASE ~IsRaw(s.d.type)
        <3>1. t = RleFeed(fed, b)
            BY <2>2
        <3> HIDE DEF t
        <3> QED BY <1>4, <3>1, FeedKeeps
    <2> QED BY <2>1, <2>2
<1> HIDE DEF t
<1>6. t \in Pairs /\ Advances(fed, t) /\ RunOK(t.d)
    BY <1>5 DEF Keeps
<1>7. a \in {"DATA", "CRC_HI", "FLUSH_WAIT"} /\ (a = "DATA" => t.d.prx < t.d.plen)
    <2>1. t.d.prx \in Nat /\ t.d.plen \in Nat
        <3>1. t.d.prx \in Word /\ t.d.plen \in Word
            BY <1>6 DEF Pairs, Decoder
        <3> QED BY <3>1, WordOf
    <2> QED BY <2>1 DEF AfterPayload
<1> HIDE DEF a
<1>8. a \in States
    BY <1>7 DEF States
<1>9. /\ u \in Pairs /\ RunOK(u.d) /\ Advances(t, u)
      /\ u.d.at = a /\ u.d.prx = t.d.prx /\ u.d.plen = t.d.plen
    BY <1>6, <1>8, TurnedKeeps
<1> HIDE DEF u
<1>10. Advances(s, u)
    <2>1. fed.d \in Decoder
        BY <1>4 DEF Pairs
    <2>2. Advances(fed, u)
        BY <1>6, <1>9, <2>1, AdvancesOn
    <2> QED BY <1>1, <1>4, <2>2, AdvancesOn
<1>11. DecoderOK(u.d)
    BY <1>7, <1>9 DEF DecoderOK, Pairs, Within
<1> QED BY <1>3, <1>7, <1>9, <1>10, <1>11 DEF InFrame

(* The run at the end of a frame (vs_flush_frame).                         *)
LEMMA DrainEndKeeps ==
    ASSUME NEW s \in Pairs, DecoderOK(s.d), s.d.at = "FLUSH_WAIT"
    PROVE  LET u == DrainAtEnd(s)
           IN  u \in Pairs /\ Advances(s, u) /\ DecoderOK(u.d) /\ SameFrame(s.d, u.d)
<1> DEFINE u == DrainAtEnd(s)
<1>1. s.d \in Decoder /\ RunOK(s.d) /\ s.d.dec <= MaxDec(s.d) /\ s.fb \in Planes
    BY DEF DecoderOK, Pairs, Within
<1>2. Keeps(s, u)
    <2>1. CASE IsRaw(s.d.type)
        <3>1. u = s
            BY <2>1 DEF DrainAtEnd
        <3>2. s.d.y0 \in Int /\ s.d.y1 \in Int /\ s.d.dec \in Int
            BY <1>1 DEF Decoder
        <3>3. Advances(s, s) /\ SameFrame(s.d, s.d)
            BY <1>1, <3>2 DEF Advances, SameFrame
        <3> QED BY <1>1, <3>1, <3>3 DEF Keeps
    <2>2. CASE ~IsRaw(s.d.type)
        <3>1. u = DrainRun(s)
            BY <2>2 DEF DrainAtEnd
        <3> QED BY <1>1, <3>1, DrainKeeps
    <2> QED BY <2>1, <2>2
<1> HIDE DEF u
<1>3. u.d.at = "FLUSH_WAIT"
    BY <1>2 DEF Keeps, SameFrame
<1> QED BY <1>2, <1>3 DEF Keeps, DecoderOK, Pairs, Within, u

(* A frame begins with nothing decoded.                                    *)
LEMMA ResetKeeps ==
    ASSUME NEW d \in Decoder
    PROVE  LET e == ResetFrame(d)
           IN  /\ e \in Decoder /\ e.dec = 0 /\ e.prx = 0 /\ e.mode = "ctrl"
               /\ e.at = d.at /\ e.plen = d.plen /\ e.has_crc = d.has_crc
<1>1. Rows \in Nat /\ Size \in Nat
    BY StreamCodecAssumption DEF Size
<1>2. 0 \in Word /\ CrcStart \in Word
    BY WordOf DEF CrcStart, WordMax
<1>3. Rows \in 0 .. Rows /\ -1 \in -1 .. Rows - 1 /\ 0 \in 0 .. 2 * Size /\ 0 \in 0 .. 128
      /\ 0 \in Byte
    BY <1>1 DEF Byte
<1> HIDE DEF Word, Byte
<1> QED BY <1>2, <1>3, ZenonT(60) DEF ResetFrame, Decoder

(* The header states.                                                      *)
LEMMA HeaderKeeps ==
    ASSUME NEW d, DecoderOK(d), NEW b \in Byte,
           d.at \notin {"DATA", "FLUSH_WAIT", "STOP2_WAIT"}
    PROVE  DecoderOK(Header(d, b))
<1> DEFINE e == Header(d, b)
<1>0. SUFFICES DecoderOK(e)
    OBVIOUS
<1>1. d \in Decoder /\ RunOK(d)
    BY DEF DecoderOK
<1>2. ASSUME NEW a \in States \ {"DATA", "CRC_HI", "CRC_LO", "FLUSH_WAIT", "LEN_LO"},
             e = [d EXCEPT !.at = a]
      PROVE  DecoderOK(e)
    BY <1>1, <1>2 DEF DecoderOK, Decoder, RunOK, InFrame, States
<1>3. CASE d.at = "IDLE"
    <2> DEFINE a == CASE b = HDR1 -> "HDR2_WAIT" [] b = STOP1 -> "STOP2_WAIT" [] OTHER -> "IDLE"
    <2>1. e = [d EXCEPT !.at = a]
        BY <1>3 DEF Header
    <2>2. a \in States \ {"DATA", "CRC_HI", "CRC_LO", "FLUSH_WAIT", "LEN_LO"}
        BY DEF States
    <2> QED BY <1>2, <2>1, <2>2
<1>4. CASE d.at = "HDR2_WAIT"
    <2> DEFINE a == IF b = HDR2 THEN "TYPE_RD" ELSE "IDLE"
    <2>1. e = [d EXCEPT !.at = a]
        BY <1>4 DEF Header
    <2>2. a \in States \ {"DATA", "CRC_HI", "CRC_LO", "FLUSH_WAIT", "LEN_LO"}
        BY DEF States
    <2> QED BY <1>2, <2>1, <2>2
<1>5. CASE d.at = "TYPE_RD"
    <2>1. b % HALF_FLAG \in 0 .. 31
        BY DEF HALF_FLAG, Byte
    <2>2. \E x, y \in BOOLEAN, z \in 0 .. 31, a \in {"LEN_HI", "IDLE"} :
              e = [d EXCEPT !.has_crc = x, !.half = y, !.type = z, !.at = a]
        BY <1>5, <2>1, Zenon DEF Header
    <2> HIDE DEF e
    <2>3. PICK x, y \in BOOLEAN, z \in 0 .. 31, a \in {"LEN_HI", "IDLE"} :
              e = [d EXCEPT !.has_crc = x, !.half = y, !.type = z, !.at = a]
        BY <2>2
    <2> DEFINE f == [d EXCEPT !.has_crc = x]
               g == [f EXCEPT !.half = y]
    <2>4. f \in Decoder /\ f.mode = d.mode /\ f.count = d.count
        BY <1>1 DEF Decoder
    <2>5. e = [g EXCEPT !.type = z, !.at = a]
        BY <2>3
    <2> HIDE DEF f
    <2>6. g \in Decoder /\ g.mode = d.mode /\ g.count = d.count
        BY <2>4 DEF Decoder
    <2> HIDE DEF g
    <2>7. /\ e \in Decoder /\ e.at \in {"LEN_HI", "IDLE"}
          /\ e.mode = d.mode /\ e.count = d.count
        BY <2>5, <2>6, ZenonT(60) DEF Decoder, States
    <2> QED BY <1>1, <2>7 DEF DecoderOK, RunOK, InFrame
<1>6. CASE d.at = "LEN_HI"
    <2> DEFINE w == b * 256
    <2>1. e = [d EXCEPT !.plen = w, !.at = "LEN_LO"]
        BY <1>6 DEF Header
    <2>2. w \in Word /\ HighByte(w)
        BY WordOf DEF Byte, HighByte
    <2> HIDE DEF e, w
    <2>3. /\ e \in Decoder /\ e.at = "LEN_LO" /\ e.plen = w
          /\ e.mode = d.mode /\ e.count = d.count
        BY <1>1, <2>1, <2>2, ZenonT(60) DEF Decoder, States
    <2> QED BY <1>1, <2>2, <2>3 DEF DecoderOK, RunOK, InFrame
<1>7. CASE d.at = "LEN_LO"
    <2> DEFINE n == d.plen + b
               c == [d EXCEPT !.plen = n]
               t == ResetFrame(c)
               a == IF t.plen > 0 THEN "DATA" ELSE AfterPayload(t)
    <2>1. e = [t EXCEPT !.at = a]
        BY <1>1, <1>7 DEF Header, Decoder
    <2>2. n \in Word
        <3>1. PICK k \in Byte : d.plen = 256 * k
            BY <1>7 DEF DecoderOK, HighByte
        <3> QED BY <3>1, WordOf DEF Byte
    <2>3. c \in Decoder
        BY <1>1, <2>2 DEF Decoder
    <2> HIDE DEF c
    <2>4. t \in Decoder /\ t.dec = 0 /\ t.prx = 0 /\ t.mode = "ctrl"
        BY <2>3, ResetKeeps
    <2> HIDE DEF t
    <2>5. t.plen \in Nat
        <3>1. t.plen \in Word
            BY <2>4 DEF Decoder
        <3> QED BY <3>1, WordOf
    <2>6. a \in {"DATA", "CRC_HI", "FLUSH_WAIT"} /\ (a = "DATA" => t.plen > 0)
        BY DEF AfterPayload
    <2> HIDE DEF a, e
    <2>7. /\ e \in Decoder /\ e.at = a /\ e.dec = 0 /\ e.prx = 0 /\ e.mode = "ctrl"
          /\ e.plen = t.plen
        BY <2>1, <2>4, <2>6 DEF Decoder, States
    <2>8. 0 <= MaxDec(e)
        BY <2>7, FrameBytes
    <2> QED BY <2>5, <2>6, <2>7, <2>8 DEF DecoderOK, RunOK
<1>8. CASE d.at = "CRC_HI"
    <2> DEFINE w == b * 256
    <2>1. e = [d EXCEPT !.crc_rx = w, !.at = "CRC_LO"]
        BY <1>8 DEF Header
    <2>2. w \in Word /\ HighByte(w)
        BY WordOf DEF Byte, HighByte
    <2>3. d.dec <= MaxDec(d)
        BY <1>8 DEF DecoderOK, InFrame
    <2> HIDE DEF e, w
    <2>4. /\ e \in Decoder /\ e.type = d.type /\ e.half = d.half /\ e.dec = d.dec
          /\ e.at = "CRC_LO" /\ e.crc_rx = w /\ e.mode = d.mode /\ e.count = d.count
        BY <1>1, <2>1, <2>2, ZenonT(60) DEF Decoder, States
    <2> QED BY <1>1, <2>2, <2>3, <2>4 DEF DecoderOK, RunOK, MaxDec, PlaneBytes
<1>9. CASE d.at = "CRC_LO"
    <2> DEFINE w == d.crc_rx + b
    <2>1. e = [d EXCEPT !.crc_rx = w, !.at = "FLUSH_WAIT"]
        BY <1>1, <1>9 DEF Header, Decoder
    <2>2. w \in Word
        <3>1. PICK k \in Byte : d.crc_rx = 256 * k
            BY <1>9 DEF DecoderOK, HighByte
        <3> QED BY <3>1, WordOf DEF Byte
    <2>3. d.dec <= MaxDec(d)
        BY <1>9 DEF DecoderOK, InFrame
    <2> HIDE DEF e, w
    <2>4. /\ e \in Decoder /\ e.type = d.type /\ e.half = d.half /\ e.dec = d.dec
          /\ e.at = "FLUSH_WAIT" /\ e.mode = d.mode /\ e.count = d.count
        BY <1>1, <2>1, <2>2, ZenonT(60) DEF Decoder, States
    <2> QED BY <1>1, <2>3, <2>4 DEF DecoderOK, RunOK, MaxDec, PlaneBytes
<1>10. d.at \in States
    BY <1>1 DEF Decoder
<1> QED BY <1>3, <1>4, <1>5, <1>6, <1>7, <1>8, <1>9, <1>10 DEF States

-----------------------------------------------------------------------------
(***************************************************************************)
(* The decoder and the frame buffer in a stream.  What the link carries    *)
(* are bytes: vs_process_byte takes a uint8_t.                             *)
(***************************************************************************)
Carried == wire \in Seq(Byte)

StreamOK == DecoderOK(dec) /\ fb \in Planes /\ ram \in Planes

LEMMA HeadByte == ASSUME Carried, Arrives PROVE Head(wire) \in Byte
BY DEF Carried, Arrives

(* The first state.                                                        *)
LEMMA BlankPlanes == White \in Plane /\ Black \in Plane
BY DEF White, Black, Plane, Byte

LEMMA InitStream == Init => StreamOK
<1> DEFINE d == [at |-> "IDLE", type |-> RAW, has_crc |-> FALSE, half |-> FALSE,
                 plen |-> 0, prx |-> 0, dec |-> 0, mode |-> "ctrl", count |-> 0,
                 val |-> 0, crc |-> 0, crc_rx |-> 0, y0 |-> Rows, y1 |-> -1]
<1>1. 0 \in Word /\ 0 \in Byte
    BY WordOf DEF Byte
<1>2. Rows \in 0 .. Rows /\ -1 \in -1 .. Rows - 1 /\ 0 \in 0 .. 2 * Size
    BY StreamCodecAssumption DEF Size
<1>3. d \in Decoder
    BY <1>1, <1>2 DEF Decoder, States, RAW
<1>4. Blank = ResetFrame(d)
    BY DEF Blank
<1> HIDE DEF d
<1>5. Blank \in Decoder /\ Blank.mode = "ctrl" /\ Blank.at = d.at
    BY <1>3, <1>4, ResetKeeps
<1>6. d.at = "IDLE"
    BY DEF d
<1>7. DecoderOK(Blank)
    BY <1>5, <1>6 DEF DecoderOK, RunOK, InFrame
<1> QED BY <1>7, BlankPlanes DEF Init, StreamOK, Planes

(* A frame dropped, shown or cut short.                                    *)
LEMMA IdleKeeps ==
    ASSUME NEW d, DecoderOK(d)
    PROVE  DecoderOK([d EXCEPT !.at = "IDLE"])
BY DEF DecoderOK, Decoder, RunOK, InFrame, States

(* What one byte of a payload, or the end of it, does.                     *)
LEMMA DataByteKeeps ==
    ASSUME StreamOK, Carried, DataByte
    PROVE  /\ DecoderOK(dec') /\ fb' \in Planes /\ dec'.at \in InFrame
           /\ Advances(With(dec, fb), With(dec', fb'))
<1> DEFINE s == With(dec, fb)
           u == Data(s, Head(wire))
<1>1. s \in Pairs /\ s.d = dec /\ s.fb = fb
    BY DEF DataByte, StreamOK, DecoderOK, InFrame, Pairs, Within, With
<1>2. dec' = u.d /\ fb' = u.fb
    BY DEF DataByte
<1>3. Head(wire) \in Byte
    BY HeadByte DEF DataByte
<1>4. DecoderOK(dec) /\ dec.at = "DATA"
    BY DEF StreamOK, DataByte
<1> HIDE DEF s
<1>5. u \in Pairs /\ Advances(s, u) /\ DecoderOK(u.d) /\ u.d.at \in InFrame
    BY <1>1, <1>3, <1>4, DataKeeps
<1> HIDE DEF u
<1>6. u.fb \in Planes /\ Advances(s, With(u.d, u.fb))
    BY <1>5 DEF Pairs, Advances, With
<1> QED BY <1>2, <1>5, <1>6 DEF s

LEMMA FlushKeeps ==
    ASSUME StreamOK, Flush
    PROVE  /\ DecoderOK(dec') /\ fb' \in Planes
           /\ Advances(With(dec, fb), With(dec', fb'))
           /\ ~PoisonedAfter => dec'.at = "FLUSH_WAIT"
<1> DEFINE s == With(dec, fb)
           u == DrainAtEnd(s)
           e == [u.d EXCEPT !.at = "IDLE"]
<1>1. s \in Pairs /\ s.d = dec /\ s.fb = fb
    BY DEF Flush, StreamOK, DecoderOK, InFrame, Pairs, Within, With
<1>2. fb' = u.fb /\ dec' = IF PoisonedAfter THEN e ELSE u.d
    BY DEF Flush
<1>3. DecoderOK(dec) /\ dec.at = "FLUSH_WAIT"
    BY DEF StreamOK, Flush
<1> HIDE DEF s
<1>4. u \in Pairs /\ Advances(s, u) /\ DecoderOK(u.d) /\ SameFrame(s.d, u.d)
    BY <1>1, <1>3, DrainEndKeeps
<1> HIDE DEF u
<1>5. u.fb \in Planes /\ u.d \in Decoder /\ Advances(s, With(u.d, u.fb)) /\ u.d.at = "FLUSH_WAIT"
    BY <1>1, <1>3, <1>4 DEF Pairs, Advances, With, SameFrame
<1>6. DecoderOK(e)
    BY <1>4, IdleKeeps
<1>7. Advances(s, With(e, u.fb))
    <2>1. /\ e.type = u.d.type /\ e.half = u.d.half /\ e.dec = u.d.dec
          /\ e.y0 = u.d.y0 /\ e.y1 = u.d.y1
        BY <1>5 DEF Decoder
    <2>2. e \in Decoder /\ MaxDec(e) = MaxDec(u.d)
        BY <1>6, <2>1 DEF DecoderOK, MaxDec, PlaneBytes
    <2> HIDE DEF e
    <2> QED BY <1>4, <2>1, <2>2 DEF Advances, With, Marked
<1> HIDE DEF e
<1> QED BY <1>2, <1>4, <1>5, <1>6, <1>7 DEF s

(* What reaches the panel: the whole of the frame buffer's black and white *)
(* plane, or for a delta the rows it touched (write_partial_stream_rows).  *)
LEMMA ShowsLoad ==
    ASSUME StreamOK, FlushShows
    PROVE  /\ ram' \in Planes
           /\ ~IsDelta(dec.type) => ram'.bw = fb.bw
           /\ \A c \in Cells :
                  \/ ram'.bw[c] = fb.bw[c]
                  \/ ram'.bw[c] = ram.bw[c] /\ ~Marked(dec, c)
<1> DEFINE dual == IsDual(dec.type)
           balance == on /\ (count + 1) % Interval = 0
           cleared == [Loaded({"bw"}) EXCEPT !.red = IF dual THEN Black ELSE @]
<1>0. /\ fb \in Planes /\ ram \in Planes /\ dec.y0 \in Int /\ dec.y1 \in Int
      /\ Rows \in Nat
    BY StreamCodecAssumption DEF StreamOK, DecoderOK, Decoder
<1>1. ram' = IF balance THEN cleared
             ELSE IF ~on THEN Loaded(Carries(dec.type))
             ELSE IF IsDelta(dec.type) THEN LoadedRows(dual, dec.y0, dec.y1)
             ELSE LoadedRows(dual, 0, Rows)
    BY DEF FlushShows
<1>2. ASSUME NEW S PROVE Loaded(S) \in Planes /\ ("bw" \in S => Loaded(S).bw = fb.bw)
    BY <1>0 DEF Loaded, Planes, Both
<1>3. cleared \in Planes /\ cleared.bw = fb.bw
    <2>1. Loaded({"bw"}) \in Planes /\ Loaded({"bw"}).bw = fb.bw
        BY <1>2
    <2> QED BY <2>1, BlankPlanes DEF Planes
<1>4. "bw" \in Carries(dec.type) /\ "bw" \in Both
    BY DEF Carries, Both
<1>5. ASSUME NEW y0 \in Int, NEW y1 \in Int
      PROVE  /\ LoadRows(y0, y1) \in Planes
             /\ \A c \in Cells : LoadRows(y0, y1).bw[c] =
                    IF y0 <= c \div Stride /\ c \div Stride <= y1 THEN fb.bw[c] ELSE ram.bw[c]
    <2> DEFINE new(c) == IF c \div Stride \in Window(y0, y1) THEN fb.bw[c] ELSE ram.bw[c]
    <2>1. LoadRows(y0, y1) = [ram EXCEPT !.bw = [c \in Cells |-> new(c)]]
        BY DEF LoadRows
    <2>2. \A c \in Cells : new(c) \in Byte
        BY <1>0 DEF Planes, Plane
    <2>3. \A c \in Cells : new(c) =
              IF y0 <= c \div Stride /\ c \div Stride <= y1 THEN fb.bw[c] ELSE ram.bw[c]
        BY RowOfCell DEF Window
    <2> HIDE DEF new
    <2> QED BY <1>0, <2>1, <2>2, <2>3 DEF Planes, Plane
<1>6. ASSUME NEW y0 \in Int, NEW y1 \in Int
      PROVE  /\ LoadedRows(dual, y0, y1) \in Planes
             /\ y0 <= 0 /\ y1 >= Rows - 1 => LoadedRows(dual, y0, y1).bw = fb.bw
             /\ \A c \in Cells :
                    \/ LoadedRows(dual, y0, y1).bw[c] = fb.bw[c]
                    \/ /\ LoadedRows(dual, y0, y1).bw[c] = ram.bw[c]
                       /\ ~(y0 <= c \div Stride /\ c \div Stride <= y1)
    <2>1. CASE dual \/ (y0 <= 0 /\ y1 >= Rows - 1)
        BY <1>2, <1>4, <2>1 DEF LoadedRows
    <2>2. CASE ~dual /\ ~(y0 <= 0 /\ y1 >= Rows - 1)
        <3>1. LoadedRows(dual, y0, y1) = LoadRows(y0, y1)
            BY <2>2 DEF LoadedRows
        <3> HIDE DEF dual
        <3> QED BY <1>5, <2>2, <3>1
    <2> QED BY <2>1, <2>2
<1>7. CASE balance
    BY <1>1, <1>3, <1>7
<1>8. CASE ~balance /\ ~on
    BY <1>1, <1>2, <1>4, <1>8
<1>9. CASE ~balance /\ on /\ IsDelta(dec.type)
    <2>1. ram' = LoadedRows(dual, dec.y0, dec.y1)
        BY <1>1, <1>9
    <2> HIDE DEF dual
    <2> QED BY <1>0, <1>6, <1>9, <2>1 DEF Marked
<1>10. CASE ~balance /\ on /\ ~IsDelta(dec.type)
    <2>1. ram' = LoadedRows(dual, 0, Rows)
        BY <1>1, <1>10
    <2>2. 0 \in Int /\ Rows \in Int /\ 0 <= 0 /\ Rows >= Rows - 1
        BY <1>0
    <2> HIDE DEF dual
    <2> QED BY <1>6, <2>1, <2>2
<1> QED BY <1>7, <1>8, <1>9, <1>10

(* Every step keeps it.                                                    *)
LEMMA StepStream ==
    ASSUME StreamOK, Carried, [Next]_vars
    PROVE  StreamOK'
<1>1. ASSUME UNCHANGED <<dec, fb, ram>> PROVE StreamOK'
    BY <1>1 DEF StreamOK
<1>2. ASSUME dec' = [dec EXCEPT !.at = "IDLE"], UNCHANGED <<fb, ram>> PROVE StreamOK'
    BY <1>2, IdleKeeps DEF StreamOK
<1>3. CASE Host
    BY <1>1, <1>2, <1>3 DEF Host, Connect, Disconnect, Corrupt, Ask, SendFrame, SendStop, Lose,
                           decVars, panelVars
<1>4. CASE HeaderByte
    <2>1. dec' = Header(dec, Head(wire)) /\ UNCHANGED <<fb, ram>> /\ Head(wire) \in Byte
        BY <1>4, HeadByte DEF HeaderByte, panelVars
    <2>2. dec.at \notin {"DATA", "FLUSH_WAIT", "STOP2_WAIT"}
        BY <1>4 DEF HeaderByte
    <2> QED BY <2>1, <2>2, HeaderKeeps DEF StreamOK
<1>5. CASE DataByte
    <2>1. ram' = ram
        BY <1>5 DEF DataByte, panelVars
    <2> QED BY <1>5, <2>1, DataByteKeeps DEF StreamOK
<1>6. CASE Flush
    <2>1. ram' = ram
        BY <1>6 DEF Flush, panelVars
    <2> QED BY <1>6, <2>1, FlushKeeps DEF StreamOK
<1>7. CASE FlushShows
    <2>1. dec' = [dec EXCEPT !.at = "IDLE"] /\ fb' = fb
        BY <1>7 DEF FlushShows
    <2> QED BY <1>7, <2>1, ShowsLoad, IdleKeeps DEF StreamOK
<1>8. CASE Ignored \/ FlushMissing \/ StopByte
    BY <1>1, <1>2, <1>8 DEF Ignored, FlushMissing, StopByte, decVars, panelVars
<1>9. CASE Command
    <2>1. CASE CmdStop \/ CmdStart
        BY <1>1, <2>1 DEF CmdStop, CmdStart, decVars, panelVars
    <2>2. CASE CmdPrimes
        <3>1. /\ dec' = dec /\ fb' = [bw |-> White, red |-> Black]
              /\ ram' = [ram EXCEPT !.bw = White]
            BY <2>2 DEF CmdPrimes
        <3> QED BY <3>1, BlankPlanes DEF StreamOK, Planes
    <2>3. ASSUME NEW s, CmdReady(s) PROVE StreamOK'
        <3> DEFINE e == ResetFrame(dec)
        <3>1. dec' = [e EXCEPT !.at = "IDLE", !.has_crc = FALSE] /\ UNCHANGED <<fb, ram>>
            BY <2>3 DEF CmdReady, panelVars
        <3>2. e \in Decoder /\ e.mode = "ctrl"
            BY ResetKeeps DEF StreamOK, DecoderOK
        <3> HIDE DEF e
        <3>3. dec' \in Decoder /\ dec'.at = "IDLE" /\ dec'.mode = "ctrl"
            BY <3>1, <3>2, ZenonT(60) DEF Decoder, States
        <3> QED BY <3>1, <3>3 DEF StreamOK, DecoderOK, RunOK, InFrame
    <2> QED BY <1>9, <2>1, <2>2, <2>3 DEF Command
<1>10. CASE WatchdogFires \/ \E t \in Thread : Teardown(t)
    BY <1>1, <1>2, <1>10 DEF WatchdogFires, Teardown, TearBegins, TearStops, TearDrops, TearEnds,
                             decVars, panelVars
<1>11. CASE UNCHANGED vars
    BY <1>1, <1>11 DEF vars, decVars, panelVars
<1> QED BY <1>3, <1>4, <1>5, <1>6, <1>7, <1>8, <1>9, <1>10, <1>11 DEF Next, Receive

-----------------------------------------------------------------------------
(* The lesser of two numbers.                                              *)
LEMMA LowerIs ==
    ASSUME NEW a \in Int, NEW b \in Int
    PROVE  Lower(a, b) \in {a, b} /\ Lower(a, b) <= a /\ Lower(a, b) <= b
BY DEF Lower

(***************************************************************************)
(* How the host packs a frame.                                             *)
(***************************************************************************)
(* A run is of one byte, and within the data.                              *)
LEMMA RunIs ==
    ASSUME NEW data \in Seq(Byte), NEW i \in 1 .. Len(data)
    PROVE  /\ RunFrom(data, i) \in 1 .. 128 /\ i + RunFrom(data, i) - 1 <= Len(data)
           /\ \A k \in i .. i + RunFrom(data, i) - 1 : data[k] = data[i]
<1> DEFINE M == Lower(Len(data) - i + 1, 128)
           T == {n \in 1 .. M : \A k \in i .. i + n - 1 : data[k] = data[i]}
<1>0. Len(data) \in Nat /\ i \in Nat /\ 1 <= i /\ i <= Len(data)
    OBVIOUS
<1>1. M \in 1 .. 128 /\ M <= Len(data) - i + 1
    <2>1. Len(data) - i + 1 \in Int /\ Len(data) - i + 1 >= 1
        BY <1>0
    <2> HIDE DEF M
    <2>2. M \in {Len(data) - i + 1, 128} /\ M <= Len(data) - i + 1 /\ M <= 128
        BY <2>1, LowerIs DEF M
    <2> QED BY <2>1, <2>2
<1> HIDE DEF M
<1>2. T \in SUBSET (0 .. M) /\ 1 \in T
    <2>1. \A k \in i .. i + 1 - 1 : k = i
        BY <1>0
    <2> QED BY <1>1, <2>1
<1>3. \E n \in T : \A k \in T : k <= n
    <2> HIDE DEF T
    <2>1. M \in Nat
        BY <1>1
    <2> QED BY <1>2, <2>1, BoundedMax
<1>4. PICK n \in 1 .. M : /\ \A k \in i .. i + n - 1 : data[k] = data[i]
                         /\ \A k \in T : k <= n
    BY <1>3
<1>5. n = M \/ data[i + n] # data[i]
    <2> SUFFICES ASSUME n # M, data[i + n] = data[i] PROVE FALSE
        OBVIOUS
    <2>1. n + 1 \in 1 .. M /\ ~(n + 1 <= n)
        BY <1>0, <1>1, <1>4
    <2>2. \A k \in i .. i + (n + 1) - 1 : k \in i .. i + n - 1 \/ k = i + n
        BY <1>0, <1>1, <1>4
    <2>3. n + 1 \in T
        BY <1>4, <2>1, <2>2
    <2> QED BY <1>4, <2>1, <2>3
<1>6. RunFrom(data, i) = CHOOSE r \in 1 .. M :
          /\ \A k \in i .. i + r - 1 : data[k] = data[i]
          /\ r = M \/ data[i + r] # data[i]
    BY DEF RunFrom, M
<1> HIDE DEF T
<1> DEFINE Fit(r) == /\ \A k \in i .. i + r - 1 : data[k] = data[i]
                     /\ r = M \/ data[i + r] # data[i]
<1>a. Fit(n)
    BY <1>4, <1>5
<1>b. RunFrom(data, i) = CHOOSE r \in 1 .. M : Fit(r)
    BY <1>6
<1> HIDE DEF Fit
<1> DEFINE q == RunFrom(data, i)
<1>c. q \in 1 .. M /\ Fit(q)
    BY <1>4, <1>a, <1>b
<1> HIDE DEF q
<1>7. \A k \in i .. i + q - 1 : data[k] = data[i]
    BY <1>c DEF Fit
<1>8. q \in 1 .. 128 /\ i + q - 1 <= Len(data)
    BY <1>0, <1>1, <1>c
<1> QED BY <1>7, <1>8 DEF q

(* A run is short or long.                                                 *)
LEMMA RunShort ==
    ASSUME NEW data \in Seq(Byte), NEW i \in 1 .. Len(data), ~(RunFrom(data, i) >= 3)
    PROVE  RunFrom(data, i) < 3
<1> DEFINE r == RunFrom(data, i)
<1>1. r \in 1 .. 128
    BY RunIs
<1>2. ~(r >= 3)
    OBVIOUS
<1> HIDE DEF r
<1>3. r < 3
    BY <1>1, <1>2
<1> QED BY <1>3 DEF r

(* So is a literal, where no run begins.                                   *)
LEMMA LiteralIs ==
    ASSUME NEW data \in Seq(Byte), NEW i \in 1 .. Len(data), RunFrom(data, i) < 3
    PROVE  LiteralFrom(data, i) \in 1 .. 128 /\ i + LiteralFrom(data, i) - 1 <= Len(data)
<1> DEFINE M == Lower(Len(data) - i + 1, 128)
           T == {n \in 1 .. M : \A k \in i .. i + n - 1 : RunFrom(data, k) < 3}
<1>0. Len(data) \in Nat /\ i \in Nat /\ 1 <= i /\ i <= Len(data)
    OBVIOUS
<1>1. M \in 1 .. 128 /\ M <= Len(data) - i + 1
    <2>1. Len(data) - i + 1 \in Int /\ Len(data) - i + 1 >= 1
        BY <1>0
    <2> HIDE DEF M
    <2>2. M \in {Len(data) - i + 1, 128} /\ M <= Len(data) - i + 1 /\ M <= 128
        BY <2>1, LowerIs DEF M
    <2> QED BY <2>1, <2>2
<1> HIDE DEF M
<1>2. T \in SUBSET (0 .. M) /\ 1 \in T
    <2>1. \A k \in i .. i + 1 - 1 : k = i
        BY <1>0
    <2> QED BY <1>1, <2>1
<1>3. \E n \in T : \A k \in T : k <= n
    <2> HIDE DEF T
    <2>1. M \in Nat
        BY <1>1
    <2> QED BY <1>2, <2>1, BoundedMax
<1>4. PICK n \in 1 .. M : /\ \A k \in i .. i + n - 1 : RunFrom(data, k) < 3
                         /\ \A k \in T : k <= n
    BY <1>3
<1>5. n = M \/ RunFrom(data, i + n) >= 3
    <2> SUFFICES ASSUME n # M, ~(RunFrom(data, i + n) >= 3) PROVE FALSE
        OBVIOUS
    <2>1. n + 1 \in 1 .. M /\ ~(n + 1 <= n) /\ i + n \in 1 .. Len(data)
        BY <1>0, <1>1, <1>4
    <2>3. RunFrom(data, i + n) < 3
        BY <2>1, RunShort
    <2>4. \A k \in i .. i + (n + 1) - 1 : k \in i .. i + n - 1 \/ k = i + n
        BY <1>0, <1>1, <1>4
    <2>5. n + 1 \in T
        BY <1>4, <2>1, <2>3, <2>4
    <2> QED BY <1>4, <2>1, <2>5
<1>6. LiteralFrom(data, i) = CHOOSE r \in 1 .. M :
          /\ \A k \in i .. i + r - 1 : RunFrom(data, k) < 3
          /\ r = M \/ RunFrom(data, i + r) >= 3
    BY DEF LiteralFrom, M
<1> HIDE DEF T
<1> DEFINE Fit(r) == /\ \A k \in i .. i + r - 1 : RunFrom(data, k) < 3
                     /\ r = M \/ RunFrom(data, i + r) >= 3
<1>a. Fit(n)
    BY <1>4, <1>5
<1>b. LiteralFrom(data, i) = CHOOSE r \in 1 .. M : Fit(r)
    BY <1>6
<1> HIDE DEF Fit
<1> DEFINE q == LiteralFrom(data, i)
<1>7. q \in 1 .. M
    BY <1>4, <1>a, <1>b
<1> HIDE DEF q
<1>8. q \in 1 .. 128 /\ i + q - 1 <= Len(data)
    BY <1>0, <1>1, <1>7
<1> QED BY <1>8 DEF q

(* What is packed from a place on: a run and the rest, or a literal and    *)
(* the rest.                                                               *)
PackedFrom(data, f, i) ==
    IF i > Len(data) THEN <<>>
    ELSE IF RunFrom(data, i) >= 3
         THEN <<RunFrom(data, i) - 1 + 128, data[i]>> \o f[i + RunFrom(data, i)]
         ELSE <<LiteralFrom(data, i) - 1>>
                  \o SubSeq(data, i, i + LiteralFrom(data, i) - 1) \o f[i + LiteralFrom(data, i)]

(* It is a sequence of bytes, at most twice as many as there are to pack.  *)
LEMMA PackedFromType ==
    ASSUME NEW data \in Seq(Byte), NEW i \in 1 .. Len(data) + 1, NEW f,
           \A j \in i + 1 .. Len(data) + 1 :
               f[j] \in Seq(Byte) /\ Len(f[j]) <= 2 * (Len(data) + 1 - j)
    PROVE  /\ PackedFrom(data, f, i) \in Seq(Byte)
           /\ Len(PackedFrom(data, f, i)) <= 2 * (Len(data) + 1 - i)
           /\ i <= Len(data) => Len(PackedFrom(data, f, i)) >= 1
<1>0. Len(data) \in Nat /\ i \in Nat /\ 1 <= i /\ i <= Len(data) + 1
    OBVIOUS
<1>1. CASE i > Len(data)
    BY <1>0, <1>1 DEF PackedFrom
<1>2. CASE i <= Len(data) /\ RunFrom(data, i) >= 3
    <2> DEFINE r == RunFrom(data, i)
    <2>0. i \in 1 .. Len(data)
        BY <1>0, <1>2
    <2>a. r \in 1 .. 128 /\ i + r - 1 <= Len(data)
        BY <2>0, RunIs
    <2>b. r >= 3
        BY <1>2
    <2>2. data[i] \in Byte
        BY <2>0
    <2>3. PackedFrom(data, f, i) = <<r - 1 + 128, data[i]>> \o f[i + r]
        BY <1>0, <1>2 DEF PackedFrom
    <2> HIDE DEF r
    <2>1. r \in 3 .. 128 /\ i + r \in i + 1 .. Len(data) + 1
        BY <1>0, <2>a, <2>b
    <2>c. r - 1 + 128 \in Byte
        BY <2>1 DEF Byte
    <2> DEFINE g == f[i + r]
               h == <<r - 1 + 128, data[i]>>
    <2>4. g \in Seq(Byte) /\ Len(g) <= 2 * (Len(data) + 1 - (i + r))
        BY <2>1
    <2>5. h \in Seq(Byte) /\ Len(h) = 2
        BY <2>2, <2>c
    <2> HIDE DEF g, h
    <2>6. h \o g \in Seq(Byte) /\ Len(h \o g) = 2 + Len(g)
        <3>1. h \o g \in Seq(Byte) /\ Len(h \o g) = Len(h) + Len(g)
            BY <2>4, <2>5, ConcatProperties
        <3> QED BY <2>5, <3>1
    <2>7. Len(g) \in Nat
        BY <2>4
    <2>8. Len(h \o g) <= 2 * (Len(data) + 1 - i) /\ Len(h \o g) >= 1
        BY <1>0, <2>1, <2>4, <2>6, <2>7
    <2> QED BY <2>3, <2>6, <2>8 DEF g, h
<1>3. CASE i <= Len(data) /\ ~(RunFrom(data, i) >= 3)
    <2> DEFINE l == LiteralFrom(data, i)
    <2>a. i \in 1 .. Len(data)
        BY <1>0, <1>3
    <2>0. RunFrom(data, i) < 3
        BY <1>3, <2>a, RunShort
    <2>b. l \in 1 .. 128 /\ i + l - 1 <= Len(data)
        BY <2>a, <2>0, LiteralIs
    <2>2. PackedFrom(data, f, i) = (<<l - 1>> \o SubSeq(data, i, i + l - 1)) \o f[i + l]
        <3>1. ~(i > Len(data))
            BY <2>a
        <3> QED BY <1>3, <3>1 DEF PackedFrom
    <2> HIDE DEF l
    <2>1. l \in 1 .. 128 /\ i + l \in i + 1 .. Len(data) + 1
        BY <1>0, <2>b
    <2> DEFINE g == f[i + l]
               h == <<l - 1>>
               m == SubSeq(data, i, i + l - 1)
    <2>3. g \in Seq(Byte) /\ Len(g) <= 2 * (Len(data) + 1 - (i + l))
        BY <2>1
    <2>4. h \in Seq(Byte) /\ Len(h) = 1
        BY <2>1 DEF Byte
    <2>5. m \in Seq(Byte) /\ Len(m) = l
        BY <1>0, <2>1
    <2> HIDE DEF g, h, m
    <2>6. h \o m \in Seq(Byte) /\ Len(h \o m) = 1 + l
        BY <2>1, <2>4, <2>5, ConcatProperties, ZenonT(60)
    <2>7. (h \o m) \o g \in Seq(Byte) /\ Len((h \o m) \o g) = 1 + l + Len(g)
        BY <2>3, <2>6, ConcatProperties
    <2>8. Len(g) \in Nat
        BY <2>3
    <2>9. /\ Len((h \o m) \o g) <= 2 * (Len(data) + 1 - i)
          /\ Len((h \o m) \o g) >= 1
        BY <1>0, <2>1, <2>3, <2>7, <2>8
    <2> QED BY <2>2, <2>7, <2>9 DEF g, h, m
<1> QED BY <1>0, <1>1, <1>2, <1>3

(* Packed is what it says: there is such a function, built from the end.   *)
LEMMA PackedUnfolds ==
    ASSUME NEW data \in Seq(Byte)
    PROVE  Packed(data) = [i \in 1 .. Len(data) + 1 |-> PackedFrom(data, Packed(data), i)]
<1> DEFINE N == Len(data)
           T == {m \in 1 .. N + 1 :
                    \E f : f = [i \in m .. N + 1 |-> PackedFrom(data, f, i)]}
<1>1. N \in Nat
    OBVIOUS
<1>2. N + 1 \in T
    <2> DEFINE f == [i \in N + 1 .. N + 1 |-> <<>>]
    <2>1. \A g, i : i > N => PackedFrom(data, g, i) = <<>>
        BY DEF PackedFrom
    <2>a. \A i \in N + 1 .. N + 1 : i > N
        BY <1>1
    <2>2. f = [i \in N + 1 .. N + 1 |-> PackedFrom(data, f, i)]
        BY <2>1, <2>a
    <2>3. N + 1 \in 1 .. N + 1
        BY <1>1
    <2> HIDE DEF f
    <2> QED BY <2>2, <2>3
<1>3. \E m \in T : \A k \in T : m <= k
    <2>a. 1 .. N + 1 \subseteq Nat
        BY <1>1
    <2>b. T \subseteq 1 .. N + 1
        OBVIOUS
    <2>1. T \in SUBSET Nat /\ T # {}
        BY <1>2, <2>a, <2>b, Zenon
    <2> HIDE DEF T
    <2> QED BY <2>1, NatMin
<1>a. PICK m \in T : \A k \in T : m <= k
    BY <1>3
<1>b. m \in 1 .. N + 1 /\ \E f : f = [i \in m .. N + 1 |-> PackedFrom(data, f, i)]
    BY <1>a
<1>4. PICK f : f = [i \in m .. N + 1 |-> PackedFrom(data, f, i)]
    BY <1>b
<1>5. m = 1
    <2> SUFFICES ASSUME m # 1 PROVE FALSE
        OBVIOUS
    <2>0. m - 1 \in 1 .. N /\ ~(m <= m - 1) /\ m \in 1 .. N + 1
        BY <1>1, <1>b
    <2> DEFINE g == [i \in m - 1 .. N + 1 |-> IF i = m - 1 THEN PackedFrom(data, f, m - 1) ELSE f[i]]
    <2>1. \A j \in m .. N + 1 : g[j] = f[j]
        BY <2>0
    <2>2. \A i \in m - 1 .. N + 1 : PackedFrom(data, g, i) = PackedFrom(data, f, i)
        <3> SUFFICES ASSUME NEW i \in m - 1 .. N + 1
                     PROVE  PackedFrom(data, g, i) = PackedFrom(data, f, i)
            OBVIOUS
        <3>0. i \in 1 .. N + 1
            BY <2>0
        <3> HIDE DEF g
        <3>1. CASE i > N
            BY <3>1 DEF PackedFrom
        <3>2. CASE i <= N /\ RunFrom(data, i) >= 3
            <4> DEFINE r == RunFrom(data, i)
            <4>a. i \in 1 .. Len(data)
                BY <1>1, <3>0, <3>2
            <4>b. r \in 1 .. 128 /\ i + r - 1 <= N
                BY <4>a, RunIs
            <4> HIDE DEF r
            <4>c. i + r \in m .. N + 1
                BY <1>1, <2>0, <4>b
            <4>1. i + RunFrom(data, i) \in m .. N + 1
                BY <4>c DEF r
            <4> QED BY <2>1, <3>2, <4>1 DEF PackedFrom
        <3>3. CASE i <= N /\ ~(RunFrom(data, i) >= 3)
            <4> DEFINE l == LiteralFrom(data, i)
            <4>a. i \in 1 .. Len(data)
                BY <1>1, <3>0, <3>3
            <4>1. RunFrom(data, i) < 3
                BY <3>3, <4>a, RunShort
            <4>b. l \in 1 .. 128 /\ i + l - 1 <= N
                BY <4>a, <4>1, LiteralIs
            <4> HIDE DEF l
            <4>c. i + l \in m .. N + 1
                BY <1>1, <2>0, <4>b
            <4>2. i + LiteralFrom(data, i) \in m .. N + 1
                BY <4>c DEF l
            <4> QED BY <2>1, <3>3, <4>2 DEF PackedFrom
        <3> QED BY <3>0, <3>1, <3>2, <3>3
    <2>3. \A i \in m - 1 .. N + 1 : g[i] = PackedFrom(data, f, i)
        <3> SUFFICES ASSUME NEW i \in m - 1 .. N + 1 PROVE g[i] = PackedFrom(data, f, i)
            OBVIOUS
        <3>1. CASE i = m - 1
            BY <3>1
        <3>2. CASE i # m - 1
            <4>1. i \in m .. N + 1
                BY <2>0, <3>2
            <4> QED BY <1>4, <2>1, <4>1
        <3> QED BY <3>1, <3>2
    <2>4. g = [i \in m - 1 .. N + 1 |-> PackedFrom(data, g, i)]
        BY <2>2, <2>3
    <2> HIDE DEF g
    <2>5. m - 1 \in T
        <3>1. m - 1 \in 1 .. N + 1
            BY <2>0
        <3> QED BY <2>4, <3>1
    <2> HIDE DEF T
    <2> QED BY <1>a, <2>0, <2>5
<1>6. f = [i \in 1 .. Len(data) + 1 |-> PackedFrom(data, f, i)]
    BY <1>4, <1>5
<1>7. Packed(data) = CHOOSE g : g = [i \in 1 .. Len(data) + 1 |-> PackedFrom(data, g, i)]
    BY DEF Packed, PackedFrom
<1> QED BY <1>6, <1>7

(* What is packed from a place on is a sequence of bytes, empty at the end *)
(* of the data only, and at most twice as long.                            *)
PackedWell(data, i) ==
    /\ Packed(data)[i] \in Seq(Byte)
    /\ Len(Packed(data)[i]) <= 2 * (Len(data) + 1 - i)
    /\ i <= Len(data) => Len(Packed(data)[i]) >= 1

LEMMA PackedType ==
    ASSUME NEW data \in Seq(Byte), NEW i \in 1 .. Len(data) + 1
    PROVE  PackedWell(data, i)
<1> DEFINE N == Len(data)
           B == {k \in 1 .. N + 1 : ~PackedWell(data, k)}
<1>1. N \in Nat
    OBVIOUS
<1>2. SUFFICES B = {}
    OBVIOUS
<1>3. SUFFICES ASSUME B # {} PROVE FALSE
    OBVIOUS
<1>4. B \in SUBSET (0 .. N + 1)
    BY <1>1
<1>5. \E m \in B : \A k \in B : k <= m
    <2>1. N + 1 \in Nat
        BY <1>1
    <2> HIDE DEF B
    <2> QED BY <1>3, <1>4, <2>1, BoundedMax
<1>6. PICK m \in 1 .. N + 1 : m \in B /\ \A k \in B : k <= m
    BY <1>5
<1>7. \A j \in m + 1 .. N + 1 : PackedWell(data, j)
    <2> TAKE j \in m + 1 .. N + 1
    <2>1. j \in 1 .. N + 1 /\ ~(j <= m)
        BY <1>1
    <2> QED BY <1>6, <2>1
<1>8. \A j \in m + 1 .. N + 1 :
          Packed(data)[j] \in Seq(Byte) /\ Len(Packed(data)[j]) <= 2 * (N + 1 - j)
    BY <1>7 DEF PackedWell
<1>9. /\ PackedFrom(data, Packed(data), m) \in Seq(Byte)
      /\ Len(PackedFrom(data, Packed(data), m)) <= 2 * (N + 1 - m)
      /\ m <= N => Len(PackedFrom(data, Packed(data), m)) >= 1
    BY <1>8, PackedFromType
<1>10. Packed(data)[m] = PackedFrom(data, Packed(data), m)
    BY PackedUnfolds
<1>11. PackedWell(data, m)
    BY <1>9, <1>10 DEF PackedWell
<1> QED BY <1>6, <1>11

(* It begins with a run, or with a literal.                                *)
PackedRun(data, i, r) ==
    LET bytes == Packed(data)[i]
        rest == Packed(data)[i + r]
    IN  /\ i + r - 1 <= Len(data) /\ \A k \in i .. i + r - 1 : data[k] = data[i]
        /\ Len(bytes) = 2 + Len(rest)
        /\ bytes[1] = r - 1 + 128 /\ bytes[2] = data[i]
        /\ \A j \in 1 .. Len(rest) : bytes[2 + j] = rest[j]

PackedLiteral(data, i, l) ==
    LET bytes == Packed(data)[i]
        rest == Packed(data)[i + l]
    IN  /\ i + l - 1 <= Len(data)
        /\ Len(bytes) = 1 + l + Len(rest)
        /\ bytes[1] = l - 1 /\ \A j \in 1 .. l : bytes[1 + j] = data[i + j - 1]
        /\ \A j \in 1 .. Len(rest) : bytes[1 + l + j] = rest[j]

LEMMA PackedBegins ==
    ASSUME NEW data \in Seq(Byte), NEW i \in 1 .. Len(data)
    PROVE  \/ \E r \in 3 .. 128 : PackedRun(data, i, r)
           \/ \E l \in 1 .. 128 : PackedLiteral(data, i, l)
<1> DEFINE N == Len(data)
           P == Packed(data)
<1>0. N \in Nat /\ i \in Nat /\ 1 <= i /\ i <= N /\ i \in 1 .. N + 1
    OBVIOUS
<1>1. P[i] = PackedFrom(data, P, i)
    BY <1>0, PackedUnfolds
<1>2. CASE RunFrom(data, i) >= 3
    <2> DEFINE r == RunFrom(data, i)
               h == <<r - 1 + 128, data[i]>>
               g == P[i + r]
    <2>1. r \in 1 .. 128 /\ i + r - 1 <= N /\ \A k \in i .. i + r - 1 : data[k] = data[i]
        BY RunIs
    <2>2. r >= 3
        BY <1>2
    <2>3. PackedFrom(data, P, i) = h \o g
        <3>1. ~(i > N)
            BY <1>0
        <3> QED BY <1>2, <3>1 DEF PackedFrom
    <2>4. data[i] \in Byte
        BY <1>0
    <2> HIDE DEF r
    <2>5. r \in 3 .. 128 /\ i + r \in 1 .. N + 1 /\ r - 1 + 128 \in Byte
        BY <1>0, <2>1, <2>2 DEF Byte
    <2>6. g \in Seq(Byte)
        BY <2>5, PackedType DEF PackedWell
    <2>7. h \in Seq(Byte) /\ Len(h) = 2 /\ h[1] = r - 1 + 128 /\ h[2] = data[i]
        BY <2>4, <2>5
    <2> HIDE DEF h, g
    <2> DEFINE R == h \o g
    <2>8. /\ Len(R) = 2 + Len(g) /\ Len(g) \in Nat
          /\ \A j \in 1 .. 2 + Len(g) : R[j] = IF j <= 2 THEN h[j] ELSE g[j - 2]
        <3>1. /\ Len(R) = Len(h) + Len(g)
              /\ \A j \in 1 .. Len(h) + Len(g) : R[j] = IF j <= Len(h) THEN h[j] ELSE g[j - Len(h)]
            BY <2>6, <2>7, ConcatProperties, ZenonT(60)
        <3>2. Len(g) \in Nat
            BY <2>6
        <3> HIDE DEF R
        <3> QED BY <2>7, <3>1, <3>2
    <2> HIDE DEF R
    <2>9. R[1] = r - 1 + 128 /\ R[2] = data[i]
        BY <2>7, <2>8
    <2>10. \A j \in 1 .. Len(g) : R[2 + j] = g[j]
        <3> TAKE j \in 1 .. Len(g)
        <3>1. 2 + j \in 1 .. 2 + Len(g) /\ ~(2 + j <= 2) /\ 2 + j - 2 = j
            BY <2>8
        <3> QED BY <2>8, <3>1
    <2>11. P[i] = R
        BY <1>1, <2>3 DEF R
    <2> HIDE DEF P
    <2>12. PackedRun(data, i, r)
        BY <2>1, <2>8, <2>9, <2>10, <2>11 DEF PackedRun, g, P
    <2> QED BY <2>5, <2>12
<1>3. CASE ~(RunFrom(data, i) >= 3)
    <2> DEFINE l == LiteralFrom(data, i)
               h == <<l - 1>>
               m == SubSeq(data, i, i + l - 1)
               g == P[i + l]
    <2>1. l \in 1 .. 128 /\ i + l - 1 <= N
        BY <1>3, RunShort, LiteralIs
    <2>2. PackedFrom(data, P, i) = (h \o m) \o g
        <3>1. ~(i > N)
            BY <1>0
        <3> QED BY <1>3, <3>1 DEF PackedFrom
    <2> HIDE DEF l
    <2>3. i + l \in 1 .. N + 1 /\ l - 1 \in Byte
        BY <1>0, <2>1 DEF Byte
    <2>4. g \in Seq(Byte)
        BY <2>3, PackedType DEF PackedWell
    <2>5. h \in Seq(Byte) /\ Len(h) = 1 /\ h[1] = l - 1
        BY <2>3
    <2>6. m \in Seq(Byte) /\ Len(m) = l /\ \A j \in 1 .. l : m[j] = data[i + j - 1]
        <3>1. \A k \in i .. i + l - 1 : k \in 1 .. N
            BY <1>0, <2>1
        <3>2. \A k \in i .. i + l - 1 : data[k] \in Byte
            BY <3>1
        <3> DEFINE e == i + l - 1
        <3>3. i \in Int /\ e \in Int /\ i <= e /\ e - i + 1 = l
            BY <1>0, <2>1
        <3>4. \A k \in i .. e : data[k] \in Byte
            BY <3>2
        <3> HIDE DEF e
        <3>5. /\ SubSeq(data, i, e) \in Seq(Byte) /\ Len(SubSeq(data, i, e)) = e - i + 1
              /\ \A j \in 1 .. e - i + 1 : SubSeq(data, i, e)[j] = data[i + j - 1]
            BY <3>3, <3>4, SubSeqProperties
        <3>6. m = SubSeq(data, i, e)
            BY DEF e
        <3> HIDE DEF m
        <3> QED BY <3>3, <3>5, <3>6
    <2> HIDE DEF h, g, m
    <2> DEFINE Q == h \o m
    <2>7. /\ Q \in Seq(Byte) /\ Len(Q) = 1 + l
          /\ \A j \in 1 .. 1 + l : Q[j] = IF j <= 1 THEN h[j] ELSE m[j - 1]
        <3>1. /\ Q \in Seq(Byte) /\ Len(Q) = Len(h) + Len(m)
              /\ \A j \in 1 .. Len(h) + Len(m) : Q[j] = IF j <= Len(h) THEN h[j] ELSE m[j - Len(h)]
            BY <2>5, <2>6, ConcatProperties
        <3> HIDE DEF Q
        <3> QED BY <2>5, <2>6, <3>1
    <2> HIDE DEF Q
    <2> DEFINE R == Q \o g
    <2>8. /\ Len(R) = 1 + l + Len(g) /\ Len(g) \in Nat
          /\ \A j \in 1 .. 1 + l + Len(g) : R[j] = IF j <= 1 + l THEN Q[j] ELSE g[j - (1 + l)]
        <3>1. /\ Len(R) = Len(Q) + Len(g)
              /\ \A j \in 1 .. Len(Q) + Len(g) : R[j] = IF j <= Len(Q) THEN Q[j] ELSE g[j - Len(Q)]
            BY <2>4, <2>7, ConcatProperties
        <3>2. Len(g) \in Nat
            BY <2>4
        <3> HIDE DEF R
        <3> QED BY <2>7, <3>1, <3>2
    <2> HIDE DEF R
    <2>9. R[1] = l - 1
        <3>1. 1 \in 1 .. 1 + l + Len(g) /\ 1 \in 1 .. 1 + l /\ 1 <= 1 + l
            BY <2>1, <2>8
        <3> QED BY <2>5, <2>7, <2>8, <3>1
    <2>10. \A j \in 1 .. l : R[1 + j] = data[i + j - 1]
        <3> TAKE j \in 1 .. l
        <3>1. /\ 1 + j \in 1 .. 1 + l + Len(g) /\ 1 + j \in 1 .. 1 + l /\ 1 + j <= 1 + l
              /\ ~(1 + j <= 1) /\ 1 + j - 1 = j
            BY <2>1, <2>8
        <3>2. R[1 + j] = m[j]
            BY <2>7, <2>8, <3>1
        <3> QED BY <2>6, <3>2
    <2>11. \A j \in 1 .. Len(g) : R[1 + l + j] = g[j]
        <3> TAKE j \in 1 .. Len(g)
        <3> DEFINE q == 1 + l + j
        <3>1. q \in 1 .. 1 + l + Len(g) /\ ~(q <= 1 + l) /\ q - (1 + l) = j
            BY <2>1, <2>8
        <3> HIDE DEF q
        <3>2. R[q] = g[j]
            BY <2>8, <3>1
        <3> QED BY <3>2 DEF q
    <2>12. P[i] = R
        BY <1>1, <2>2 DEF Q, R
    <2> HIDE DEF P
    <2>13. PackedLiteral(data, i, l)
        BY <2>1, <2>8, <2>9, <2>10, <2>11, <2>12 DEF PackedLiteral, g, P
    <2> QED BY <2>1, <2>13
<1> QED BY <1>2, <1>3

(***************************************************************************)
(* The checksum of a payload, byte by byte.                                *)
(***************************************************************************)
CrcFrom(payload, f, i) == IF i = 0 THEN CrcStart ELSE Crc16(f[i - 1], payload[i])

LEMMA CrcUnfolds ==
    ASSUME NEW payload \in Seq(Byte)
    PROVE  CrcUpTo(payload) = [i \in 0 .. Len(payload) |-> CrcFrom(payload, CrcUpTo(payload), i)]
<1> DEFINE N == Len(payload)
           T == {m \in 0 .. N : \E f : f = [i \in 0 .. m |-> CrcFrom(payload, f, i)]}
<1>1. N \in Nat
    OBVIOUS
<1>2. 0 \in T
    <2> DEFINE f == [i \in 0 .. 0 |-> CrcStart]
    <2>1. \A g, i : i = 0 => CrcFrom(payload, g, i) = CrcStart
        BY DEF CrcFrom
    <2>2. \A i \in 0 .. 0 : i = 0
        OBVIOUS
    <2>3. f = [i \in 0 .. 0 |-> CrcFrom(payload, f, i)]
        BY <2>1, <2>2
    <2>4. 0 \in 0 .. N
        BY <1>1
    <2> HIDE DEF f
    <2> QED BY <2>3, <2>4
<1>3. \E m \in T : \A k \in T : k <= m
    <2>1. T \in SUBSET (0 .. N)
        OBVIOUS
    <2> HIDE DEF T
    <2> QED BY <1>1, <1>2, <2>1, BoundedMax
<1>a. PICK m \in T : \A k \in T : k <= m
    BY <1>3
<1>b. m \in 0 .. N /\ \E f : f = [i \in 0 .. m |-> CrcFrom(payload, f, i)]
    BY <1>a
<1>4. PICK f : f = [i \in 0 .. m |-> CrcFrom(payload, f, i)]
    BY <1>b
<1>5. m = N
    <2> SUFFICES ASSUME m # N PROVE FALSE
        OBVIOUS
    <2>0. m \in Nat /\ m + 1 \in 0 .. N /\ ~(m + 1 <= m)
        BY <1>1, <1>b
    <2> DEFINE g == [i \in 0 .. m + 1 |-> IF i = m + 1 THEN CrcFrom(payload, f, m + 1) ELSE f[i]]
    <2>1. \A j \in 0 .. m : g[j] = f[j]
        BY <2>0
    <2>2. \A i \in 0 .. m + 1 : CrcFrom(payload, g, i) = CrcFrom(payload, f, i)
        <3> SUFFICES ASSUME NEW i \in 0 .. m + 1
                     PROVE  CrcFrom(payload, g, i) = CrcFrom(payload, f, i)
            OBVIOUS
        <3> HIDE DEF g
        <3>1. CASE i = 0
            BY <3>1 DEF CrcFrom
        <3>2. CASE i # 0
            <4>1. i - 1 \in 0 .. m
                BY <2>0, <3>2
            <4> QED BY <2>1, <4>1 DEF CrcFrom
        <3> QED BY <3>1, <3>2
    <2>3. \A i \in 0 .. m + 1 : g[i] = CrcFrom(payload, f, i)
        <3> SUFFICES ASSUME NEW i \in 0 .. m + 1 PROVE g[i] = CrcFrom(payload, f, i)
            OBVIOUS
        <3>1. CASE i = m + 1
            BY <3>1
        <3>2. CASE i # m + 1
            <4>1. i \in 0 .. m
                BY <2>0, <3>2
            <4> QED BY <1>4, <2>1, <4>1
        <3> QED BY <3>1, <3>2
    <2>4. g = [i \in 0 .. m + 1 |-> CrcFrom(payload, g, i)]
        BY <2>2, <2>3
    <2> HIDE DEF g
    <2>5. m + 1 \in T
        BY <2>0, <2>4
    <2> HIDE DEF T
    <2> QED BY <1>a, <2>0, <2>5
<1>6. f = [i \in 0 .. Len(payload) |-> CrcFrom(payload, f, i)]
    BY <1>4, <1>5
<1>7. CrcUpTo(payload) = CHOOSE g : g = [i \in 0 .. Len(payload) |-> CrcFrom(payload, g, i)]
    BY DEF CrcUpTo, CrcFrom
<1> QED BY <1>6, <1>7

LEMMA CrcIs ==
    ASSUME NEW payload \in Seq(Byte)
    PROVE  /\ CrcUpTo(payload)[0] = CrcStart
           /\ \A i \in 1 .. Len(payload) :
                  CrcUpTo(payload)[i] = Crc16(CrcUpTo(payload)[i - 1], payload[i])
           /\ CrcOf(payload) \in Word
<1> DEFINE N == Len(payload)
           C == CrcUpTo(payload)
<1>1. N \in Nat
    OBVIOUS
<1>2. \A i \in 0 .. N : C[i] = CrcFrom(payload, C, i)
    BY CrcUnfolds
<1>3. C[0] = CrcStart
    BY <1>1, <1>2 DEF CrcFrom
<1>4. \A i \in 1 .. N : C[i] = Crc16(C[i - 1], payload[i])
    <2> HIDE DEF C
    <2> TAKE i \in 1 .. N
    <2>1. i \in 0 .. N /\ i # 0
        BY <1>1
    <2> QED BY <1>2, <2>1 DEF CrcFrom
<1>5. \A i \in 0 .. N : C[i] \in Word
    <2> DEFINE B == {i \in 0 .. N : C[i] \notin Word}
    <2>1. SUFFICES ASSUME B # {} PROVE FALSE
        OBVIOUS
    <2>2. B \subseteq 0 .. N /\ 0 .. N \subseteq Nat
        BY <1>1
    <2>3. \E m \in B : \A k \in B : m <= k
        <3>1. B \in SUBSET Nat
            BY <2>2, Zenon
        <3> HIDE DEF B
        <3> QED BY <2>1, <3>1, NatMin
    <2>4. PICK m \in 0 .. N : C[m] \notin Word /\ \A k \in B : m <= k
        BY <2>3
    <2>5. CASE m = 0
        BY <1>3, <2>4, <2>5, WordOf DEF CrcStart, WordMax
    <2>6. CASE m # 0
        <3>1. m \in 1 .. N /\ m - 1 \in 0 .. N /\ ~(m <= m - 1)
            BY <1>1, <2>4, <2>6
        <3>2. m - 1 \notin B
            <4> HIDE DEF B
            <4> QED BY <2>4, <3>1
        <3>3. C[m - 1] \in Word
            BY <3>1, <3>2
        <3>4. payload[m] \in Byte
            BY <3>1
        <3> HIDE DEF C
        <3> QED BY <1>4, <2>4, <3>1, <3>3, <3>4, CrcType
    <2> QED BY <2>5, <2>6
<1>6. CrcOf(payload) = C[N]
    BY DEF CrcOf
<1> QED BY <1>1, <1>3, <1>4, <1>5, <1>6

(* One sequence of bytes after another.                                    *)
IsJoin(r, s, t) ==
    /\ r \in Seq(Byte) /\ Len(r) = Len(s) + Len(t)
    /\ \A i \in 1 .. Len(s) : r[i] = s[i]
    /\ \A i \in 1 .. Len(t) : r[Len(s) + i] = t[i]

LEMMA Joins ==
    ASSUME NEW s \in Seq(Byte), NEW t \in Seq(Byte)
    PROVE  IsJoin(s \o t, s, t)
<1> DEFINE R == s \o t
           n == Len(s)
           m == Len(t)
<1>1. n \in Nat /\ m \in Nat
    OBVIOUS
<1>2. /\ R \in Seq(Byte) /\ Len(R) = n + m
      /\ \A i \in 1 .. n + m : R[i] = IF i <= n THEN s[i] ELSE t[i - n]
    BY ConcatProperties
<1> HIDE DEF R, n, m
<1>3. \A i \in 1 .. n : R[i] = s[i]
    <2> TAKE i \in 1 .. n
    <2>1. i \in 1 .. n + m /\ i <= n
        BY <1>1
    <2> QED BY <1>2, <2>1
<1>4. \A i \in 1 .. m : R[n + i] = t[i]
    <2> TAKE i \in 1 .. m
    <2> DEFINE k == n + i
    <2>1. k \in 1 .. n + m /\ ~(k <= n) /\ k - n = i
        BY <1>1
    <2> HIDE DEF k
    <2>2. R[k] = t[i]
        BY <1>2, <2>1
    <2> QED BY <2>2 DEF k
<1> QED BY <1>2, <1>3, <1>4 DEF R, n, m, IsJoin

(***************************************************************************)
(* A frame on the wire, byte by byte.                                      *)
(***************************************************************************)
TypeByte(type, half, crc) ==
    type + (IF half THEN HALF_FLAG ELSE 0) + (IF crc THEN CRC_FLAG ELSE 0)

(* How many bytes there are after the payload.                             *)
Trailer(crc) == IF crc THEN 3 ELSE 1

Wrapped(f, type, half, crc, payload) ==
    /\ f \in Seq(Byte) /\ Len(f) = 5 + Len(payload) + Trailer(crc)
    /\ f[1] = HDR1 /\ f[2] = HDR2 /\ f[3] = TypeByte(type, half, crc)
    /\ f[4] = Len(payload) \div 256 /\ f[5] = Len(payload) % 256
    /\ \A j \in 1 .. Len(payload) : f[5 + j] = payload[j]
    /\ crc => /\ f[5 + Len(payload) + 1] = CrcOf(payload) \div 256
              /\ f[5 + Len(payload) + 2] = CrcOf(payload) % 256
    /\ f[5 + Len(payload) + Trailer(crc)] = FLUSH

(* What the type byte says is what it was made of.                         *)
LEMMA TypeByteIs ==
    ASSUME NEW type \in 0 .. 5, NEW half \in BOOLEAN, NEW crc \in BOOLEAN
    PROVE  /\ TypeByte(type, half, crc) \in Byte
           /\ TypeByte(type, half, crc) % HALF_FLAG = type
           /\ (TypeByte(type, half, crc) \div CRC_FLAG) % 2 = 1 <=> crc
           /\ (TypeByte(type, half, crc) \div HALF_FLAG) % 2 = 1 <=> half
<1>1. CASE half /\ crc
    <2>1. TypeByte(type, half, crc) = type + 96
        BY <1>1 DEF TypeByte, HALF_FLAG, CRC_FLAG
    <2>2. /\ type + 96 \in Byte /\ (type + 96) % 32 = type
          /\ ((type + 96) \div 64) % 2 = 1 /\ ((type + 96) \div 32) % 2 = 1
        BY DEF Byte
    <2> QED BY <1>1, <2>1, <2>2 DEF HALF_FLAG, CRC_FLAG
<1>2. CASE half /\ ~crc
    <2>1. TypeByte(type, half, crc) = type + 32
        BY <1>2 DEF TypeByte, HALF_FLAG, CRC_FLAG
    <2>2. /\ type + 32 \in Byte /\ (type + 32) % 32 = type
          /\ ((type + 32) \div 64) % 2 = 0 /\ ((type + 32) \div 32) % 2 = 1
        BY DEF Byte
    <2>3. ((type + 32) \div 64) % 2 # 1
        BY <2>2
    <2> QED BY <1>2, <2>1, <2>2, <2>3, Zenon DEF HALF_FLAG, CRC_FLAG
<1>3. CASE ~half /\ crc
    <2>1. TypeByte(type, half, crc) = type + 64
        BY <1>3 DEF TypeByte, HALF_FLAG, CRC_FLAG
    <2>2. /\ type + 64 \in Byte /\ (type + 64) % 32 = type
          /\ ((type + 64) \div 64) % 2 = 1 /\ ((type + 64) \div 32) % 2 = 0
        BY DEF Byte
    <2>3. ((type + 64) \div 32) % 2 # 1
        BY <2>2
    <2> QED BY <1>3, <2>1, <2>2, <2>3, Zenon DEF HALF_FLAG, CRC_FLAG
<1>4. CASE ~half /\ ~crc
    <2>1. TypeByte(type, half, crc) = type + 0
        BY <1>4 DEF TypeByte, HALF_FLAG, CRC_FLAG
    <2>2. /\ type + 0 \in Byte /\ (type + 0) % 32 = type
          /\ ((type + 0) \div 64) % 2 = 0 /\ ((type + 0) \div 32) % 2 = 0
        BY DEF Byte
    <2> QED BY <1>4, <2>1, <2>2 DEF HALF_FLAG, CRC_FLAG
<1> QED BY <1>1, <1>2, <1>3, <1>4

LEMMA WrapBytes ==
    ASSUME NEW type \in 0 .. 5, NEW half \in BOOLEAN, NEW crc \in BOOLEAN,
           NEW payload \in Seq(Byte), Len(payload) <= 65535
    PROVE  Wrapped(Wrap(type, half, crc, payload), type, half, crc, payload)
<1> DEFINE L == Len(payload)
           w == CrcOf(payload)
           t == TypeByte(type, half, crc)
           hi == L \div 256
           lo == L % 256
           h == <<HDR1, HDR2, t, hi, lo>>
           c == IF crc THEN <<w \div 256, w % 256>> ELSE <<>>
           z == <<FLUSH>>
           A == h \o payload
           B == A \o c
           F == B \o z
<1>1. Wrap(type, half, crc, payload) = F
    BY DEF Wrap, TypeByte
<1>2. L \in Nat /\ hi \in Byte /\ lo \in Byte
    <2>1. L \in Word
        BY WordOf
    <2> HIDE DEF L
    <2>2. L \in Nat
        BY <2>1, WordOf
    <2> QED BY <2>1, <2>2, BytesOf
<1>3. w \div 256 \in Byte /\ w % 256 \in Byte
    <2>1. w \in Word
        BY CrcIs
    <2> HIDE DEF w
    <2> QED BY <2>1, BytesOf
<1>4. HDR1 \in Byte /\ HDR2 \in Byte /\ FLUSH \in Byte /\ t \in Byte
    <2>1. HDR1 \in Byte /\ HDR2 \in Byte /\ FLUSH \in Byte
        BY DEF HDR1, HDR2, FLUSH, Byte
    <2>2. t \in Byte
        BY TypeByteIs
    <2> QED BY <2>1, <2>2
<1> HIDE DEF t, hi, lo, w
<1>5. /\ h \in Seq(Byte) /\ Len(h) = 5
      /\ h[1] = HDR1 /\ h[2] = HDR2 /\ h[3] = t /\ h[4] = hi /\ h[5] = lo
    BY <1>2, <1>4
<1>6. /\ c \in Seq(Byte) /\ Len(c) = Trailer(crc) - 1 /\ Trailer(crc) \in Nat
      /\ crc => c[1] = w \div 256 /\ c[2] = w % 256 /\ Len(c) = 2
    BY <1>3 DEF Trailer
<1>6a. ASSUME crc PROVE c[1] = w \div 256 /\ c[2] = w % 256 /\ Len(c) = 2
    <2>1. c = <<w \div 256, w % 256>>
        BY <1>6a
    <2> HIDE DEF c
    <2> QED BY <2>1
<1>7. z \in Seq(Byte) /\ Len(z) = 1 /\ z[1] = FLUSH
    BY <1>4
<1> HIDE DEF h, c, z
<1>8. /\ A \in Seq(Byte) /\ Len(A) = 5 + L
      /\ \A i \in 1 .. 5 : A[i] = h[i]
      /\ \A i \in 1 .. L : A[5 + i] = payload[i]
    <2>1. IsJoin(A, h, payload)
        BY <1>5, Joins
    <2> HIDE DEF A
    <2> QED BY <1>5, <2>1 DEF IsJoin
<1> HIDE DEF A
<1>9. /\ B \in Seq(Byte) /\ Len(B) = 5 + L + Len(c)
      /\ \A i \in 1 .. 5 + L : B[i] = A[i]
      /\ \A i \in 1 .. Len(c) : B[5 + L + i] = c[i]
    <2>1. IsJoin(B, A, c)
        BY <1>6, <1>8, Joins
    <2> HIDE DEF B
    <2> QED BY <1>8, <2>1 DEF IsJoin
<1> HIDE DEF B
<1>10. /\ F \in Seq(Byte) /\ Len(F) = 5 + L + Trailer(crc)
       /\ \A i \in 1 .. 5 + L + Len(c) : F[i] = B[i]
       /\ F[5 + L + Trailer(crc)] = FLUSH
    <2>1. IsJoin(F, B, z)
        BY <1>7, <1>9, Joins
    <2>2. 1 \in 1 .. Len(z) /\ Len(B) + 1 = 5 + L + Trailer(crc)
        BY <1>2, <1>6, <1>7, <1>9
    <2> HIDE DEF F
    <2>3. F[Len(B) + 1] = FLUSH
        BY <1>7, <2>1, <2>2 DEF IsJoin
    <2> QED BY <1>7, <1>9, <2>1, <2>2, <2>3 DEF IsJoin
<1> HIDE DEF F
<1>11. \A i \in 1 .. 5 : F[i] = h[i]
    <2> TAKE i \in 1 .. 5
    <2>1. i \in 1 .. 5 + L /\ i \in 1 .. 5 + L + Len(c)
        BY <1>2, <1>6
    <2> QED BY <1>8, <1>9, <1>10, <2>1, SMTT(30)
<1>12. \A j \in 1 .. L : F[5 + j] = payload[j]
    <2> TAKE j \in 1 .. L
    <2> DEFINE k == 5 + j
    <2>1. k \in 1 .. 5 + L /\ k \in 1 .. 5 + L + Len(c)
        BY <1>2, <1>6
    <2>2. A[k] = payload[j]
        BY <1>8
    <2> HIDE DEF k
    <2>3. F[k] = payload[j]
        BY <1>9, <1>10, <2>1, <2>2
    <2> QED BY <2>3 DEF k
<1>13. ASSUME crc PROVE F[5 + L + 1] = w \div 256 /\ F[5 + L + 2] = w % 256
    <2> DEFINE m == 5 + L
               j == m + 1
               k == m + 2
    <2>0. Len(c) = 2 /\ c[1] = w \div 256 /\ c[2] = w % 256
        BY <1>6a, <1>13
    <2>1. m \in Nat
        BY <1>2
    <2>2. /\ \A i \in 1 .. 2 : B[m + i] = c[i]
          /\ \A i \in 1 .. m + 2 : F[i] = B[i]
        BY <1>9, <1>10, <2>0
    <2> HIDE DEF m
    <2>3. j \in 1 .. m + 2 /\ k \in 1 .. m + 2
        BY <2>1
    <2>4. B[j] = c[1] /\ B[k] = c[2]
        BY <2>2
    <2> HIDE DEF j, k
    <2>5. F[j] = w \div 256 /\ F[k] = w % 256
        BY <2>0, <2>2, <2>3, <2>4
    <2> QED BY <2>5 DEF j, k, m
<1>14. F[1] = HDR1 /\ F[2] = HDR2 /\ F[3] = t /\ F[4] = hi /\ F[5] = lo
    BY <1>5, <1>11
<1>15. Wrapped(F, type, half, crc, payload)
    BY <1>10, <1>12, <1>13, <1>14 DEF Wrapped, t, hi, lo, w
<1> QED BY <1>1, <1>15

(***************************************************************************)
(* What encode_frame packs, and what it makes of it.                       *)
(***************************************************************************)
Difference(type, frame, prev) ==
    IF IsDelta(type) THEN [i \in 1 .. Len(frame) |-> Xor(frame[i], prev[i])] ELSE frame

PayloadOf(type, data) == IF IsRaw(type) THEN data ELSE PackBits(data)

LEMMA EncodeIs ==
    ASSUME NEW type \in 0 .. 5, NEW half, NEW crc, NEW frame, NEW prev
    PROVE  Encode(type, half, crc, frame, prev)
           = Wrap(type, half, crc, PayloadOf(type, Difference(type, frame, prev)))
<1>1. type \in {0, 1, 2, 3, 4, 5}
    OBVIOUS
<1> USE DEF IsRaw, IsDelta, RAW, RLE, DRLE, RAW2, RLE2, DRLE2
<1>2. CASE type \in {0, 3}
    BY <1>2 DEF Encode, PayloadOf, Difference
<1>3. CASE type \in {1, 4}
    BY <1>3 DEF Encode, PayloadOf, Difference
<1>4. CASE type \in {2, 5}
    BY <1>4 DEF Encode, PayloadOf, Difference
<1> QED BY <1>1, <1>2, <1>3, <1>4

(* A payload is no longer than its length's sixteen bits can tell, as      *)
(* packing at most doubles it, and it is not empty.                        *)
LEMMA PayloadIs ==
    ASSUME NEW type, NEW data \in Seq(Byte), Len(data) \in 1 .. 2 * Size
    PROVE  /\ PayloadOf(type, data) \in Seq(Byte)
           /\ Len(PayloadOf(type, data)) >= 1 /\ Len(PayloadOf(type, data)) <= 65535
<1> DEFINE N == Len(data)
           P == PackBits(data)
<1>1. Size \in Nat /\ 4 * Size <= 65535
    <2>1. Stride \in Nat /\ Rows \in Nat /\ 4 * Stride * Rows <= 65535
        BY StreamCodecAssumption
    <2>2. 4 * Stride * Rows = 4 * (Stride * Rows) /\ Stride * Rows \in Nat
        BY <2>1
    <2> QED BY <2>1, <2>2 DEF Size
<1>2. N \in 1 .. 2 * Size
    OBVIOUS
<1>3. P \in Seq(Byte) /\ Len(P) <= 2 * N /\ Len(P) >= 1
    <2>1. 1 \in 1 .. N + 1 /\ 1 <= N /\ 2 * (N + 1 - 1) = 2 * N
        BY <1>1, <1>2
    <2>2. /\ Packed(data)[1] \in Seq(Byte) /\ Len(Packed(data)[1]) <= 2 * (N + 1 - 1)
          /\ Len(Packed(data)[1]) >= 1
        BY <2>1, PackedType DEF PackedWell
    <2> QED BY <2>1, <2>2 DEF PackBits
<1> HIDE DEF P, N
<1>4. Len(P) \in Nat
    BY <1>3
<1>5. N \in Nat /\ N >= 1 /\ N <= 2 * Size
    BY <1>1, <1>2
<1>6. Len(P) <= 65535 /\ N <= 65535
    <2>1. \A a, b, c \in Nat : a <= 2 * b /\ b <= 2 * c /\ 4 * c <= 65535 => a <= 65535 /\ b <= 65535
        OBVIOUS
    <2>2. Len(P) <= 2 * N
        BY <1>3
    <2> QED BY <1>1, <1>4, <1>5, <2>1, <2>2
<1>7. Len(P) >= 1 /\ N >= 1
    BY <1>3, <1>5
<1>8. CASE IsRaw(type)
    <2>1. PayloadOf(type, data) = data
        BY <1>8 DEF PayloadOf
    <2> QED BY <1>6, <1>7, <2>1 DEF N
<1>9. CASE ~IsRaw(type)
    <2>1. PayloadOf(type, data) = P
        BY <1>9 DEF PayloadOf, P
    <2>2. P \in Seq(Byte)
        BY <1>3
    <2> QED BY <1>6, <1>7, <2>1, <2>2
<1> QED BY <1>8, <1>9

(***************************************************************************)
(* The bytes of a frame by plane and offset.                               *)
(***************************************************************************)
Wired(half) == [1 .. PlaneOf(half) -> Byte]

(* How many bytes of planes a frame is made of, and where one of them is.  *)
FrameSize(type, half) == IF IsDual(type) THEN 2 * PlaneOf(half) ELSE PlaneOf(half)

IndexOf(half, p, o) == IF p = "bw" THEN o ELSE PlaneOf(half) + o

LEMMA PlaneSize ==
    ASSUME NEW half \in BOOLEAN
    PROVE  PlaneOf(half) \in Nat \ {0} /\ PlaneOf(half) <= Size /\ Size \in Nat
<1>1. PICK h \in Nat \ {0}, r \in Nat \ {0} :
          /\ Stride = 2 * h /\ Rows = 2 * r /\ Stride \div 2 = h
          /\ h * r \in Nat \ {0} /\ Size = 4 * (h * r) /\ Size \div 4 = h * r
    BY Halved
<1> QED BY <1>1 DEF PlaneOf

LEMMA IsFrame ==
    ASSUME NEW n \in Nat, NEW f \in [1 .. n -> Byte]
    PROVE  f \in Seq(Byte) /\ Len(f) = n
OBVIOUS

LEMMA JoinedIs ==
    ASSUME NEW type, NEW half \in BOOLEAN, NEW planes,
           \A p \in Carries(type) : planes[p] \in Wired(half)
    PROVE  /\ Joined(type, planes) \in Seq(Byte)
           /\ Len(Joined(type, planes)) = FrameSize(type, half)
           /\ \A p \in Carries(type), o \in 0 .. PlaneOf(half) - 1 :
                 /\ IndexOf(half, p, o) + 1 \in 1 .. FrameSize(type, half)
                 /\ Joined(type, planes)[IndexOf(half, p, o) + 1] = planes[p][o + 1]
<1> DEFINE n == PlaneOf(half)
           J == Joined(type, planes)
<1>1. n \in Nat
    BY PlaneSize
<1> HIDE DEF n
<1>2. planes["bw"] \in Seq(Byte) /\ Len(planes["bw"]) = n
    BY <1>1, IsFrame DEF Wired, n, Carries, Both
<1>3. CASE ~IsDual(type)
    <2>1. J = planes["bw"]
        BY <1>3 DEF Joined
    <2>2. Carries(type) = {"bw"} /\ FrameSize(type, half) = n
        BY <1>3 DEF Carries, FrameSize, n
    <2>3. ASSUME NEW o \in 0 .. n - 1 PROVE o + 1 \in 1 .. n /\ IndexOf(half, "bw", o) = o
        BY <1>1 DEF IndexOf
    <2> QED BY <1>2, <2>1, <2>2, <2>3 DEF n
<1>4. CASE IsDual(type)
    <2>1. J = planes["bw"] \o planes["red"]
        BY <1>4 DEF Joined
    <2>2. Carries(type) = {"bw", "red"} /\ FrameSize(type, half) = 2 * n
        BY <1>4 DEF Carries, FrameSize, Both, n
    <2>3. planes["red"] \in Seq(Byte) /\ Len(planes["red"]) = n
        BY <1>1, <2>2, IsFrame DEF Wired, n
    <2>4. IsJoin(J, planes["bw"], planes["red"])
        BY <1>2, <2>1, <2>3, Joins
    <2> HIDE DEF J
    <2>5. /\ J \in Seq(Byte) /\ Len(J) = n + n
          /\ \A i \in 1 .. n : J[i] = planes["bw"][i]
          /\ \A i \in 1 .. n : J[n + i] = planes["red"][i]
        BY <1>2, <2>3, <2>4 DEF IsJoin
    <2>6. ASSUME NEW p \in Carries(type), NEW o \in 0 .. n - 1
          PROVE  /\ IndexOf(half, p, o) + 1 \in 1 .. 2 * n
                 /\ J[IndexOf(half, p, o) + 1] = planes[p][o + 1]
        <3> DEFINE i == o + 1
        <3>1. i \in 1 .. n /\ n + i = (n + o) + 1
            BY <1>1
        <3>2. CASE p = "bw"
            BY <1>1, <2>5, <3>1, <3>2 DEF IndexOf
        <3>3. CASE p # "bw"
            <4>1. p = "red" /\ IndexOf(half, p, o) = n + o
                BY <2>2, <3>3 DEF IndexOf, n
            <4>2. J[n + i] = planes["red"][i]
                BY <2>5, <3>1
            <4>3. n + i \in 1 .. 2 * n
                BY <1>1, <3>1
            <4> QED BY <3>1, <4>1, <4>2, <4>3
        <3> QED BY <3>2, <3>3
    <2>7. n + n = 2 * n
        BY <1>1
    <2> QED BY <2>2, <2>5, <2>6, <2>7 DEF n, J
<1> QED BY <1>3, <1>4

(* What encode_frame packs: the planes, or what changed in them.           *)
Changed(type, b, old) == IF IsDelta(type) THEN Xor(b, old) ELSE b

DataOf(type, new, old) == Difference(type, Joined(type, new), Joined(type, old))

Packs(data, type, half, new, old) ==
    /\ data \in Seq(Byte) /\ Len(data) = FrameSize(type, half)
    /\ \A p \in Carries(type), o \in 0 .. PlaneOf(half) - 1 :
          data[IndexOf(half, p, o) + 1] = Changed(type, new[p][o + 1], old[p][o + 1])

LEMMA DataIs ==
    ASSUME NEW type, NEW half \in BOOLEAN, NEW new, NEW old,
           \A p \in Carries(type) : new[p] \in Wired(half),
           IsDelta(type) => \A p \in Carries(type) : old[p] \in Wired(half)
    PROVE  /\ Packs(DataOf(type, new, old), type, half, new, old)
           /\ Len(DataOf(type, new, old)) \in 1 .. 2 * Size
<1> DEFINE n == PlaneOf(half)
           N == FrameSize(type, half)
           J == Joined(type, new)
           K == Joined(type, old)
           D == DataOf(type, new, old)
<1>1. n \in Nat \ {0} /\ n <= Size /\ Size \in Nat
    BY PlaneSize
<1>2. N \in {n, 2 * n}
    BY DEF FrameSize
<1>3. /\ J \in Seq(Byte) /\ Len(J) = N
      /\ \A p \in Carries(type), o \in 0 .. PlaneOf(half) - 1 :
                 /\ IndexOf(half, p, o) + 1 \in 1 .. N
                 /\ J[IndexOf(half, p, o) + 1] = new[p][o + 1]
    BY JoinedIs
<1> HIDE DEF n, N, J
<1>4. N \in 1 .. 2 * Size /\ N \in Nat
    BY <1>1, <1>2
<1>5. Packs(D, type, half, new, old)
    <2>1. CASE ~IsDelta(type)
        <3>1. D = J
            BY <2>1 DEF DataOf, Difference, J
        <3> HIDE DEF D
        <3> QED BY <1>3, <2>1, <3>1 DEF Packs, Changed, N
    <2>2. CASE IsDelta(type)
        <3>1. /\ K \in Seq(Byte) /\ Len(K) = N
              /\ \A p \in Carries(type), o \in 0 .. PlaneOf(half) - 1 :
                 K[IndexOf(half, p, o) + 1] = old[p][o + 1]
            BY <2>2, JoinedIs DEF N
        <3>2. D = [i \in 1 .. N |-> Xor(J[i], K[i])]
            BY <1>3, <2>2 DEF DataOf, Difference, J
        <3> HIDE DEF D, K
        <3>3. \A i \in 1 .. N : J[i] \in Byte /\ K[i] \in Byte
            BY <1>3, <3>1
        <3>4. \A i \in 1 .. N : Xor(J[i], K[i]) \in Byte
            BY <3>3, BytesXor
        <3>5. D \in [1 .. N -> Byte]
            BY <3>2, <3>4
        <3>6. D \in Seq(Byte) /\ Len(D) = N
            BY <1>4, <3>5, IsFrame
        <3>7. ASSUME NEW p \in Carries(type), NEW o \in 0 .. PlaneOf(half) - 1
              PROVE  D[IndexOf(half, p, o) + 1] = Changed(type, new[p][o + 1], old[p][o + 1])
            <4> DEFINE i == IndexOf(half, p, o) + 1
            <4>1. i \in 1 .. N /\ J[i] = new[p][o + 1] /\ K[i] = old[p][o + 1]
                BY <1>3, <3>1
            <4> HIDE DEF i
            <4>2. D[i] = Xor(new[p][o + 1], old[p][o + 1])
                BY <3>2, <4>1
            <4> QED BY <2>2, <4>2 DEF i, Changed
        <3> QED BY <3>6, <3>7 DEF Packs, N
    <2> QED BY <2>1, <2>2
<1> QED BY <1>4, <1>5 DEF Packs, N

(***************************************************************************)
(* The host's side: what it has sent is of its session's resolution, and   *)
(* stands for what it means the panel to show.                             *)
(***************************************************************************)
SessionOK == session # None => session \in [half : BOOLEAN, crc : BOOLEAN]

MeansIt ==
    session # None => \A p \in Both : sent[p] # None =>
        sent[p] \in Wired(session.half) /\ meant[p] = Meant(sent[p], session.half)

HostInv == Carried /\ SessionOK /\ MeansIt

(* The data of the frame a host sends.                                     *)
LEMMA PicturesAre ==
    ASSUME NEW half \in BOOLEAN, NEW q \in Pictures[half]
    PROVE  \A p \in Both : q[p] \in Wired(half)
<1>1. q \in [Both -> [1 .. (IF half THEN Size \div 4 ELSE Size) -> Byte]]
    BY VStreamAssumption
<1> QED BY <1>1 DEF Wired, PlaneOf

LEMMA TypesAre == \A type \in Types : type \in 0 .. 5
BY VStreamAssumption DEF RAW, DRLE2

LEMMA FrameSent ==
    ASSUME HostInv, NEW type \in Types, NEW new, SendFrame(type, new)
    PROVE  /\ session \in [half : BOOLEAN, crc : BOOLEAN] /\ type \in 0 .. 5
           /\ \A p \in Both : new[p] \in Wired(session.half)
           /\ IsDelta(type) => \A p \in Carries(type) : sent[p] \in Wired(session.half)
           /\ Packs(DataOf(type, new, sent), type, session.half, new, sent)
           /\ PayloadOf(type, DataOf(type, new, sent)) \in Seq(Byte)
           /\ Len(PayloadOf(type, DataOf(type, new, sent))) >= 1
           /\ Len(PayloadOf(type, DataOf(type, new, sent))) <= 65535
           /\ Wrapped(wire', type, session.half, session.crc, PayloadOf(type, DataOf(type, new, sent)))
<1> DEFINE half == session.half
           data == DataOf(type, new, sent)
<1>1. session # None /\ session \in [half : BOOLEAN, crc : BOOLEAN] /\ new \in Pictures[half]
    BY DEF SendFrame, HostInv, SessionOK
<1>2. half \in BOOLEAN /\ session.crc \in BOOLEAN /\ type \in 0 .. 5
    BY <1>1, TypesAre
<1>3. \A p \in Both : new[p] \in Wired(half)
    BY <1>1, <1>2, PicturesAre
<1>4. Carries(type) \subseteq Both
    BY DEF Carries, Both
<1>5. IsDelta(type) => \A p \in Carries(type) : sent[p] \in Wired(half)
    BY <1>1, <1>4 DEF SendFrame, HostInv, MeansIt
<1>6. Packs(data, type, half, new, sent) /\ Len(data) \in 1 .. 2 * Size
    <2> HIDE DEF half, data
    <2>1. \A p \in Carries(type) : new[p] \in Wired(half)
        BY <1>3, <1>4
    <2> QED BY <1>2, <1>5, <2>1, DataIs DEF data
<1>7. data \in Seq(Byte)
    BY <1>6 DEF Packs
<1>8. wire' = Encode(type, half, session.crc, Joined(type, new), Joined(type, sent))
    BY DEF SendFrame
<1>9. wire' = Wrap(type, half, session.crc, PayloadOf(type, data))
    BY <1>2, <1>8, EncodeIs DEF DataOf
<1> HIDE DEF data
<1>10. /\ PayloadOf(type, data) \in Seq(Byte)
       /\ Len(PayloadOf(type, data)) >= 1 /\ Len(PayloadOf(type, data)) <= 65535
    BY <1>6, <1>7, PayloadIs
<1>11. Wrapped(wire', type, half, session.crc, PayloadOf(type, data))
    BY <1>2, <1>9, <1>10, WrapBytes
<1> QED BY <1>1, <1>2, <1>3, <1>5, <1>6, <1>10, <1>11 DEF data

LEMMA HostStep ==
    ASSUME HostInv, Next
    PROVE  HostInv'
<1>1. ASSUME wire' \in Seq(Byte), session' \in {session, None}, UNCHANGED <<sent, meant>>
      PROVE  HostInv'
    BY <1>1 DEF HostInv, Carried, SessionOK, MeansIt
<1>2. wire \in Seq(Byte)
    BY DEF HostInv, Carried
<1>3. CASE Host
    <2>1. CASE Disconnect
        BY <1>1, <2>1 DEF Disconnect
    <2>2. CASE Corrupt
        <3>1. wire # <<>> /\ wire' = [wire EXCEPT ![1] = Xor(@, 1)]
              /\ UNCHANGED <<session, sent, meant>>
            BY <2>2 DEF Corrupt
        <3>2. 1 \in 1 .. Len(wire) /\ Len(wire) \in Nat
            <4>1. Len(wire) \in Nat \ {0}
                BY <1>2, <3>1, EmptySeq
            <4> QED BY <4>1
        <3>3. Xor(wire[1], 1) \in Byte
            <4>1. wire[1] \in Byte
                BY <1>2, <3>2, ElementOfSeq
            <4>2. 1 \in Byte
                BY DEF Byte
            <4> QED BY <4>1, <4>2, BytesXor
        <3>4. wire' \in Seq(Byte)
            BY <1>2, <3>1, <3>2, <3>3, ExceptSeq
        <3> QED BY <1>1, <3>1, <3>4
    <2>3. ASSUME NEW type \in Types, NEW half \in BOOLEAN, NEW new \in Pictures[half],
                 SendFrame(type, new)
          PROVE  HostInv'
        <3>1. /\ session \in [half : BOOLEAN, crc : BOOLEAN] /\ session # None
              /\ \A p \in Both : new[p] \in Wired(session.half)
              /\ wire' \in Seq(Byte)
            BY <2>3, FrameSent DEF Wrapped, SendFrame
        <3>2. /\ session' = session
              /\ sent' = [p \in Both |-> IF p \in Carries(type) THEN new[p] ELSE sent[p]]
              /\ meant' = [p \in Both |-> IF p \in Carries(type) THEN Meant(new[p], session.half)
                                          ELSE meant[p]]
            BY <2>3 DEF SendFrame
        <3>3. MeansIt'
            BY <3>1, <3>2 DEF HostInv, MeansIt, Wired, PlaneOf
        <3> QED BY <3>1, <3>2, <3>3 DEF HostInv, Carried, SessionOK
    <2>4. ASSUME NEW second \in {VIDEO_STOP2, PHOTO_STOP2}, SendStop(second)
          PROVE  HostInv'
        <3>1. wire' = <<STOP1, second>> /\ session' = None /\ UNCHANGED <<sent, meant>>
            BY <2>4 DEF SendStop
        <3>2. STOP1 \in Byte /\ second \in Byte
            BY DEF STOP1, VIDEO_STOP2, PHOTO_STOP2, Byte
        <3>3. <<STOP1, second>> \in Seq(Byte)
            BY <3>2
        <3> QED BY <1>1, <3>1, <3>3
    <2>5. ASSUME NEW n \in {1, Len(wire)}, Lose(n)
          PROVE  HostInv'
        <3>1. n \in Nat /\ n <= Len(wire) /\ Len(wire) \in Nat
              /\ wire' = SubSeq(wire, n + 1, Len(wire)) /\ UNCHANGED <<session, sent, meant>>
            BY <1>2, <2>5 DEF Lose
        <3>2. wire' \in Seq(Byte)
            BY <1>2, <3>1
        <3> QED BY <1>1, <3>1, <3>2
    <2>6. CASE Connect \/ \E c \in {"start", "stop"} : Ask(c)
        BY <1>1, <1>2, <2>6 DEF Connect, Ask
    <2> QED BY <1>3, <2>1, <2>2, <2>3, <2>4, <2>5, <2>6 DEF Host
<1>4. CASE Receive
    <2>1. CASE FlushShows
        BY <1>1, <1>2, <2>1 DEF FlushShows, hostVars
    <2>2. CASE ~FlushShows
        <3>1. wire # <<>> /\ wire' = Tail(wire) /\ UNCHANGED <<session, sent, meant>>
            BY <1>4, <2>2 DEF Receive, Ignored, HeaderByte, DataByte, FlushMissing, Flush, StopByte,
                              Received, Arrives
        <3>2. wire' \in Seq(Byte)
            BY <1>2, <3>1, HeadTailProperties
        <3> QED BY <1>1, <3>1, <3>2
    <2> QED BY <2>1, <2>2
<1>5. CASE Command
    <2>1. CASE CmdStop \/ CmdStart \/ CmdPrimes
        BY <1>1, <1>2, <2>1 DEF CmdStop, CmdStart, CmdPrimes, hostVars
    <2>2. ASSUME NEW s \in Sessions, CmdReady(s) PROVE HostInv'
        <3>1. wire' = wire /\ session' \in {s, None} /\ sent' = [p \in Both |-> None]
            BY <2>2 DEF CmdReady
        <3>2. s \in [half : BOOLEAN, crc : BOOLEAN]
            BY VStreamAssumption
        <3> QED BY <1>2, <3>1, <3>2 DEF HostInv, Carried, SessionOK, MeansIt
    <2> QED BY <1>5, <2>1, <2>2 DEF Command
<1>6. CASE WatchdogFires \/ \E t \in Thread : Teardown(t)
    BY <1>1, <1>2, <1>6 DEF WatchdogFires, Teardown, TearBegins, TearStops, TearDrops, TearEnds,
                            hostVars
<1> QED BY <1>3, <1>4, <1>5, <1>6 DEF Next

(* What the link carries are bytes, however a frame was packed: a packed   *)
(* frame's length fits its two bytes.  (encode_frame, vs_wrap)             *)
THEOREM BytesAreCarried == Spec => []Carried
<1>1. Init => HostInv
    BY DEF Init, HostInv, Carried, SessionOK, MeansIt
<1>2. HostInv /\ [Next]_vars => HostInv'
    <2>1. CASE UNCHANGED vars
        BY <2>1 DEF vars, hostVars, HostInv, Carried, SessionOK, MeansIt
    <2> QED BY <2>1, HostStep
<1>3. HostInv => Carried
    BY DEF HostInv
<1> QED BY <1>1, <1>2, <1>3, PTL DEF Spec

-----------------------------------------------------------------------------
(* Whatever bytes come, lost, damaged or out of place, the decoder never   *)
(* counts past the end of the frame it is in, a run always has bytes left, *)
(* and the planes stay planes.  (vs_process_byte, vs_write_byte)           *)
THEOREM DecoderStays == Spec => []StreamOK
<1>1. StreamOK /\ Carried /\ [Next]_vars => StreamOK'
    BY StepStream
<1> QED BY <1>1, InitStream, BytesAreCarried, PTL DEF Spec

(* A frame under way forgets no row it has marked, and a delta marks every *)
(* row in which it turned something over: what vs_flush_frame hands to     *)
(* write_partial_stream_rows is all that changed.                          *)
Marks ==
    DataByte \/ Flush =>
        /\ dec'.y0 <= dec.y0 /\ dec.y1 <= dec'.y1 /\ dec.dec <= dec'.dec
        /\ IsDelta(dec.type) =>
              \A p \in Both, c \in Cells : fb'[p][c] # fb[p][c] => Marked(dec', c)

THEOREM DeltaIsMarked == Spec => [][Marks]_vars
<1>1. StreamOK /\ Carried /\ [Next]_vars => [Marks]_vars
    BY DataByteKeeps, FlushKeeps DEF Marks, Advances, With, Both
<1> QED BY <1>1, DecoderStays, BytesAreCarried, PTL DEF Spec

-----------------------------------------------------------------------------
(***************************************************************************)
(* The panel and the frame buffer.  A delta frame writes the rows it       *)
(* touched only, so that between two frames the panel must lack nothing    *)
(* else.  A frame dropped for want of its flush breaks that (its deltas    *)
(* are in the frame buffer, its rows are forgotten); the link has then     *)
(* lost or damaged something of it: a host's own frames end in a flush.    *)
(***************************************************************************)
EndsInFlush == FlushMissing => "bw" \in damaged

Lacking == \A c \in Cells : fb.bw[c] # ram.bw[c] => Marked(dec, c)

SyncInv ==
    /\ vs_poisoned => "bw" \in damaged
    /\ pc["cmd"] = "ready" => fb.bw = ram.bw
    /\ vstream_active /\ "bw" \notin damaged =>
          \/ fb.bw = ram.bw
          \/ dec.at \in InFrame /\ (IsDelta(dec.type) => Lacking)

(* The rest of a header, and the bytes of a checksum.                      *)
LEMMA HeaderStays ==
    ASSUME NEW d \in Decoder, NEW b, d.at \in {"CRC_HI", "CRC_LO"}
    PROVE  /\ Header(d, b).at \in InFrame
           /\ Header(d, b).type = d.type
           /\ Header(d, b).y0 = d.y0 /\ Header(d, b).y1 = d.y1
<1> DEFINE e == Header(d, b)
<1>1. CASE d.at = "CRC_HI"
    <2>1. e = [d EXCEPT !.crc_rx = b * 256, !.at = "CRC_LO"]
        BY <1>1 DEF Header
    <2> HIDE DEF e
    <2>2. e.at = "CRC_LO" /\ e.type = d.type /\ e.y0 = d.y0 /\ e.y1 = d.y1
        BY <2>1 DEF Decoder
    <2> QED BY <2>2 DEF InFrame, e
<1>2. CASE d.at = "CRC_LO"
    <2>1. e = [d EXCEPT !.crc_rx = @ + b, !.at = "FLUSH_WAIT"]
        BY <1>2 DEF Header
    <2> HIDE DEF e
    <2>2. e.at = "FLUSH_WAIT" /\ e.type = d.type /\ e.y0 = d.y0 /\ e.y1 = d.y1
        BY <2>1 DEF Decoder
    <2> QED BY <2>2 DEF InFrame, e
<1> QED BY <1>1, <1>2

(* A delta's bytes mark what they add to what the panel lacks.             *)
LEMMA LackingOn ==
    ASSUME StreamOK, StreamOK', Advances(With(dec, fb), With(dec', fb')), IsDelta(dec.type),
           ram' = ram, fb.bw = ram.bw \/ Lacking
    PROVE  Lacking' /\ IsDelta(dec'.type)
<1>1. /\ dec'.type = dec.type /\ dec'.y0 <= dec.y0 /\ dec.y1 <= dec'.y1
      /\ \A c \in Cells : fb'.bw[c] # fb.bw[c] => Marked(dec', c)
    BY DEF Advances, With
<1>2. /\ dec.y0 \in Int /\ dec.y1 \in Int /\ dec'.y0 \in Int /\ dec'.y1 \in Int
    BY DEF StreamOK, DecoderOK, Decoder
<1>3. ASSUME NEW c \in Cells, Marked(dec, c) PROVE Marked(dec', c)
    <2>1. c \div Stride \in Int
        BY RowOfCell
    <2> QED BY <1>1, <1>2, <1>3, <2>1 DEF Marked
<1>4. ASSUME NEW c \in Cells, fb'.bw[c] # ram.bw[c] PROVE Marked(dec', c)
    <2>1. CASE fb'.bw[c] # fb.bw[c]
        BY <1>1, <2>1
    <2>2. CASE fb'.bw[c] = fb.bw[c]
        BY <1>3, <1>4, <2>2 DEF Lacking
    <2> QED BY <2>1, <2>2
<1> QED BY <1>1, <1>4 DEF Lacking

(* Two planes with the same bytes are the same.                            *)
LEMMA SamePlane ==
    ASSUME NEW p \in Planes, NEW q \in Planes, \A c \in Cells : p.bw[c] = q.bw[c]
    PROVE  p.bw = q.bw
<1>1. p.bw \in Plane /\ q.bw \in Plane
    BY DEF Planes
<1> QED BY <1>1 DEF Plane

(* A frame shown leaves nothing out.                                       *)
LEMMA ShowsAll ==
    ASSUME StreamOK, StreamOK', SyncInv, FlushShows, vstream_active, "bw" \notin damaged
    PROVE  ram'.bw = fb.bw
<1>1. CASE ~IsDelta(dec.type)
    BY <1>1, ShowsLoad
<1>2. CASE IsDelta(dec.type)
    <2>1. fb.bw = ram.bw \/ Lacking
        BY <1>2 DEF SyncInv
    <2>2. ASSUME NEW c \in Cells PROVE ram'.bw[c] = fb.bw[c]
        BY <2>1, ShowsLoad DEF Lacking
    <2>3. ram' \in Planes /\ fb \in Planes
        BY DEF StreamOK
    <2> QED BY <2>2, <2>3, SamePlane
<1> QED BY <1>1, <1>2

(* The frame received.                                                     *)
LEMMA FlushSync ==
    ASSUME IInv, StreamOK, StreamOK', SyncInv, Flush
    PROVE  SyncInv'
<1>1. /\ vs_poisoned' = PoisonedAfter /\ PoisonedAfter \in BOOLEAN /\ vstream_active
      /\ pc["rx"] = "free" /\ ram' = ram /\ dec.at = "FLUSH_WAIT"
    BY PoisonedType DEF Flush, Arrives, panelVars
<1>2. pc["cmd"] # "ready" /\ pc'["cmd"] = pc["cmd"]
    BY <1>1 DEF IInv, ControlOK, CmdAlone, Flush, threadVars, Thread
<1>3. Advances(With(dec, fb), With(dec', fb')) /\ (~PoisonedAfter => dec'.at = "FLUSH_WAIT")
    BY FlushKeeps
<1> DEFINE whole == IF ~CrcBad /\ ~IsDelta(dec.type) /\ DrainAtEnd(With(dec, fb)).d.dec = MaxDec(dec)
                    THEN Carries(dec.type) ELSE {}
           bad == IF CrcBad THEN Carries(dec.type) ELSE {}
<1>4. damaged' = ((damaged \cup bad) \ whole) \cup (IF PoisonedAfter THEN inflight ELSE {})
    BY DEF Flush
<1>5. "bw" \in Carries(dec.type)
    BY DEF Carries, Both
<1>6. CASE PoisonedAfter
    <2>1. CrcBad \/ IsDelta(dec.type)
        BY <1>6 DEF PoisonedAfter
    <2>2. whole = {}
        BY <2>1
    <2>3. "bw" \in damaged \cup bad
        BY <1>5, <1>6 DEF PoisonedAfter, SyncInv
    <2> HIDE DEF whole, bad
    <2>4. "bw" \in damaged'
        BY <1>4, <2>2, <2>3
    <2> QED BY <1>2, <2>4 DEF SyncInv
<1>7. CASE ~PoisonedAfter
    <2>1. ~vs_poisoned' /\ dec'.at \in InFrame
        BY <1>1, <1>3, <1>7 DEF InFrame
    <2>2. IsDelta(dec'.type) <=> IsDelta(dec.type)
        BY <1>3 DEF Advances, With
    <2>3. CASE ~IsDelta(dec.type)
        BY <1>2, <2>1, <2>2, <2>3 DEF SyncInv
    <2>4. CASE IsDelta(dec.type)
        <3>1. whole = {}
            BY <2>4
        <3> HIDE DEF whole, bad
        <3>2. "bw" \in damaged => "bw" \in damaged'
            BY <1>4, <3>1
        <3>3. "bw" \notin damaged => Lacking'
            <4> SUFFICES ASSUME "bw" \notin damaged PROVE Lacking'
                OBVIOUS
            <4>1. fb.bw = ram.bw \/ Lacking
                BY <1>1, <2>4 DEF SyncInv
            <4> QED BY <1>1, <1>3, <2>4, <4>1, LackingOn
        <3> QED BY <1>2, <2>1, <3>2, <3>3 DEF SyncInv
    <2> QED BY <2>3, <2>4
<1> QED BY <1>6, <1>7

(* The other bytes.                                                        *)
LEMMA ByteSync ==
    ASSUME IInv, StreamOK, StreamOK', SyncInv, Carried, EndsInFlush,
           HeaderByte \/ DataByte \/ FlushMissing \/ StopByte
    PROVE  SyncInv'
<1>1. /\ vstream_active /\ pc["rx"] = "free" /\ ram' = ram
      /\ UNCHANGED <<vs_poisoned, vstream_active>> /\ damaged \subseteq damaged'
    BY DEF HeaderByte, DataByte, FlushMissing, StopByte, Arrives, decVars, streamVars, panelVars,
           ghostVars
<1>2. pc["cmd"] # "ready" /\ pc'["cmd"] = pc["cmd"]
    BY <1>1 DEF IInv, ControlOK, CmdAlone, HeaderByte, DataByte, FlushMissing, StopByte,
                threadVars, Thread
<1>3. CASE "bw" \in damaged
    BY <1>1, <1>2, <1>3 DEF SyncInv
<1>4. CASE "bw" \notin damaged
    <2>1. fb.bw = ram.bw \/ (dec.at \in InFrame /\ (IsDelta(dec.type) => Lacking))
        BY <1>1, <1>4 DEF SyncInv
    <2>2. CASE HeaderByte
        <3>1. dec' = Header(dec, Head(wire)) /\ fb' = fb /\ dec.at \notin {"DATA", "FLUSH_WAIT"}
            BY <2>2 DEF HeaderByte
        <3>2. CASE fb.bw = ram.bw
            BY <1>1, <1>2, <3>1, <3>2 DEF SyncInv
        <3>3. CASE dec.at \in InFrame /\ (IsDelta(dec.type) => Lacking)
            <4>1. dec \in Decoder /\ dec.at \in {"CRC_HI", "CRC_LO"}
                BY <3>1, <3>3 DEF InFrame, StreamOK, DecoderOK
            <4>2. /\ dec'.at \in InFrame /\ dec'.type = dec.type
                  /\ dec'.y0 = dec.y0 /\ dec'.y1 = dec.y1
                BY <3>1, <4>1, HeaderStays
            <4>3. IsDelta(dec'.type) => Lacking'
                BY <1>1, <3>1, <3>3, <4>2 DEF Lacking, Marked
            <4> QED BY <1>1, <1>2, <4>2, <4>3 DEF SyncInv
        <3> QED BY <2>1, <3>2, <3>3
    <2>3. CASE DataByte
        <3>1. dec'.at \in InFrame /\ Advances(With(dec, fb), With(dec', fb'))
            BY <2>3, DataByteKeeps
        <3>2. dec'.type = dec.type
            BY <3>1 DEF Advances, With
        <3>3. IsDelta(dec'.type) => Lacking'
            BY <1>1, <2>1, <3>1, <3>2, LackingOn
        <3> QED BY <1>1, <1>2, <3>1, <3>3 DEF SyncInv
    <2>4. CASE FlushMissing
        BY <1>4, <2>4 DEF EndsInFlush
    <2>5. CASE StopByte
        <3>1. fb' = fb /\ dec.at = "STOP2_WAIT"
            BY <2>5 DEF StopByte
        <3>2. fb.bw = ram.bw
            BY <2>1, <3>1 DEF InFrame
        <3> QED BY <1>1, <1>2, <3>1, <3>2 DEF SyncInv
    <2> QED BY <2>2, <2>3, <2>4, <2>5
<1> QED BY <1>3, <1>4

(* Every step keeps the panel in step.                                     *)
LEMMA StepSync ==
    ASSUME IInv, StreamOK, StreamOK', SyncInv, Carried, EndsInFlush, Next
    PROVE  SyncInv'
<1>1. ASSUME UNCHANGED <<dec, fb, ram, vs_poisoned>>, vstream_active' => vstream_active,
             damaged \subseteq damaged', pc'["cmd"] = "ready" => pc["cmd"] = "ready"
      PROVE  SyncInv'
    BY <1>1 DEF SyncInv, Lacking, Marked
<1>2. CASE Host
    <2>1. CASE Disconnect
        <3>1. /\ UNCHANGED <<fb, ram, vs_poisoned, vstream_active>> /\ damaged \subseteq damaged'
              /\ pc'["cmd"] = "ready" => pc["cmd"] = "ready"
              /\ vstream_active => dec' = dec
            BY <2>1 DEF Disconnect, panelVars, IInv, ControlOK, Thread
        <3>2. CASE vstream_active
            BY <1>1, <3>1, <3>2
        <3>3. CASE ~vstream_active
            BY <3>1, <3>3 DEF SyncInv
        <3> QED BY <3>2, <3>3
    <2> QED BY <1>1, <1>2, <2>1 DEF Host, Connect, Corrupt, Ask, SendFrame, SendStop, Lose,
                                    decVars, streamVars, panelVars, threadVars, ghostVars
<1>3. CASE HeaderByte \/ DataByte \/ FlushMissing \/ StopByte
    BY <1>3, ByteSync
<1>4. CASE Flush
    BY <1>4, FlushSync
<1>5. CASE FlushShows
    <2>1. /\ pc["rx"] = "flush" /\ fb' = fb /\ pc'["cmd"] = pc["cmd"]
          /\ UNCHANGED <<vs_poisoned, vstream_active, damaged>>
        BY <1>5 DEF FlushShows, IInv, ControlOK, Thread
    <2>2. pc["cmd"] # "ready"
        BY <2>1 DEF IInv, CmdAlone
    <2>3. vstream_active /\ "bw" \notin damaged => fb'.bw = ram'.bw
        BY <1>5, <2>1, ShowsAll
    <2> QED BY <2>1, <2>2, <2>3 DEF SyncInv
<1>6. CASE Ignored
    BY <1>1, <1>6 DEF Ignored, decVars, streamVars, panelVars, threadVars, ghostVars
<1>7. CASE Command
    <2>1. CASE CmdStop \/ CmdStart
        BY <1>1, <2>1 DEF CmdStop, CmdStart, Move, decVars, streamVars, panelVars, ghostVars,
                          IInv, ControlOK, Thread
    <2>2. CASE CmdPrimes
        <3>1. /\ fb'.bw = White /\ ram' = [ram EXCEPT !.bw = White] /\ pc["cmd"] = "clear"
              /\ UNCHANGED <<vs_poisoned, vstream_active, damaged>>
            BY <2>2 DEF CmdPrimes, streamVars, ghostVars
        <3>2. ram'.bw = White
            BY <3>1 DEF StreamOK, Planes
        <3>3. ~vstream_active
            BY <3>1 DEF IInv, CmdAlone
        <3> QED BY <3>1, <3>2, <3>3 DEF SyncInv
    <2>3. ASSUME NEW s, CmdReady(s) PROVE SyncInv'
        <3>1. /\ UNCHANGED <<fb, ram>> /\ vs_poisoned' = FALSE /\ pc["cmd"] = "ready"
            BY <2>3 DEF CmdReady, panelVars
        <3> QED BY <3>1 DEF SyncInv
    <2> QED BY <1>7, <2>1, <2>2, <2>3 DEF Command
<1>8. CASE WatchdogFires
    BY <1>1, <1>8 DEF WatchdogFires, Move, decVars, panelVars, threadVars, ghostVars,
                      IInv, ControlOK, Thread
<1>9. ASSUME NEW t \in Thread, Teardown(t) PROVE SyncInv'
    <2>1. CASE TearBegins(t) \/ TearDrops(t) \/ TearEnds(t)
        BY <1>1, <2>1 DEF TearBegins, TearDrops, TearEnds, Move, decVars, streamVars, panelVars,
                          ghostVars, IInv, ControlOK, Thread
    <2>2. CASE TearStops(t)
        <3>1. /\ UNCHANGED <<fb, ram, vs_poisoned, damaged>> /\ pc[t] = "busy"
              /\ pc'["cmd"] = "ready" => pc["cmd"] = "ready"
            BY <2>2 DEF TearStops, Move, panelVars, ghostVars, IInv, ControlOK, Thread
        <3>2. CASE was_active[t]
            <4>1. vstream_active' = FALSE
                BY <2>2, <3>2 DEF TearStops
            <4> QED BY <3>1, <4>1 DEF SyncInv
        <3>3. CASE ~was_active[t]
            <4>1. vstream_active' = vstream_active /\ (t # "rx" => dec' = dec)
                BY <2>2, <3>3 DEF TearStops
            <4>2. t = "rx" => ~vstream_active
                BY <3>1, <3>3 DEF IInv, RxAlone
            <4>3. CASE t = "rx"
                BY <3>1, <4>1, <4>2, <4>3 DEF SyncInv
            <4>4. CASE t # "rx"
                BY <1>1, <3>1, <4>1, <4>4
            <4> QED BY <4>3, <4>4
        <3> QED BY <3>2, <3>3
    <2> QED BY <1>9, <2>1, <2>2 DEF Teardown
<1> QED BY <1>2, <1>3, <1>4, <1>5, <1>6, <1>7, <1>8, <1>9 DEF Next, Receive

(***************************************************************************)
(* Types.                                                                  *)
(***************************************************************************)
CountOK == count \in 0 .. Interval - 1 /\ work \in 0 .. MaxWork /\ linked \in BOOLEAN

Counts ==
    /\ count' = count \/ \E n \in Nat : count' = (count + 1 + n) % Interval
    /\ work' = work \/ (work < MaxWork /\ work' = work + 1)
    /\ linked' = linked \/ linked' = TRUE \/ linked' = FALSE

LEMMA StepCount == CountOK /\ [Next]_vars => CountOK'
<1> SUFFICES ASSUME CountOK, [Next]_vars
             PROVE  CountOK'
    OBVIOUS
<1>1. Counts
    <2> USE DEF Counts, streamVars, hostVars
    <2>1. CASE Host
        BY <2>1 DEF Host, Connect, Disconnect, Corrupt, Ask, SendFrame, SendStop, Lose, Works
    <2>2. CASE Receive
        <3>1. CASE FlushShows
            <4>1. count' = (count + 1) % Interval /\ UNCHANGED <<work, linked>>
                BY <3>1 DEF FlushShows
            <4>2. (count + 1) % Interval = (count + 1 + 0) % Interval
                BY VStreamAssumption DEF CountOK
            <4> QED BY <4>1, <4>2
        <3> QED BY <2>2, <3>1 DEF Receive, Ignored, HeaderByte, DataByte, FlushMissing, Flush, StopByte
    <2>3. CASE Command
        <3>1. CASE CmdPrimes
            <4>1. PICK n \in Others : count' = (count + 1 + n) % Interval
                BY <3>1 DEF CmdPrimes
            <4>2. n \in Nat /\ UNCHANGED <<work, linked>>
                BY <3>1, VStreamAssumption DEF CmdPrimes
            <4> QED BY <4>1, <4>2
        <3> QED BY <2>3, <3>1 DEF Command, CmdStop, CmdStart, CmdReady
    <2>4. CASE WatchdogFires
        BY <2>4 DEF WatchdogFires
    <2>5. ASSUME NEW t \in Thread, Teardown(t)
          PROVE  Counts
        BY <2>5 DEF Teardown, TearBegins, TearStops, TearDrops, TearEnds
    <2>6. CASE UNCHANGED vars
        BY <2>6 DEF vars
    <2> QED BY <2>1, <2>2, <2>3, <2>4, <2>5, <2>6 DEF Next
<1>2. linked' \in BOOLEAN
    BY <1>1 DEF Counts, CountOK
<1>3. count' \in 0 .. Interval - 1 /\ work' \in 0 .. MaxWork
    <2>1. ASSUME NEW n \in Nat PROVE (count + 1 + n) % Interval \in 0 .. Interval - 1
        BY VStreamAssumption DEF CountOK
    <2> QED BY <1>1, <2>1, VStreamAssumption DEF Counts, CountOK
<1> QED BY <1>2, <1>3 DEF CountOK

(* Every variable of the stream keeps its type, and a decoder inside a     *)
(* frame has not counted past its end.                                     *)
THEOREM StreamIsTyped == Spec => []TypeOK
<1>1. Init => CountOK
    <2>1. Init => linked \in BOOLEAN
        BY DEF Init
    <2>2. Init => count \in 0 .. Interval - 1 /\ work \in 0 .. MaxWork
        BY VStreamAssumption DEF Init
    <2> QED BY <2>1, <2>2 DEF CountOK
<1>2. IInv /\ StreamOK /\ CountOK => TypeOK
    <2> SUFFICES ASSUME IInv, StreamOK, CountOK
                 PROVE  TypeOK
        OBVIOUS
    <2>1. dec \in Decoder /\ (dec.dec <= MaxDec(dec) \/ dec.at \notin InFrame)
        BY DEF StreamOK, DecoderOK
    <2>2. ControlOK
        BY DEF IInv
    <2>3. \A b \in {vs_poisoned, vstream_active, watchdog, keep_on, streaming_mode, write_red,
                    saver, on, linked, photo} : b \in BOOLEAN
        BY <2>2 DEF ControlOK, CountOK
    <2>4. /\ pc \in [Thread -> {"free", "clear", "ready", "flush", "cancel", "busy", "drop", "saver"}]
          /\ was_active \in [Thread -> BOOLEAN] /\ restore \in [Thread -> BOOLEAN]
        <3>1. {"free", "clear", "ready", "flush"} \cup Ends
              = {"free", "clear", "ready", "flush", "cancel", "busy", "drop", "saver"}
            BY DEF Ends
        <3> QED BY <2>2, <3>1 DEF ControlOK
    <2> QED BY <2>1, <2>3, <2>4 DEF TypeOK, StreamOK, CountOK, InFrame
<1> QED BY <1>1, <1>2, StepCount, ThreadsAgree, DecoderStays, PTL DEF Spec

-----------------------------------------------------------------------------
(***************************************************************************)
(* Bit by bit.                                                             *)
(***************************************************************************)
Weights == {1, 2, 4, 8}

Bits == [Weights -> {0, 1}]

NibbleFrom(x) == x[1] + 2 * x[2] + 4 * x[4] + 8 * x[8]

Sums(x, y) == [k \in Weights |-> (x[k] + y[k]) % 2]

LEMMA BitsFrom ==
    ASSUME NEW n \in Nibble
    PROVE  \E x \in Bits : n = NibbleFrom(x)
<1> DEFINE x == [k \in Weights |-> (n \div k) % 2]
<1>1. \A k \in Weights : (n \div k) % 2 \in {0, 1}
    BY DEF Nibble, Weights
<1>2. x \in Bits
    BY <1>1 DEF Bits
<1>3. n = (n % 2) + 2 * ((n \div 2) % 2) + 4 * ((n \div 4) % 2) + 8 * ((n \div 8) % 2)
    BY DEF Nibble
<1>4. x[1] = n % 2 /\ x[2] = (n \div 2) % 2 /\ x[4] = (n \div 4) % 2 /\ x[8] = (n \div 8) % 2
    BY DEF Weights, Nibble
<1> HIDE DEF x
<1>5. n = NibbleFrom(x)
    BY <1>3, <1>4 DEF NibbleFrom
<1> QED BY <1>2, <1>5

LEMMA BitsAre ==
    ASSUME NEW x \in Bits
    PROVE  /\ x[1] \in {0, 1} /\ x[2] \in {0, 1} /\ x[4] \in {0, 1} /\ x[8] \in {0, 1}
           /\ NibbleFrom(x) \in Nibble
           /\ NibbleFrom(x) % 2 = x[1] /\ (NibbleFrom(x) \div 2) % 2 = x[2]
           /\ (NibbleFrom(x) \div 4) % 2 = x[4] /\ (NibbleFrom(x) \div 8) % 2 = x[8]
<1> DEFINE a == x[1]
           b == x[2]
           c == x[4]
           d == x[8]
           n == a + 2 * b + 4 * c + 8 * d
<1>1. a \in {0, 1} /\ b \in {0, 1} /\ c \in {0, 1} /\ d \in {0, 1}
    BY DEF Bits, Weights
<1>2. NibbleFrom(x) = n
    BY DEF NibbleFrom
<1> HIDE DEF a, b, c, d
<1>3. n \in Nibble
    BY <1>1 DEF Nibble
<1>4. n % 2 = a
    BY <1>1
<1>5. (n \div 2) % 2 = b
    BY <1>1
<1>6. (n \div 4) % 2 = c
    BY <1>1
<1>7. (n \div 8) % 2 = d
    BY <1>1
<1> HIDE DEF n
<1> QED BY <1>1, <1>2, <1>3, <1>4, <1>5, <1>6, <1>7 DEF a, b, c, d

LEMMA SumsBack ==
    ASSUME NEW x \in Bits, NEW y \in Bits
    PROVE  Sums(x, y) \in Bits /\ Sums(x, Sums(y, x)) = y
<1>1. \A k \in Weights : x[k] \in {0, 1} /\ y[k] \in {0, 1}
    BY DEF Bits
<1>2. \A u, v \in {0, 1} : (u + v) % 2 \in {0, 1} /\ (u + ((v + u) % 2)) % 2 = v
    OBVIOUS
<1>3. \A k \in Weights : (x[k] + y[k]) % 2 \in {0, 1} /\ (x[k] + ((y[k] + x[k]) % 2)) % 2 = y[k]
    BY <1>1, <1>2
<1>4. Sums(x, y) \in Bits
    BY <1>3 DEF Sums, Bits
<1>5. Sums(x, Sums(y, x)) = [k \in Weights |-> y[k]]
    BY <1>3 DEF Sums
<1>6. y = [k \in Weights |-> y[k]]
    BY DEF Bits
<1> QED BY <1>4, <1>5, <1>6

LEMMA XorBits ==
    ASSUME NEW x \in Bits, NEW y \in Bits
    PROVE  XorNibble[<<NibbleFrom(x), NibbleFrom(y)>>] = NibbleFrom(Sums(x, y))
<1> DEFINE a == NibbleFrom(x)
           b == NibbleFrom(y)
           bit(k) == ((a \div k + b \div k) % 2) * k
<1>1. /\ a \in Nibble /\ a % 2 = x[1]
      /\ (a \div 2) % 2 = x[2] /\ (a \div 4) % 2 = x[4] /\ (a \div 8) % 2 = x[8]
    BY BitsAre
<1>2. /\ b \in Nibble /\ b % 2 = y[1]
      /\ (b \div 2) % 2 = y[2] /\ (b \div 4) % 2 = y[4] /\ (b \div 8) % 2 = y[8]
    BY BitsAre
<1> HIDE DEF a, b
<1>3. <<a, b>> \in (0 .. 15) \X (0 .. 15)
    BY <1>1, <1>2 DEF Nibble
<1>4. XorNibble[<<a, b>>] = bit(1) + bit(2) + bit(4) + bit(8)
    BY <1>3 DEF XorNibble
<1>5. \A u, v \in Nat : (u + v) % 2 = ((u % 2) + (v % 2)) % 2
    OBVIOUS
<1>6. a \in Nat /\ b \in Nat /\ a \div 1 = a /\ b \div 1 = b
    BY <1>1, <1>2 DEF Nibble
<1>7. \A k \in {2, 4, 8} : a \div k \in Nat /\ b \div k \in Nat
    BY <1>6
<1> DEFINE s(k) == (x[k] + y[k]) % 2
<1>8. bit(1) = s(1)
    <2>1. (a + b) % 2 = s(1)
        BY <1>1, <1>2, <1>5, <1>6
    <2> HIDE DEF s
    <2>2. (a + b) % 2 \in Int
        BY <1>6
    <2> QED BY <1>6, <2>1, <2>2
<1>9. ((a \div 2 + b \div 2) % 2) = s(2)
    BY <1>1, <1>2, <1>5, <1>7
<1>10. ((a \div 4 + b \div 4) % 2) = s(4)
    BY <1>1, <1>2, <1>5, <1>7
<1>11. ((a \div 8 + b \div 8) % 2) = s(8)
    BY <1>1, <1>2, <1>5, <1>7
<1>12. \A k \in Weights : s(k) = Sums(x, y)[k]
    BY DEF Sums
<1>13. \A k \in Weights : Sums(x, y)[k] \in Int
    BY SumsBack DEF Bits
<1> HIDE DEF s
<1>14. s(1) \in Int /\ s(2) \in Int /\ s(4) \in Int /\ s(8) \in Int
    BY <1>12, <1>13 DEF Weights
<1>15. /\ bit(2) = 2 * s(2) /\ bit(4) = 4 * s(4)
       /\ bit(8) = 8 * s(8)
    BY <1>9, <1>10, <1>11, <1>14
<1> HIDE DEF bit
<1>16. XorNibble[<<a, b>>] = s(1) + 2 * s(2) + 4 * s(4) + 8 * s(8)
    BY <1>4, <1>8, <1>15
<1>17. s(1) + 2 * s(2) + 4 * s(4) + 8 * s(8) = NibbleFrom(Sums(x, y))
    BY <1>12 DEF NibbleFrom, Weights
<1> QED BY <1>16, <1>17 DEF a, b

(* What is turned over twice is as it was.                                 *)
LEMMA NibbleBack ==
    ASSUME NEW a \in Nibble, NEW b \in Nibble
    PROVE  XorNibble[<<a, XorNibble[<<b, a>>]>>] = b
<1>1. PICK x \in Bits : a = NibbleFrom(x)
    BY BitsFrom
<1>2. PICK y \in Bits : b = NibbleFrom(y)
    BY BitsFrom
<1>3. XorNibble[<<b, a>>] = NibbleFrom(Sums(y, x)) /\ Sums(y, x) \in Bits
    BY <1>1, <1>2, XorBits, SumsBack
<1>4. XorNibble[<<a, NibbleFrom(Sums(y, x))>>] = NibbleFrom(Sums(x, Sums(y, x)))
    BY <1>1, <1>3, XorBits
<1> QED BY <1>2, <1>3, <1>4, SumsBack

LEMMA XorIs ==
    ASSUME NEW h1 \in Nibble, NEW l1 \in Nibble, NEW h2 \in Nibble, NEW l2 \in Nibble
    PROVE  Xor(16 * h1 + l1, 16 * h2 + l2) = 16 * XorNibble[<<h1, h2>>] + XorNibble[<<l1, l2>>]
<1>1. \A h, l \in Nibble : (16 * h + l) \div 16 = h /\ (16 * h + l) % 16 = l
    BY DEF Nibble
<1> QED BY <1>1 DEF Xor

LEMMA XorBack ==
    ASSUME NEW a \in Byte, NEW b \in Byte
    PROVE  Xor(a, Xor(b, a)) = b
<1> DEFINE h1 == a \div 16
           l1 == a % 16
           h2 == XorNibble[<<b \div 16, a \div 16>>]
           l2 == XorNibble[<<b % 16, a % 16>>]
<1>1. h1 \in Nibble /\ l1 \in Nibble /\ a = 16 * h1 + l1
    BY NibblesOf
<1>2. b \div 16 \in Nibble /\ b % 16 \in Nibble /\ b = 16 * (b \div 16) + (b % 16)
    BY NibblesOf
<1>3. h2 \in Nibble /\ l2 \in Nibble
    BY <1>1, <1>2, NibblesXor
<1>4. XorNibble[<<h1, h2>>] = b \div 16 /\ XorNibble[<<l1, l2>>] = b % 16
    BY <1>1, <1>2, NibbleBack
<1>5. Xor(b, a) = 16 * h2 + l2
    BY DEF Xor
<1> HIDE DEF h1, l1, h2, l2
<1>6. Xor(16 * h1 + l1, 16 * h2 + l2) = 16 * XorNibble[<<h1, h2>>] + XorNibble[<<l1, l2>>]
    BY <1>1, <1>3, XorIs
<1> QED BY <1>1, <1>2, <1>4, <1>5, <1>6

(* Doubling a nibble, bit by bit.                                          *)
High(x) == [k \in Weights |-> IF k \in {1, 2} THEN x[4] ELSE x[8]]
Low(x) == [k \in Weights |-> IF k \in {1, 2} THEN x[1] ELSE x[2]]

LEMMA DoubledBits ==
    ASSUME NEW x \in Bits
    PROVE  /\ DoubleNibble(NibbleFrom(x)) = 16 * NibbleFrom(High(x)) + NibbleFrom(Low(x))
           /\ High(x) \in Bits /\ Low(x) \in Bits
<1> DEFINE n == NibbleFrom(x)
           bit(k) == ((n \div k) % 2) * 3 * k * k
<1>1. /\ n \in Nibble /\ n % 2 = x[1]
      /\ (n \div 2) % 2 = x[2] /\ (n \div 4) % 2 = x[4] /\ (n \div 8) % 2 = x[8]
    BY BitsAre
<1>2. x[1] \in {0, 1} /\ x[2] \in {0, 1} /\ x[4] \in {0, 1} /\ x[8] \in {0, 1}
    BY BitsAre
<1> HIDE DEF n
<1>3. DoubleNibble(n) = bit(1) + bit(2) + bit(4) + bit(8)
    BY DEF DoubleNibble
<1>4. n \div 1 = n
    BY <1>1 DEF Nibble
<1>5. bit(1) = 3 * x[1]
    BY <1>1, <1>2, <1>4
<1>6. bit(2) = 12 * x[2]
    BY <1>1, <1>2
<1>7. bit(4) = 48 * x[4]
    BY <1>1, <1>2
<1>8. bit(8) = 192 * x[8]
    BY <1>1, <1>2
<1> HIDE DEF bit
<1>9. NibbleFrom(High(x)) = 3 * x[4] + 12 * x[8] /\ NibbleFrom(Low(x)) = 3 * x[1] + 12 * x[2]
    BY <1>2 DEF High, Low, NibbleFrom, Weights
<1>10. DoubleNibble(n) = 16 * NibbleFrom(High(x)) + NibbleFrom(Low(x))
    BY <1>2, <1>3, <1>5, <1>6, <1>7, <1>8, <1>9
<1>11. High(x) \in Bits /\ Low(x) \in Bits
    BY <1>2 DEF High, Low, Bits
<1> QED BY <1>10, <1>11 DEF n

LEMMA DoubleBack ==
    ASSUME NEW a \in Nibble, NEW b \in Nibble
    PROVE  Xor(DoubleNibble(a), DoubleNibble(XorNibble[<<b, a>>])) = DoubleNibble(b)
<1>1. PICK x \in Bits : a = NibbleFrom(x)
    BY BitsFrom
<1>2. PICK y \in Bits : b = NibbleFrom(y)
    BY BitsFrom
<1> DEFINE z == Sums(y, x)
<1>3. XorNibble[<<b, a>>] = NibbleFrom(z) /\ z \in Bits
    BY <1>1, <1>2, XorBits, SumsBack
<1>4. High(z) = Sums(High(y), High(x)) /\ Low(z) = Sums(Low(y), Low(x))
    BY DEF Sums, High, Low, Weights
<1> HIDE DEF z
<1> DEFINE hx == High(x)
           lx == Low(x)
           hy == High(y)
           ly == Low(y)
           hz == High(z)
           lz == Low(z)
<1>5. /\ DoubleNibble(a) = 16 * NibbleFrom(hx) + NibbleFrom(lx) /\ hx \in Bits /\ lx \in Bits
      /\ DoubleNibble(b) = 16 * NibbleFrom(hy) + NibbleFrom(ly) /\ hy \in Bits /\ ly \in Bits
      /\ DoubleNibble(XorNibble[<<b, a>>]) = 16 * NibbleFrom(hz) + NibbleFrom(lz)
      /\ hz \in Bits /\ lz \in Bits
    BY <1>1, <1>2, <1>3, DoubledBits
<1>6. Sums(hx, hz) = hy /\ Sums(lx, lz) = ly
    <2>1. hz = Sums(hy, hx) /\ lz = Sums(ly, lx)
        BY <1>4
    <2> HIDE DEF hx, lx, hy, ly, hz, lz
    <2> QED BY <1>5, <2>1, SumsBack
<1> HIDE DEF hx, lx, hy, ly, hz, lz
<1>7. /\ XorNibble[<<NibbleFrom(hx), NibbleFrom(hz)>>] = NibbleFrom(hy)
      /\ XorNibble[<<NibbleFrom(lx), NibbleFrom(lz)>>] = NibbleFrom(ly)
    BY <1>5, <1>6, XorBits
<1>8. /\ NibbleFrom(hx) \in Nibble /\ NibbleFrom(lx) \in Nibble
      /\ NibbleFrom(hz) \in Nibble /\ NibbleFrom(lz) \in Nibble
    BY <1>5, BitsAre
<1> QED BY <1>5, <1>7, <1>8, XorIs

(* A delta turns what one picture is worth in a cell into what the next is *)
(* worth there (vs_write_byte, vs_nib_dbl).                                *)
LEMMA PartBack ==
    ASSUME NEW half \in BOOLEAN, NEW c, NEW a \in Byte, NEW b \in Byte
    PROVE  Xor(Part(half, c, a), Part(half, c, Xor(b, a))) = Part(half, c, b)
<1>1. CASE ~half
    <2>1. \A x : Part(half, c, x) = x
        BY <1>1 DEF Part
    <2> QED BY <2>1, XorBack
<1>2. CASE half
    <2> DEFINE h == XorNibble[<<b \div 16, a \div 16>>]
               l == XorNibble[<<b % 16, a % 16>>]
    <2>1. /\ a \div 16 \in Nibble /\ a % 16 \in Nibble
          /\ b \div 16 \in Nibble /\ b % 16 \in Nibble
        BY NibblesOf
    <2>2. h \in Nibble /\ l \in Nibble
        BY <2>1, NibblesXor
    <2>3. Xor(b, a) = 16 * h + l
        BY DEF Xor
    <2>4. \A u, v \in Nibble : (16 * u + v) \div 16 = u /\ (16 * u + v) % 16 = v
        BY DEF Nibble
    <2>5. Xor(b, a) \div 16 = h /\ Xor(b, a) % 16 = l
        BY <2>2, <2>3, <2>4
    <2>6. /\ Xor(DoubleNibble(a \div 16), DoubleNibble(h)) = DoubleNibble(b \div 16)
          /\ Xor(DoubleNibble(a % 16), DoubleNibble(l)) = DoubleNibble(b % 16)
        BY <2>1, DoubleBack
    <2> HIDE DEF h, l
    <2>7. CASE c % 2 = 0
        <3>1. \A x : Part(half, c, x) = DoubleNibble(x \div 16)
            BY <1>2, <2>7 DEF Part
        <3> QED BY <2>5, <2>6, <3>1
    <2>8. CASE c % 2 # 0
        <3>1. \A x : Part(half, c, x) = DoubleNibble(x % 16)
            BY <1>2, <2>8 DEF Part
        <3> QED BY <2>5, <2>6, <3>1
    <2> QED BY <2>7, <2>8
<1> QED BY <1>1, <1>2

(***************************************************************************)
(* Where a wire byte lands, and what a cell is meant to hold.              *)
(***************************************************************************)
OffsetOf(half, c) ==
    IF half THEN (Stride \div 2) * ((c \div Stride) \div 2) + (c % Stride) \div 2 ELSE c

(* Every cell is reached, from one place (vs_write_byte).                  *)
LEMMA CellReached ==
    ASSUME NEW half \in BOOLEAN, NEW c \in Cells
    PROVE  /\ OffsetOf(half, c) \in 0 .. PlaneOf(half) - 1
           /\ c \in Places(half, OffsetOf(half, c))
<1>1. CASE ~half
    BY <1>1 DEF OffsetOf, PlaneOf, Places, Cells
<1>2. CASE half
    <2>1. PICK h \in Nat \ {0}, r \in Nat \ {0} :
              /\ Stride = 2 * h /\ Rows = 2 * r /\ Stride \div 2 = h
              /\ h * r \in Nat \ {0} /\ Size = 4 * (h * r) /\ Size \div 4 = h * r
        BY Halved
    <2> DEFINE row == c \div Stride
               col == c % Stride
               y == row \div 2
               x == col \div 2
               i == row % 2
               j == col % 2
               o == h * y + x
    <2>2. c \in Nat /\ Stride \in Nat \ {0}
        BY <2>1 DEF Cells
    <2>3. row \in 0 .. Rows - 1 /\ row \in Nat
        BY RowOfCell
    <2>4. col \in 0 .. Stride - 1 /\ c = Stride * row + col
        BY <2>2, DivMod
    <2>5. OffsetOf(half, c) = o
        BY <1>2, <2>1 DEF OffsetOf
    <2> HIDE DEF row, col
    <2>6. y \in 0 .. r - 1 /\ i \in {0, 1} /\ row = 2 * y + i
        BY <2>1, <2>3
    <2>7. x \in 0 .. h - 1 /\ j \in {0, 1} /\ col = 2 * x + j
        BY <2>1, <2>4
    <2> HIDE DEF y, x, i, j
    <2>8. o \in 0 .. h * r - 1
        <3>1. h * (r - 1 - y) \in Nat /\ h * y \in Nat
            BY <2>1, <2>6
        <3>2. h * r = h * y + h + h * (r - 1 - y)
            BY <2>1, <2>6
        <3> QED BY <2>1, <2>7, <3>1, <3>2
    <2>9. o \div h = y /\ o % h = x
        BY <2>1, <2>6, <2>7, DivUnique
    <2> HIDE DEF o
    <2> DEFINE left == (2 * y) * Stride + 2 * x
    <2>10. Places(half, o) = {left, left + 1, left + Stride, left + Stride + 1}
        BY <1>2, <2>1, <2>9 DEF Places
    <2>11. c = left + i * Stride + j
        <3>1. c = Stride * (2 * y + i) + (2 * x + j)
            BY <2>4, <2>6, <2>7
        <3>2. left = Stride * (2 * y) + 2 * x
            BY <2>1, <2>6, <2>7
        <3>3. Stride * (2 * y + i) = Stride * (2 * y) + i * Stride
            BY <2>1, <2>6
        <3>4. Stride * (2 * y) \in Nat /\ i * Stride \in Nat /\ x \in Nat
            BY <2>1, <2>6, <2>7
        <3> HIDE DEF left
        <3> QED BY <2>7, <3>1, <3>2, <3>3, <3>4
    <2>12. left \in Nat /\ Stride \in Nat
        BY <2>1, <2>6, <2>7
    <2> HIDE DEF left
    <2>13. c \in Places(half, o)
        BY <2>6, <2>7, <2>10, <2>11, <2>12
    <2> QED BY <1>2, <2>1, <2>5, <2>8, <2>13 DEF PlaneOf
<1> QED BY <1>1, <1>2

LEMMA PlaceFrom ==
    ASSUME NEW half \in BOOLEAN, NEW o \in 0 .. PlaneOf(half) - 1, NEW c \in Places(half, o)
    PROVE  c \in Cells /\ OffsetOf(half, c) = o
<1>1. c \in Cells
    BY PlacesInPlane
<1>2. OffsetOf(half, c) \in 0 .. PlaneOf(half) - 1 /\ c \in Places(half, OffsetOf(half, c))
    BY <1>1, CellReached
<1>3. OffsetOf(half, c) # o => Places(half, OffsetOf(half, c)) \cap Places(half, o) = {}
    BY <1>2, PlacesApart
<1> QED BY <1>1, <1>2, <1>3

(* The pixels of a byte, eight in a row.                                   *)
LEMMA PixelBits ==
    ASSUME NEW b \in Byte
    PROVE  /\ (b \div 128) % 2 = ((b \div 16) \div 8) % 2
           /\ (b \div 64) % 2 = ((b \div 16) \div 4) % 2
           /\ (b \div 32) % 2 = ((b \div 16) \div 2) % 2
           /\ (b \div 16) % 2 = (b \div 16) % 2
           /\ (b \div 8) % 2 = ((b % 16) \div 8) % 2
           /\ (b \div 4) % 2 = ((b % 16) \div 4) % 2
           /\ (b \div 2) % 2 = ((b % 16) \div 2) % 2
           /\ (b \div 1) % 2 = (b % 16) % 2
<1>0. b \in 0 .. 255
    BY DEF Byte
<1>1. b \div 128 = (b \div 16) \div 8
    BY <1>0
<1>2. b \div 64 = (b \div 16) \div 4
    BY <1>0
<1>3. b \div 32 = (b \div 16) \div 2
    BY <1>0
<1>4. (b \div 8) % 2 = ((b % 16) \div 8) % 2
    BY <1>0
<1>5. (b \div 4) % 2 = ((b % 16) \div 4) % 2
    BY <1>0
<1>6. (b \div 2) % 2 = ((b % 16) \div 2) % 2
    BY <1>0
<1>7. (b \div 1) % 2 = (b % 16) % 2
    BY <1>0
<1> QED BY <1>1, <1>2, <1>3, <1>4, <1>5, <1>6, <1>7

LEMMA DoubledIs ==
    ASSUME NEW n \in Nibble
    PROVE  DoubleNibble(n) = 192 * ((n \div 8) % 2) + 48 * ((n \div 4) % 2)
                             + 12 * ((n \div 2) % 2) + 3 * (n % 2)
<1> DEFINE bit(k) == ((n \div k) % 2) * 3 * k * k
<1>1. DoubleNibble(n) = bit(1) + bit(2) + bit(4) + bit(8)
    BY DEF DoubleNibble
<1>2. n \div 1 = n /\ n \in Nat
    BY DEF Nibble
<1>3. bit(1) = 3 * (n % 2) /\ bit(2) = 12 * ((n \div 2) % 2)
    BY <1>2
<1>4. bit(4) = 48 * ((n \div 4) % 2) /\ bit(8) = 192 * ((n \div 8) % 2)
    BY <1>2
<1>5. n % 2 \in Nat /\ (n \div 2) % 2 \in Nat /\ (n \div 4) % 2 \in Nat /\ (n \div 8) % 2 \in Nat
    BY <1>2
<1> HIDE DEF bit
<1> QED BY <1>1, <1>3, <1>4, <1>5

(* A picture's plane at full size, cell by cell: the doubled nibbles of    *)
(* the wire are its pixels, each two by two (vs_nib_dbl, half_frame).      *)
LEMMA MeantIs ==
    ASSUME NEW half \in BOOLEAN, NEW w \in Wired(half)
    PROVE  /\ Meant(w, half) \in Plane
           /\ \A o \in 0 .. PlaneOf(half) - 1 : \A c \in Places(half, o) :
                  Meant(w, half)[c] = Part(half, c, w[o + 1])
<1> DEFINE n == PlaneOf(half)
           h == [c \in 0 .. Len(w) - 1 |-> w[c + 1]]
<1>1. n \in Nat /\ w \in Seq(Byte) /\ Len(w) = n
    BY PlaneSize, IsFrame DEF Wired
<1>2. ASSUME NEW o \in 0 .. n - 1 PROVE h[o] = w[o + 1] /\ w[o + 1] \in Byte
    <2>1. o + 1 \in 1 .. n
        BY <1>1
    <2> QED BY <1>1, <2>1 DEF Wired
<1>3. SUFFICES ASSUME NEW c \in Cells
               PROVE  /\ DOMAIN Meant(w, half) = Cells
                      /\ Meant(w, half) = [x \in Cells |-> Meant(w, half)[x]]
                      /\ Meant(w, half)[c] = Part(half, c, w[OffsetOf(half, c) + 1])
    <2>0. \E c : c \in Cells
        <3>1. Size \in Nat \ {0}
            BY Halved
        <3> QED BY <3>1 DEF Cells
    <2>1. Meant(w, half) = [x \in Cells |-> Meant(w, half)[x]]
        BY <1>3, <2>0
    <2>2. ASSUME NEW c \in Cells PROVE Meant(w, half)[c] \in Byte
        <3>1. OffsetOf(half, c) \in 0 .. n - 1
            BY CellReached
        <3>2. w[OffsetOf(half, c) + 1] \in Byte
            BY <1>2, <3>1
        <3>3. Part(half, c, w[OffsetOf(half, c) + 1]) \in Byte
            BY <3>2, PartType
        <3> QED BY <1>3, <3>3
    <2>3. Meant(w, half) \in Plane
        BY <2>1, <2>2 DEF Plane
    <2>4. ASSUME NEW o \in 0 .. n - 1, NEW c \in Places(half, o)
          PROVE  Meant(w, half)[c] = Part(half, c, w[o + 1])
        <3>1. c \in Cells /\ OffsetOf(half, c) = o
            BY <2>4, PlaceFrom
        <3> QED BY <1>3, <3>1
    <2> QED BY <2>3, <2>4
<1> DEFINE o == OffsetOf(half, c)
           b == w[o + 1]
<1>4. o \in 0 .. n - 1
    BY CellReached
<1>5. h[o] = b /\ b \in Byte
    BY <1>2, <1>4
<1>6. CASE ~half
    <2>1. Meant(w, half) = h
        BY <1>6 DEF Meant
    <2>2. Len(w) - 1 = Size - 1
        BY <1>1, <1>6 DEF PlaneOf
    <2>3. h = [x \in Cells |-> w[x + 1]]
        BY <2>2 DEF Cells
    <2>4. o = c /\ Part(half, c, b) = b
        BY <1>6 DEF OffsetOf, Part
    <2> QED BY <2>1, <2>3, <2>4
<1>7. CASE half
    <2> DEFINE doubled(x, k) ==
                   Pixel(h, Stride \div 2, ((x % Stride) * 8 + k) \div 2, (x \div Stride) \div 2)
               bit(x, k) == doubled(x, k) * Mask(k)
               value(x) == bit(x, 0) + bit(x, 1) + bit(x, 2) + bit(x, 3)
                           + bit(x, 4) + bit(x, 5) + bit(x, 6) + bit(x, 7)
    <2>1. Meant(w, half) = [x \in Cells |-> value(x)]
        BY <1>7 DEF Meant
    <2>2. SUFFICES value(c) = Part(half, c, b)
        <3> HIDE DEF value
        <3> QED BY <2>1, <2>2
    <2> DEFINE q == c % Stride
               y == (c \div Stride) \div 2
               x == q \div 2
               j == q % 2
               hs == Stride \div 2
    <2>3. q \in Nat
        <3>1. c \in Nat /\ Stride \in Nat \ {0}
            BY StreamCodecAssumption DEF Cells
        <3> QED BY <3>1, DivMod
    <2>4. o = hs * y + x
        BY <1>7 DEF OffsetOf
    <2>5. hs \in Nat /\ y \in Nat
        <3>1. c \div Stride \in Nat
            BY RowOfCell
        <3> QED BY <3>1, StreamCodecAssumption
    <2>6. \A k \in 0 .. 7 :
              doubled(c, k) =
                  (h[y * hs + ((q * 8 + k) \div 2) \div 8] \div Mask(((q * 8 + k) \div 2) % 8)) % 2
        BY DEF Pixel
    <2>7. c % 2 = j
        <3>1. PICK s \in Nat : Stride = 2 * s
            BY Halved
        <3>2. c \in Nat /\ Stride \in Nat \ {0}
            BY StreamCodecAssumption DEF Cells
        <3> DEFINE d == c \div Stride
        <3>3. c = Stride * d + q /\ d \in Nat
            BY <3>2, DivMod
        <3> HIDE DEF d, q
        <3>4. c = 2 * (s * d) + q /\ s * d \in Nat
            BY <3>1, <3>3
        <3> DEFINE e == s * d
        <3> HIDE DEF e
        <3>5. c = 2 * e + q /\ e \in Nat
            BY <3>4 DEF e
        <3> QED BY <2>3, <3>5
    <2> HIDE DEF q, y, hs
    <2>8. x \in Nat /\ j \in {0, 1} /\ q = 2 * x + j
        BY <2>3
    <2> HIDE DEF x, j, o, b
    <2>9. \A k \in 0 .. 7 : /\ ((q * 8 + k) \div 2) \div 8 = x
                            /\ ((q * 8 + k) \div 2) % 8 = 4 * j + k \div 2
        BY <2>8
    <2>10. y * hs + x = o
        BY <2>4, <2>5, <2>8
    <2>11. \A k \in 0 .. 7 : doubled(c, k) = (b \div Mask(4 * j + k \div 2)) % 2
        BY <1>5, <2>6, <2>9, <2>10
    <2>12. /\ Mask(0) = 128 /\ Mask(1) = 64 /\ Mask(2) = 32 /\ Mask(3) = 16
           /\ Mask(4) = 8 /\ Mask(5) = 4 /\ Mask(6) = 2 /\ Mask(7) = 1
        BY DEF Mask
    <2> HIDE DEF doubled
    <2>13. /\ doubled(c, 0) = (b \div Mask(4 * j)) % 2 /\ doubled(c, 1) = (b \div Mask(4 * j)) % 2
           /\ doubled(c, 2) = (b \div Mask(4 * j + 1)) % 2 /\ doubled(c, 3) = (b \div Mask(4 * j + 1)) % 2
           /\ doubled(c, 4) = (b \div Mask(4 * j + 2)) % 2 /\ doubled(c, 5) = (b \div Mask(4 * j + 2)) % 2
           /\ doubled(c, 6) = (b \div Mask(4 * j + 3)) % 2 /\ doubled(c, 7) = (b \div Mask(4 * j + 3)) % 2
        <3>1. /\ 0 \div 2 = 0 /\ 1 \div 2 = 0 /\ 2 \div 2 = 1 /\ 3 \div 2 = 1
              /\ 4 \div 2 = 2 /\ 5 \div 2 = 2 /\ 6 \div 2 = 3 /\ 7 \div 2 = 3
            OBVIOUS
        <3>2. 4 * j + 0 = 4 * j
            BY <2>8
        <3>3. \A k \in 0 .. 7, m \in 0 .. 3 : k \div 2 = m => doubled(c, k) = (b \div Mask(4 * j + m)) % 2
            BY <2>11
        <3> QED BY <3>1, <3>2, <3>3
    <2> DEFINE nib == IF c % 2 = 0 THEN b \div 16 ELSE b % 16
               t8 == (nib \div 8) % 2
               t4 == (nib \div 4) % 2
               t2 == (nib \div 2) % 2
               t1 == nib % 2
    <2>14. /\ (b \div Mask(4 * j)) % 2 = t8 /\ (b \div Mask(4 * j + 1)) % 2 = t4
           /\ (b \div Mask(4 * j + 2)) % 2 = t2 /\ (b \div Mask(4 * j + 3)) % 2 = t1
        <3>1. CASE j = 0
            <4>1. nib = b \div 16
                BY <2>7, <3>1
            <4>2. 4 * j = 0 /\ 4 * j + 1 = 1 /\ 4 * j + 2 = 2 /\ 4 * j + 3 = 3
                BY <3>1
            <4> HIDE DEF nib
            <4> QED BY <1>5, <2>12, <4>1, <4>2, PixelBits
        <3>2. CASE j = 1
            <4>1. nib = b % 16
                BY <2>7, <3>2
            <4>2. 4 * j = 4 /\ 4 * j + 1 = 5 /\ 4 * j + 2 = 6 /\ 4 * j + 3 = 7
                BY <3>2
            <4> HIDE DEF nib
            <4> QED BY <1>5, <2>12, <4>1, <4>2, PixelBits
        <3> QED BY <2>8, <3>1, <3>2
    <2>15. nib \in Nibble
        BY <1>5, NibblesOf
    <2>16. Part(half, c, b) = DoubleNibble(nib)
        BY <1>7 DEF Part
    <2>17. DoubleNibble(nib) = 192 * t8 + 48 * t4 + 12 * t2 + 3 * t1
        BY <2>15, DoubledIs
    <2>18. t8 \in Nat /\ t4 \in Nat /\ t2 \in Nat /\ t1 \in Nat
        <3>1. nib \in Nat
            BY <2>15 DEF Nibble
        <3> HIDE DEF nib
        <3> QED BY <3>1
    <2> HIDE DEF nib, t8, t4, t2, t1
    <2>19. value(c) = t8 * 128 + t8 * 64 + t4 * 32 + t4 * 16 + t2 * 8 + t2 * 4 + t1 * 2 + t1 * 1
        BY <2>12, <2>13, <2>14
    <2>20. t8 * 128 + t8 * 64 + t4 * 32 + t4 * 16 + t2 * 8 + t2 * 4 + t1 * 2 + t1 * 1
           = 192 * t8 + 48 * t4 + 12 * t2 + 3 * t1
        BY <2>18
    <2> HIDE DEF value
    <2> QED BY <2>16, <2>17, <2>19, <2>20
<1> QED BY <1>6, <1>7

(***************************************************************************)
(* What is still to be written of a frame, so that its planes hold what is *)
(* meant.                                                                  *)
(***************************************************************************)
(* The cells the next n bytes land in, by plane and offset.                *)
LEMMA ReachedWhere ==
    ASSUME NEW d \in Decoder, NEW n \in Nat, d.dec + n <= MaxDec(d), NEW p \in Both,
           NEW o \in 0 .. PlaneOf(d.half) - 1, NEW c \in Places(d.half, o)
    PROVE  c \in Reached(d, n, p) <=> IndexOf(d.half, p, o) \in d.dec .. d.dec + n - 1
<1> DEFINE plane == PlaneBytes(d)
           i == IndexOf(d.half, p, o)
           In(x) == p = IF x < plane THEN "bw" ELSE "red"
<1>1. d.dec \in Nat /\ d.half \in BOOLEAN
    BY DEF Decoder
<1>2. /\ plane \in Nat \ {0} /\ plane = PlaneOf(d.half) /\ MaxDec(d) <= 2 * plane
      /\ MaxDec(d) \in Nat
    BY FrameBytes
<1>3. Reached(d, n, p) = UNION {Places(d.half, x % plane) : x \in {y \in d.dec .. d.dec + n - 1 : In(y)}}
    BY DEF Reached
<1>4. i = (IF p = "bw" THEN o ELSE plane + o) /\ o \in 0 .. plane - 1
    BY <1>2 DEF IndexOf
<1> HIDE DEF plane, i
<1>5. o \in Nat /\ o < plane /\ i \in Nat /\ In(i)
    BY <1>2, <1>4 DEF Both
<1>6. \A y \in 0 .. plane - 1 : y % plane = y /\ (plane + y) % plane = y
    <2> TAKE y \in 0 .. plane - 1
    <2>1. plane * 0 + y = y /\ plane * 1 + y = plane + y
        BY <1>2
    <2>2. (plane * 0 + y) % plane = y /\ (plane * 1 + y) % plane = y
        BY <1>2, DivUnique
    <2> QED BY <2>1, <2>2
<1>7. i % plane = o
    BY <1>2, <1>4, <1>6
<1>8. ASSUME i \in d.dec .. d.dec + n - 1 PROVE c \in Reached(d, n, p)
    <2>1. i \in {y \in d.dec .. d.dec + n - 1 : In(y)}
        BY <1>5, <1>8
    <2>2. c \in Places(d.half, i % plane)
        BY <1>7
    <2> HIDE DEF In
    <2> QED BY <1>3, <2>1, <2>2
<1>9. ASSUME c \in Reached(d, n, p) PROVE i \in d.dec .. d.dec + n - 1
    <2>1. PICK x \in d.dec .. d.dec + n - 1 : In(x) /\ c \in Places(d.half, x % plane)
        BY <1>3, <1>9
    <2>2. x \in Nat /\ x < 2 * plane
        BY <1>1, <1>2, <2>1
    <2>3. x % plane \in 0 .. plane - 1
        BY <1>2, <2>2, DivMod
    <2>4. OffsetOf(d.half, c) = x % plane /\ OffsetOf(d.half, c) = o
        BY <1>1, <1>2, <2>1, <2>3, PlaceFrom
    <2>5. x = i
        <3>1. CASE x < plane
            <4>1. x % plane = x /\ p = "bw"
                <5>1. x \in 0 .. plane - 1
                    BY <1>2, <2>2, <3>1
                <5>2. p = "bw"
                    BY <2>1, <3>1
                <5> QED BY <1>6, <5>1, <5>2
            <4> QED BY <1>4, <2>4, <4>1
        <3>2. CASE ~(x < plane)
            <4> DEFINE y == x - plane
            <4>1. y \in 0 .. plane - 1 /\ x = plane + y /\ p = "red"
                BY <1>2, <2>1, <2>2, <3>2
            <4> HIDE DEF y
            <4>2. x % plane = y
                BY <1>6, <4>1
            <4> QED BY <1>4, <2>4, <4>1, <4>2
        <3> QED BY <3>1, <3>2
    <2> QED BY <2>5
<1> QED BY <1>8, <1>9 DEF i

(* How far a write gets.                                                   *)
LEMMA WriteGoes ==
    ASSUME NEW s \in Pairs, NEW n \in Nat, NEW b \in Byte, s.d.dec + n <= MaxDec(s.d)
    PROVE  /\ Write(s, n, b) \in Pairs /\ Write(s, n, b).d.dec = s.d.dec + n
           /\ Write(s, n, b).fb = Painted(s, n, b)
           /\ Write(s, n, b).d.type = s.d.type /\ Write(s, n, b).d.half = s.d.half
           /\ Write(s, n, b).d.mode = s.d.mode /\ Write(s, n, b).d.count = s.d.count
           /\ Write(s, n, b).d.val = s.d.val /\ SameFrame(s.d, Write(s, n, b).d)
<1> DEFINE t == Write(s, n, b)
<1>1. s.d \in Decoder /\ s.d.dec \in Nat /\ MaxDec(s.d) \in Nat
    BY FrameBytes DEF Pairs, Within, Decoder
<1>2. Lower(n, MaxDec(s.d) - s.d.dec) = n
    BY <1>1 DEF Lower
<1>3. t = Fits(s, n, b)
    BY <1>2, WriteFits
<1>4. t.fb = Painted(s, n, b) /\ t.d = [MarkedBy(s.d, n, b) EXCEPT !.dec = @ + n]
    BY <1>3 DEF Fits
<1>5. t \in Pairs /\ t.d = [s.d EXCEPT !.dec = t.d.dec, !.y0 = t.d.y0, !.y1 = t.d.y1]
    BY WriteAdvances, ZenonT(60)
<1>6. t.d.dec = s.d.dec + n
    <2>1. MarkedBy(s.d, n, b).dec = s.d.dec
        BY <1>1, MarkIs DEF MarkedBy, Decoder
    <2>2. t.d = [MarkedBy(s.d, n, b) EXCEPT !.dec = s.d.dec + n]
        BY <1>4, <2>1
    <2> HIDE DEF t
    <2> QED BY <1>1, <2>2, MarkIs DEF MarkedBy, Decoder
<1> HIDE DEF t
<1>7. /\ t.d.type = s.d.type /\ t.d.half = s.d.half /\ t.d.mode = s.d.mode
      /\ t.d.count = s.d.count /\ t.d.val = s.d.val /\ SameFrame(s.d, t.d)
    BY <1>1, <1>5 DEF Decoder, SameFrame
<1> QED BY <1>4, <1>5, <1>6, <1>7 DEF t

(* The cell c of plane p, where the byte at offset o lands.                *)
DueAt(s, data, m, p, o, c) ==
    IF IndexOf(s.d.half, p, o) < s.d.dec THEN s.fb[p][c] = m[p][c]
    ELSE Over(s.d, c, data[IndexOf(s.d.half, p, o) + 1], s.fb[p][c]) = m[p][c]

Due(s, data, m, ps) ==
    \A p \in ps, o \in 0 .. PlaneOf(s.d.half) - 1 :
        \A c \in Places(s.d.half, o) : DueAt(s, data, m, p, o, c)

LEMMA WriteDue ==
    ASSUME NEW s \in Pairs, NEW n \in Nat, NEW b \in Byte, s.d.dec + n <= MaxDec(s.d),
           NEW data, \A i \in s.d.dec + 1 .. s.d.dec + n : data[i] = b,
           NEW m, NEW ps \in SUBSET Both, Due(s, data, m, ps)
    PROVE  Due(Write(s, n, b), data, m, ps)
<1> DEFINE t == Write(s, n, b)
<1>1. /\ t.d.dec = s.d.dec + n /\ t.fb = Painted(s, n, b)
      /\ t.d.type = s.d.type /\ t.d.half = s.d.half
    BY WriteGoes
<1>2. s.d \in Decoder /\ s.d.half \in BOOLEAN /\ s.d.dec \in Nat
    BY DEF Pairs, Decoder
<1> HIDE DEF t
<1>3. ASSUME NEW p \in ps, NEW o \in 0 .. PlaneOf(s.d.half) - 1, NEW c \in Places(s.d.half, o)
      PROVE  DueAt(t, data, m, p, o, c)
    <2> DEFINE i == IndexOf(s.d.half, p, o)
               old == s.fb[p][c]
    <2>1. DueAt(s, data, m, p, o, c)
        BY DEF Due
    <2>2. c \in Cells /\ p \in Both
        BY <1>2, PlacesInPlane
    <2>3. t.fb[p][c] = IF c \notin Reached(s.d, n, p) THEN old ELSE Over(s.d, c, b, old)
        BY <1>1, <2>2 DEF Painted, Both
    <2>4. c \in Reached(s.d, n, p) <=> i \in s.d.dec .. s.d.dec + n - 1
        BY <1>2, <2>2, ReachedWhere
    <2>5. i \in Nat
        <3>1. PlaneOf(s.d.half) \in Nat
            BY <1>2, PlaneSize
        <3> QED BY <3>1 DEF IndexOf
    <2>6. \A x, y : Over(t.d, x, y, old) = Over(s.d, x, y, old)
        BY <1>1 DEF Over
    <2>7. i = IndexOf(t.d.half, p, o)
        BY <1>1
    <2> HIDE DEF i, old
    <2>8. CASE i < s.d.dec
        <3>1. old = m[p][c]
            BY <2>1, <2>8 DEF DueAt, i, old
        <3>2. t.fb[p][c] = old /\ i < t.d.dec
            BY <1>1, <1>2, <2>3, <2>4, <2>5, <2>8
        <3> QED BY <2>7, <3>1, <3>2 DEF DueAt
    <2>9. CASE ~(i < s.d.dec) /\ i < s.d.dec + n
        <3>1. i + 1 \in s.d.dec + 1 .. s.d.dec + n
            BY <1>2, <2>5, <2>9
        <3>2. Over(s.d, c, b, old) = m[p][c]
            BY <2>1, <2>9, <3>1 DEF DueAt, i, old
        <3>3. t.fb[p][c] = Over(s.d, c, b, old) /\ i < t.d.dec
            BY <1>1, <1>2, <2>3, <2>4, <2>5, <2>9
        <3> QED BY <2>7, <3>2, <3>3 DEF DueAt
    <2>10. CASE ~(i < s.d.dec + n)
        <3>1. ~(i < s.d.dec)
            BY <1>2, <2>5, <2>10
        <3>2. Over(s.d, c, data[i + 1], old) = m[p][c]
            BY <2>1, <3>1 DEF DueAt, i, old
        <3>3. t.fb[p][c] = old /\ ~(i < t.d.dec)
            BY <1>1, <1>2, <2>3, <2>4, <2>5, <2>10
        <3>4. Over(t.d, c, data[i + 1], old) = m[p][c]
            BY <2>6, <3>2
        <3> QED BY <2>7, <3>3, <3>4 DEF DueAt
    <2> QED BY <2>8, <2>9, <2>10
<1>4. Due(t, data, m, ps)
    BY <1>1, <1>3 DEF Due
<1> QED BY <1>4 DEF t

(* A plane its type does not carry is left alone.                          *)
Spares(s, t) == \A p \in Both \ Carries(s.d.type) : t.fb[p] = s.fb[p]

LEMMA WriteSpares ==
    ASSUME NEW s \in Pairs, NEW n \in Nat, NEW b \in Byte
    PROVE  Spares(s, Write(s, n, b))
<1> DEFINE m == Lower(n, MaxDec(s.d) - s.d.dec)
<1>1. s.d \in Decoder /\ s.d.dec \in Nat /\ MaxDec(s.d) \in Nat /\ s.d.dec <= MaxDec(s.d)
    BY FrameBytes DEF Pairs, Within, Decoder
<1>2. m \in Nat /\ s.d.dec + m <= MaxDec(s.d)
    BY <1>1 DEF Lower
<1>3. Write(s, n, b).fb = Painted(s, m, b)
    BY WriteFits DEF Fits
<1> HIDE DEF m
<1>4. SUFFICES ASSUME NEW p \in Both \ Carries(s.d.type) PROVE Painted(s, m, b)[p] = s.fb[p]
    BY <1>3 DEF Spares
<1>5. p = "red" /\ ~IsDual(s.d.type)
    BY DEF Carries, Both
<1>6. MaxDec(s.d) = PlaneBytes(s.d)
    BY <1>5 DEF MaxDec
<1>7. Reached(s.d, m, p) = {}
    <2>1. \A o \in s.d.dec .. s.d.dec + m - 1 : o < PlaneBytes(s.d)
        BY <1>1, <1>2, <1>6
    <2>2. "bw" # "red"
        OBVIOUS
    <2>3. {o \in s.d.dec .. s.d.dec + m - 1 : p = IF o < PlaneBytes(s.d) THEN "bw" ELSE "red"} = {}
        BY <1>5, <2>1, <2>2
    <2> QED BY <2>3 DEF Reached
<1>8. Painted(s, m, b)[p] = [c \in Cells |-> s.fb[p][c]]
    BY <1>7 DEF Painted, Both
<1>9. s.fb[p] \in Plane
    BY <1>5 DEF Pairs, Planes
<1> QED BY <1>8, <1>9 DEF Plane

(***************************************************************************)
(* The unpacker halfway: after k bytes of a payload, done bytes of the data *)
(* have been written, and what is left of both agrees.                     *)
(***************************************************************************)
(* From byte k + a on the payload is what the rest of the data packs to.   *)
Remains(payload, data, k, a, e) ==
    /\ e \in 0 .. Len(data)
    /\ Len(payload) = k + a + Len(Packed(data)[e + 1])
    /\ \A j \in 1 .. Len(Packed(data)[e + 1]) : payload[k + a + j] = Packed(data)[e + 1][j]

Unpacking(mode, togo, val, done, k, data, payload) ==
    CASE mode = "ctrl" -> togo = 0 /\ Remains(payload, data, k, 0, done)
      [] mode = "literal" ->
             /\ togo >= 1 /\ Remains(payload, data, k, togo, done + togo)
             /\ \A j \in 1 .. togo : payload[k + j] = data[done + j]
      [] mode = "first" ->
             /\ togo >= 1 /\ Remains(payload, data, k, 1, done + togo)
             /\ payload[k + 1] = data[done + 1]
             /\ \A j \in 1 .. togo : data[done + j] = data[done + 1]
      [] mode = "repeat" ->
             /\ togo >= 1 /\ Remains(payload, data, k, 0, done + togo)
             /\ \A j \in 1 .. togo : data[done + j] = val

(* Nothing has come.                                                       *)
LEMMA UnpackingBegins ==
    ASSUME NEW data \in Seq(Byte), NEW val
    PROVE  Unpacking("ctrl", 0, val, 0, 0, data, PackBits(data))
<1>1. Len(data) \in Nat
    OBVIOUS
<1>2. 1 \in 1 .. Len(data) + 1 /\ 0 \in 0 .. Len(data) /\ 0 + 1 = 1
    BY <1>1
<1> DEFINE P == Packed(data)[1]
<1>3. P \in Seq(Byte)
    BY <1>2, PackedType DEF PackedWell
<1>4. Len(P) \in Nat
    BY <1>3
<1> HIDE DEF P
<1>5. Len(P) = 0 + 0 + Len(P) /\ \A j \in 1 .. Len(P) : P[0 + 0 + j] = P[j]
    BY <1>4
<1>6. PackBits(data) = P
    BY DEF PackBits, P
<1> QED BY <1>2, <1>5, <1>6 DEF Unpacking, Remains, P

(* A control byte.                                                         *)
LEMMA UnpackingControl ==
    ASSUME NEW data \in Seq(Byte), NEW payload \in Seq(Byte), NEW k \in Nat, k < Len(payload),
           NEW done, NEW togo, NEW val, NEW v,
           Unpacking("ctrl", togo, val, done, k, data, payload)
    PROVE  LET b == payload[k + 1]
           IN  Unpacking(IF b >= 128 THEN "first" ELSE "literal", (b % 128) + 1, v, done, k + 1,
                         data, payload)
<1> DEFINE N == Len(data)
           b == payload[k + 1]
           rest == Packed(data)[done + 1]
           i == done + 1
<1>0. Len(payload) \in Nat /\ N \in Nat
    OBVIOUS
<1>1. /\ done \in 0 .. N /\ Len(payload) = k + 0 + Len(rest)
      /\ \A j \in 1 .. Len(rest) : payload[k + 0 + j] = rest[j]
    BY DEF Unpacking, Remains
<1>2. i \in 1 .. N + 1 /\ done \in Nat
    BY <1>0, <1>1
<1>3. /\ rest \in Seq(Byte) /\ Len(rest) <= 2 * (N + 1 - i)
    BY <1>2, PackedType DEF PackedWell
<1>4. Len(rest) \in Nat
    BY <1>3
<1> HIDE DEF N, b, rest
<1>5. i \in 1 .. N
    BY <1>0, <1>1, <1>2, <1>3, <1>4
<1>6. payload[k + 1] = rest[1]
    <2>1. 1 \in 1 .. Len(rest) /\ k + 0 + 1 = k + 1
        BY <1>0, <1>1, <1>4
    <2> QED BY <1>1, <2>1
<1>7. \/ \E r \in 3 .. 128 : PackedRun(data, i, r)
      \/ \E l \in 1 .. 128 : PackedLiteral(data, i, l)
    BY <1>5, PackedBegins DEF N
<1>8. ASSUME NEW n \in 1 .. 128, i + n - 1 <= N PROVE done + n \in 0 .. N /\ done + n + 1 = i + n
    <2>0. done \in Nat /\ N \in Nat /\ n \in Nat
        BY <1>0, <1>2, <1>8
    <2>1. done + n <= N
        BY <2>0, <1>8
    <2>2. done + n + 1 = i + n
        BY <2>0
    <2> QED BY <2>0, <2>1, <2>2
<1>9. ASSUME NEW r \in 3 .. 128, PackedRun(data, i, r)
      PROVE  Unpacking(IF b >= 128 THEN "first" ELSE "literal", (b % 128) + 1, v, done, k + 1,
                         data, payload)
    <2> DEFINE more == Packed(data)[i + r]
               e == done + r
    <2>1. /\ i + r - 1 <= N /\ \A x \in i .. i + r - 1 : data[x] = data[i]
          /\ Len(rest) = 2 + Len(more)
          /\ rest[1] = r - 1 + 128 /\ rest[2] = data[i]
          /\ \A j \in 1 .. Len(more) : rest[2 + j] = more[j]
        BY <1>9 DEF PackedRun, rest, N
    <2>2. b = r - 1 + 128
        BY <1>6, <2>1 DEF b
    <2>3. b >= 128 /\ (b % 128) + 1 = r
        BY <2>2
    <2>4. e \in 0 .. N /\ e + 1 = i + r
        <3>1. r \in 1 .. 128
            OBVIOUS
        <3> QED BY <1>8, <2>1, <3>1
    <2>5. more \in Seq(Byte)
        <3>1. e + 1 \in 1 .. N + 1
            BY <1>0, <2>4
        <3> QED BY <2>4, <3>1, PackedType DEF PackedWell, N
    <2>6. Len(more) \in Nat
        BY <2>5
    <2>7. more = Packed(data)[e + 1]
        BY <2>4
    <2> HIDE DEF more, e
    <2>8. Len(payload) = (k + 1) + 1 + Len(more)
        BY <1>0, <1>1, <1>4, <2>1, <2>6
    <2>9. ASSUME NEW j \in 1 .. Len(more) PROVE payload[(k + 1) + 1 + j] = more[j]
        <3> DEFINE q == 2 + j
        <3>1. q \in 1 .. Len(rest) /\ k + 0 + q = (k + 1) + 1 + j
            BY <2>1, <2>6
        <3>2. rest[q] = more[j]
            BY <2>1
        <3> HIDE DEF q
        <3>3. payload[k + 0 + q] = rest[q]
            BY <1>1, <3>1
        <3> QED BY <3>1, <3>2, <3>3
    <2>10. Remains(payload, data, k + 1, 1, e)
        BY <2>4, <2>7, <2>8, <2>9 DEF Remains, N
    <2>11. payload[(k + 1) + 1] = data[done + 1]
        <3>1. 2 \in 1 .. Len(rest) /\ k + 0 + 2 = (k + 1) + 1
            BY <2>1, <2>6
        <3>2. payload[k + 0 + 2] = rest[2]
            BY <1>1, <3>1
        <3> QED BY <2>1, <3>1, <3>2
    <2>12. ASSUME NEW j \in 1 .. r PROVE data[done + j] = data[done + 1]
        <3> DEFINE q == done + j
        <3>1. q \in i .. i + r - 1
            BY <1>2
        <3> HIDE DEF q
        <3>2. data[q] = data[i]
            BY <2>1, <3>1
        <3> QED BY <3>2 DEF q
    <2>13. Unpacking("first", r, v, done, k + 1, data, payload)
        <3>1. r >= 1
            OBVIOUS
        <3> QED BY <2>10, <2>11, <2>12, <3>1 DEF Unpacking, e
    <2> QED BY <2>3, <2>13
<1>10. ASSUME NEW l \in 1 .. 128, PackedLiteral(data, i, l)
       PROVE  Unpacking(IF b >= 128 THEN "first" ELSE "literal", (b % 128) + 1, v, done, k + 1,
                         data, payload)
    <2> DEFINE more == Packed(data)[i + l]
               e == done + l
    <2>1. /\ i + l - 1 <= N
          /\ Len(rest) = 1 + l + Len(more)
          /\ rest[1] = l - 1 /\ \A j \in 1 .. l : rest[1 + j] = data[i + j - 1]
          /\ \A j \in 1 .. Len(more) : rest[1 + l + j] = more[j]
        BY <1>10 DEF PackedLiteral, rest, N
    <2>2. b = l - 1
        BY <1>6, <2>1 DEF b
    <2>3. ~(b >= 128) /\ (b % 128) + 1 = l
        BY <2>2
    <2>4. e \in 0 .. N /\ e + 1 = i + l
        BY <1>8, <2>1
    <2>5. more \in Seq(Byte)
        <3>1. e + 1 \in 1 .. N + 1
            BY <1>0, <2>4
        <3> QED BY <2>4, <3>1, PackedType DEF PackedWell, N
    <2>6. Len(more) \in Nat
        BY <2>5
    <2>7. more = Packed(data)[e + 1]
        BY <2>4
    <2> HIDE DEF more, e
    <2>8. Len(payload) = (k + 1) + l + Len(more)
        BY <1>0, <1>1, <1>4, <2>1, <2>6
    <2>9. ASSUME NEW j \in 1 .. Len(more) PROVE payload[(k + 1) + l + j] = more[j]
        <3> DEFINE q == 1 + l + j
        <3>1. q \in 1 .. Len(rest) /\ k + 0 + q = (k + 1) + l + j
            BY <2>1, <2>6
        <3>2. rest[q] = more[j]
            BY <2>1
        <3> HIDE DEF q
        <3>3. payload[k + 0 + q] = rest[q]
            BY <1>1, <3>1
        <3> QED BY <3>1, <3>2, <3>3
    <2>10. Remains(payload, data, k + 1, l, e)
        BY <2>4, <2>7, <2>8, <2>9 DEF Remains, N
    <2>11. ASSUME NEW j \in 1 .. l PROVE payload[(k + 1) + j] = data[done + j]
        <3> DEFINE q == 1 + j
        <3>0. j \in Nat /\ j <= l /\ l \in Nat /\ k \in Nat
            OBVIOUS
        <3>1. q \in 1 .. Len(rest) /\ k + 0 + q = (k + 1) + j
            <4>1. q <= 1 + l + Len(more) /\ q >= 1 /\ q \in Nat
                BY <2>6, <3>0
            <4> QED BY <1>4, <2>1, <3>0, <4>1
        <3>2. rest[q] = data[i + j - 1]
            BY <2>1
        <3>4. i + j - 1 = done + j
            BY <1>2, <3>0
        <3> HIDE DEF q
        <3>3. payload[k + 0 + q] = rest[q]
            BY <1>1, <3>1
        <3> QED BY <3>1, <3>2, <3>3, <3>4
    <2>12. Unpacking("literal", l, v, done, k + 1, data, payload)
        <3>1. l >= 1
            OBVIOUS
        <3> QED BY <2>10, <2>11, <3>1 DEF Unpacking, e
    <2> QED BY <2>3, <2>12
<1> QED BY <1>7, <1>9, <1>10 DEF b

(* The next byte of a literal.                                             *)
LEMMA UnpackingLiteral ==
    ASSUME NEW data \in Seq(Byte), NEW payload \in Seq(Byte), NEW k \in Nat,
           NEW done \in Nat, NEW togo \in Nat, NEW val,
           Unpacking("literal", togo, val, done, k, data, payload)
    PROVE  /\ k < Len(payload) /\ payload[k + 1] = data[done + 1] /\ done + 1 <= Len(data)
           /\ Unpacking(IF togo = 1 THEN "ctrl" ELSE "literal", togo - 1, val, done + 1, k + 1,
                        data, payload)
<1> DEFINE e == done + togo
           rest == Packed(data)[e + 1]
           N == Len(data)
<1>0. Len(payload) \in Nat /\ N \in Nat
    OBVIOUS
<1>1. /\ togo >= 1 /\ e \in 0 .. N
      /\ Len(payload) = k + togo + Len(rest)
      /\ \A j \in 1 .. Len(rest) : payload[k + togo + j] = rest[j]
      /\ \A j \in 1 .. togo : payload[k + j] = data[done + j]
    BY DEF Unpacking, Remains
<1>2. e + 1 \in 1 .. N + 1
    BY <1>0, <1>1
<1>3. rest \in Seq(Byte)
    BY <1>2, PackedType DEF PackedWell
<1>4. Len(rest) \in Nat
    BY <1>3
<1> HIDE DEF N, rest
<1>5. k < Len(payload) /\ done + 1 <= N
    BY <1>0, <1>1, <1>4
<1>6. payload[k + 1] = data[done + 1]
    <2>1. 1 \in 1 .. togo
        BY <1>1
    <2> QED BY <1>1, <2>1
<1> DEFINE n == togo - 1
<1>7. /\ n \in Nat /\ done + 1 + n = e /\ k + 1 + n = k + togo
    BY <1>1
<1> HIDE DEF n, e
<1>8. Remains(payload, data, k + 1, n, done + 1 + n)
    <2>1. rest = Packed(data)[done + 1 + n + 1]
        BY <1>7 DEF rest
    <2> QED BY <1>1, <1>7, <2>1 DEF Remains, N
<1>9. ASSUME NEW j \in 1 .. n PROVE payload[k + 1 + j] = data[done + 1 + j]
    <2> DEFINE q == 1 + j
    <2>1. q \in 1 .. togo
        BY <1>7 DEF n
    <2>2. k + q = k + 1 + j /\ done + q = done + 1 + j
        BY <1>7
    <2> HIDE DEF q
    <2>3. payload[k + q] = data[done + q]
        BY <1>1, <2>1
    <2> QED BY <2>2, <2>3
<1>10. CASE togo = 1
    <2>1. n = 0 /\ done + 1 + n = done + 1 /\ togo - 1 = 0
        BY <1>10 DEF n
    <2>2. Unpacking("ctrl", 0, val, done + 1, k + 1, data, payload)
        <3>1. Remains(payload, data, k + 1, 0, done + 1)
            BY <1>8, <2>1
        <3> QED BY <3>1 DEF Unpacking
    <2> QED BY <1>5, <1>6, <1>10, <2>1, <2>2 DEF N
<1>11. CASE togo # 1
    <2>1. n >= 1
        BY <1>1, <1>11 DEF n
    <2>2. Unpacking("literal", n, val, done + 1, k + 1, data, payload)
        BY <1>8, <1>9, <2>1 DEF Unpacking
    <2> QED BY <1>5, <1>6, <1>11, <2>2 DEF N, n
<1> QED BY <1>10, <1>11

(* The byte a run is made of.                                              *)
LEMMA UnpackingFirst ==
    ASSUME NEW data \in Seq(Byte), NEW payload \in Seq(Byte), NEW k \in Nat,
           NEW done \in Nat, NEW togo \in Nat, NEW val,
           Unpacking("first", togo, val, done, k, data, payload)
    PROVE  /\ k < Len(payload) /\ payload[k + 1] = data[done + 1] /\ done + 1 <= Len(data)
           /\ Unpacking(IF togo = 1 THEN "ctrl" ELSE "repeat", togo - 1, payload[k + 1],
                        done + 1, k + 1, data, payload)
<1> DEFINE e == done + togo
           rest == Packed(data)[e + 1]
           N == Len(data)
<1>0. Len(payload) \in Nat /\ N \in Nat
    OBVIOUS
<1>1. /\ togo >= 1 /\ e \in 0 .. N
      /\ Len(payload) = k + 1 + Len(rest)
      /\ \A j \in 1 .. Len(rest) : payload[k + 1 + j] = rest[j]
      /\ payload[k + 1] = data[done + 1]
      /\ \A j \in 1 .. togo : data[done + j] = data[done + 1]
    BY DEF Unpacking, Remains
<1>2. e + 1 \in 1 .. N + 1
    BY <1>0, <1>1
<1>3. rest \in Seq(Byte)
    BY <1>2, PackedType DEF PackedWell
<1>4. Len(rest) \in Nat
    BY <1>3
<1> HIDE DEF N, rest
<1>5. k < Len(payload) /\ done + 1 <= N
    BY <1>0, <1>1, <1>4
<1> DEFINE n == togo - 1
<1>6. k + 1 + 0 = k + 1 /\ n \in Nat
    BY <1>1
<1>12. done + 1 + n = e
    BY <1>1
<1>7. n \in Nat /\ done + 1 + n = e /\ k + 1 + 0 = k + 1
    BY <1>6, <1>12
<1> HIDE DEF n, e
<1>8. Remains(payload, data, k + 1, 0, done + 1 + n)
    <2>1. rest = Packed(data)[done + 1 + n + 1]
        BY <1>7 DEF rest
    <2> QED BY <1>1, <1>7, <2>1 DEF Remains, N
<1>9. ASSUME NEW j \in 1 .. n PROVE data[done + 1 + j] = payload[k + 1]
    <2> DEFINE q == 1 + j
    <2>1. q \in 1 .. togo
        BY <1>7 DEF n
    <2>2. done + q = done + 1 + j
        BY <1>7
    <2> HIDE DEF q
    <2>3. data[done + q] = data[done + 1]
        BY <1>1, <2>1
    <2> QED BY <1>1, <2>2, <2>3
<1>10. CASE togo = 1
    <2>1. n = 0 /\ done + 1 + n = done + 1 /\ togo - 1 = 0
        BY <1>10 DEF n
    <2>2. Unpacking("ctrl", 0, payload[k + 1], done + 1, k + 1, data, payload)
        <3>1. Remains(payload, data, k + 1, 0, done + 1)
            BY <1>8, <2>1
        <3> QED BY <3>1 DEF Unpacking
    <2> QED BY <1>1, <1>5, <1>10, <2>1, <2>2 DEF N
<1>11. CASE togo # 1
    <2>1. n >= 1
        BY <1>1, <1>11 DEF n
    <2>2. Unpacking("repeat", n, payload[k + 1], done + 1, k + 1, data, payload)
        BY <1>8, <1>9, <2>1 DEF Unpacking
    <2> QED BY <1>1, <1>5, <1>11, <2>2 DEF N, n
<1> QED BY <1>10, <1>11

(* The pending bytes of a run.                                             *)
LEMMA UnpackingRepeat ==
    ASSUME NEW data \in Seq(Byte), NEW payload \in Seq(Byte), NEW k \in Nat,
           NEW done \in Nat, NEW togo \in Nat, NEW val, NEW v,
           Unpacking("repeat", togo, val, done, k, data, payload)
    PROVE  /\ done + togo <= Len(data)
           /\ \A i \in done + 1 .. done + togo : data[i] = val
           /\ Unpacking("ctrl", 0, v, done + togo, k, data, payload)
<1>1. /\ togo >= 1 /\ Remains(payload, data, k, 0, done + togo)
      /\ \A j \in 1 .. togo : data[done + j] = val
    BY DEF Unpacking
<1>2. done + togo <= Len(data)
    BY <1>1 DEF Remains
<1>3. Unpacking("ctrl", 0, v, done + togo, k, data, payload)
    BY <1>1 DEF Unpacking
<1>4. ASSUME NEW i \in done + 1 .. done + togo PROVE data[i] = val
    <2> DEFINE j == i - done
    <2>1. j \in 1 .. togo /\ done + j = i
        OBVIOUS
    <2> HIDE DEF j
    <2> QED BY <1>1, <2>1
<1> QED BY <1>2, <1>3, <1>4

(* The payload is through.                                                 *)
LEMMA UnpackingEnds ==
    ASSUME NEW data \in Seq(Byte), NEW payload \in Seq(Byte),
           NEW done \in Nat, NEW togo \in Nat, NEW val, NEW mode \in Modes,
           Unpacking(mode, togo, val, done, Len(payload), data, payload)
    PROVE  /\ mode \in {"ctrl", "repeat"} /\ (mode = "ctrl" => done = Len(data))
           /\ mode = "repeat" => done + togo = Len(data)
<1> DEFINE N == Len(data)
<1>0. Len(payload) \in Nat /\ N \in Nat
    OBVIOUS
<1>1. ASSUME NEW a \in Nat, NEW e, Remains(payload, data, Len(payload), a, e)
      PROVE  a = 0 /\ e = N
    <2> DEFINE rest == Packed(data)[e + 1]
    <2>1. e \in 0 .. N /\ Len(payload) = Len(payload) + a + Len(rest)
        BY <1>1 DEF Remains
    <2>2. e + 1 \in 1 .. N + 1
        BY <1>0, <2>1
    <2>3. rest \in Seq(Byte) /\ (e + 1 <= N => Len(rest) >= 1)
        BY <2>2, PackedType DEF PackedWell
    <2>4. Len(rest) \in Nat
        BY <2>3
    <2> HIDE DEF rest, N
    <2> QED BY <1>0, <1>1, <2>1, <2>3, <2>4
<1> HIDE DEF N
<1>2. mode # "literal"
    <2> SUFFICES ASSUME mode = "literal" PROVE FALSE
        OBVIOUS
    <2>1. togo >= 1 /\ Remains(payload, data, Len(payload), togo, done + togo)
        BY DEF Unpacking
    <2>2. togo = 0
        BY <1>1, <2>1
    <2> QED BY <2>1, <2>2
<1>3. mode # "first"
    <2> SUFFICES ASSUME mode = "first" PROVE FALSE
        OBVIOUS
    <2>1. Remains(payload, data, Len(payload), 1, done + togo)
        BY DEF Unpacking
    <2>2. 1 = 0
        BY <1>1, <2>1
    <2> QED BY <2>2
<1>4. ASSUME mode = "ctrl" PROVE done = N
    <2>1. Remains(payload, data, Len(payload), 0, done)
        BY <1>4 DEF Unpacking
    <2> QED BY <1>1, <2>1
<1>5. ASSUME mode = "repeat" PROVE done + togo = N
    <2>1. Remains(payload, data, Len(payload), 0, done + togo)
        BY <1>5 DEF Unpacking
    <2> QED BY <1>1, <2>1
<1> QED BY <1>2, <1>3, <1>4, <1>5 DEF Modes, N

(***************************************************************************)
(* A plane the frame's type does not carry is left alone by the decoder.   *)
(***************************************************************************)
LEMMA SparesOn ==
    ASSUME NEW s, NEW t, NEW u, Spares(s, t), Spares(t, u), t.d.type = s.d.type
    PROVE  Spares(s, u)
BY DEF Spares

LEMMA SparesSame ==
    ASSUME NEW s, NEW t, t.fb = s.fb
    PROVE  Spares(s, t)
BY DEF Spares

LEMMA DrainSpares ==
    ASSUME NEW s \in Pairs
    PROVE  Spares(s, DrainRun(s))
<1>1. s.d \in Decoder /\ s.d.count \in Nat /\ s.d.val \in Byte
    BY DEF Pairs, Decoder
<1>2. CASE s.d.mode = "repeat"
    <2>1. DrainRun(s).fb = Write(s, s.d.count, s.d.val).fb
        BY <1>2 DEF DrainRun, With
    <2>2. Spares(s, Write(s, s.d.count, s.d.val))
        BY <1>1, WriteSpares
    <2> QED BY <2>1, <2>2 DEF Spares
<1>3. CASE s.d.mode # "repeat"
    BY <1>3, SparesSame DEF DrainRun
<1> QED BY <1>2, <1>3

LEMMA FeedSpares ==
    ASSUME NEW s \in Pairs, RunOK(s.d), NEW b \in Byte
    PROVE  Spares(s, RleFeed(s, b))
<1> DEFINE t == DrainRun(s)
           u == RleFeed(s, b)
<1>1. t \in Pairs /\ t.d.type = s.d.type /\ t.d.mode # "repeat" /\ Spares(s, t)
    BY DrainKeeps, DrainSpares DEF Keeps, Advances
<1>2. SUFFICES Spares(t, u)
    BY <1>1, SparesOn
<1>3. t.d \in Decoder /\ t.d.mode \in {"ctrl", "literal", "first"} /\ t.d.count \in 0 .. 128
    BY <1>1 DEF Pairs, Decoder
<1>4. CASE t.d.mode = "ctrl"
    <2>1. u.fb = t.fb
        BY <1>4 DEF RleFeed, With
    <2> QED BY <2>1, SparesSame
<1>5. CASE t.d.mode = "literal"
    <2>1. u.fb = Write(t, 1, b).fb
        BY <1>5 DEF RleFeed, With, CountDown
    <2> HIDE DEF t, u
    <2> QED BY <1>1, <2>1, WriteSpares DEF Spares
<1>6. CASE t.d.mode = "first"
    <2> DEFINE v == With([t.d EXCEPT !.val = b], t.fb)
    <2>1. u.fb = Write(v, 1, b).fb
        BY <1>6 DEF RleFeed, With, CountDown
    <2> HIDE DEF t, u
    <2>2. v = Moved(t, "first", t.d.count, b)
        BY <1>3, <1>6 DEF Decoder, Moved
    <2>3. v \in Pairs /\ v.fb = t.fb /\ v.d.type = t.d.type
        <3>1. Still(t, v, "first", t.d.count)
            <4>1. "first" \in Modes
                BY DEF Modes
            <4> QED BY <1>1, <1>3, <2>2, <4>1, ModeChanges
        <3> QED BY <1>3, <3>1 DEF Still, Advances, With
    <2> HIDE DEF v
    <2>4. Spares(v, Write(v, 1, b))
        BY <2>3, WriteSpares
    <2> QED BY <2>1, <2>3, <2>4 DEF Spares
<1> QED BY <1>3, <1>4, <1>5, <1>6

LEMMA DataSpares ==
    ASSUME NEW s \in Pairs, DecoderOK(s.d), NEW b \in Byte, s.d.at = "DATA"
    PROVE  Spares(s, Data(s, b))
<1> DEFINE n == s.d.prx + 1
           c == Crc16(s.d.crc, b)
           fed == Counted(s, n, c)
           t == IF IsRaw(s.d.type) THEN Write(fed, 1, b) ELSE RleFeed(fed, b)
<1>1. /\ s.d \in Decoder /\ RunOK(s.d) /\ s.d.prx \in Word /\ s.d.plen \in Word
      /\ s.d.crc \in Word /\ s.d.prx < s.d.plen
    BY DEF DecoderOK, Decoder
<1>2. n \in Word /\ c \in Word
    BY <1>1, WordOf, CrcType
<1>3. Data(s, b).fb = t.fb
    <2>1. fed = With([s.d EXCEPT !.prx = @ + 1, !.crc = Crc16(@, b)], s.fb)
        BY <1>1 DEF Decoder, Counted
    <2> QED BY <2>1 DEF Data, With
<1> HIDE DEF n, c
<1>4. fed \in Pairs /\ RunOK(fed.d) /\ fed.d.type = s.d.type
    BY <1>1, <1>2, CountedKeeps DEF Advances
<1>5. fed.fb = s.fb
    BY DEF Counted, With
<1> HIDE DEF fed
<1>6. Spares(fed, t)
    BY <1>4, WriteSpares, FeedSpares
<1> HIDE DEF t
<1> QED BY <1>3, <1>4, <1>5, <1>6 DEF Spares

LEMMA EndSpares ==
    ASSUME NEW s \in Pairs
    PROVE  Spares(s, DrainAtEnd(s))
BY DrainSpares, SparesSame DEF DrainAtEnd

(***************************************************************************)
(* A frame being read: g is the data it stands for, the payload that       *)
(* carries it and the planes it is to leave, of which ps are looked at.    *)
(***************************************************************************)
Reading(s, g, ps, k) ==
    /\ Len(g.data) = MaxDec(s.d)
    /\ IF IsRaw(s.d.type) THEN s.d.dec = k /\ g.payload = g.data
       ELSE Unpacking(s.d.mode, s.d.count, s.d.val, s.d.dec, k, g.data, g.payload)
    /\ Due(s, g.data, g.meant, ps)

SameDue(s, t) ==
    /\ t.fb = s.fb /\ t.d.dec = s.d.dec /\ t.d.half = s.d.half /\ t.d.type = s.d.type

LEMMA DueOn ==
    ASSUME NEW s, NEW t, SameDue(s, t), NEW data, NEW m, NEW ps, Due(s, data, m, ps)
    PROVE  Due(t, data, m, ps) /\ MaxDec(t.d) = MaxDec(s.d)
BY DEF SameDue, Due, DueAt, Over, MaxDec, PlaneBytes

LEMMA FieldsOf ==
    ASSUME NEW s \in Pairs
    PROVE  /\ s.d \in Decoder /\ s.d.mode \in Modes /\ s.d.count \in Nat /\ s.d.val \in Byte
           /\ s.d.dec \in Nat
BY DEF Pairs, Decoder, Modes

LEMMA DrainReads ==
    ASSUME NEW s \in Pairs, RunOK(s.d), ~IsRaw(s.d.type), NEW g,
           g.data \in Seq(Byte), g.payload \in Seq(Byte),
           NEW ps \in SUBSET Both, NEW k \in Nat, Reading(s, g, ps, k)
    PROVE  Reading(DrainRun(s), g, ps, k)
<1> DEFINE t == Write(s, s.d.count, s.d.val)
           u == With([t.d EXCEPT !.mode = "ctrl", !.count = 0], t.fb)
           done == s.d.dec
           n == s.d.count
           val == s.d.val
           data == g.data
           payload == g.payload
<1>1. s.d \in Decoder /\ n \in Nat /\ val \in Byte /\ done \in Nat
    BY FieldsOf
<1>2. SUFFICES ASSUME s.d.mode = "repeat" PROVE Reading(u, g, ps, k)
    BY DEF DrainRun
<1>3. Unpacking("repeat", n, val, done, k, data, payload)
      /\ Len(g.data) = MaxDec(s.d) /\ Due(s, g.data, g.meant, ps)
    BY <1>2 DEF Reading
<1>4. /\ done + n <= Len(data)
      /\ \A i \in done + 1 .. done + n : data[i] = val
      /\ \A v : Unpacking("ctrl", 0, v, done + n, k, data, payload)
    <2>1. data \in Seq(Byte) /\ payload \in Seq(Byte)
        OBVIOUS
    <2>2. Unpacking("repeat", n, val, done, k, data, payload)
        BY <1>3
    <2> HIDE DEF done, n, val, data, payload
    <2>3. ASSUME NEW v
          PROVE  /\ done + n <= Len(data)
                 /\ \A i \in done + 1 .. done + n : data[i] = val
                 /\ Unpacking("ctrl", 0, v, done + n, k, data, payload)
        BY <1>1, <2>1, <2>2, UnpackingRepeat
    <2> QED BY <2>3
<1>6. /\ t \in Pairs /\ t.d.dec = s.d.dec + s.d.count /\ t.d.type = s.d.type /\ t.d.half = s.d.half
    BY <1>1, <1>3, <1>4, WriteGoes
<1>7. Due(t, g.data, g.meant, ps)
    BY <1>1, <1>3, <1>4, WriteDue
<1> HIDE DEF t
<1>8. SameDue(t, u) /\ u.d.mode = "ctrl" /\ u.d.count = 0
    BY <1>6 DEF SameDue, With, Pairs, Decoder
<1> HIDE DEF u
<1>9. Due(u, g.data, g.meant, ps) /\ MaxDec(u.d) = MaxDec(s.d)
    <2>1. MaxDec(t.d) = MaxDec(s.d)
        BY <1>6 DEF MaxDec, PlaneBytes
    <2> QED BY <1>7, <1>8, <2>1, DueOn
<1>10. u.d.dec = done + n /\ ~IsRaw(u.d.type)
    BY <1>6, <1>8 DEF SameDue
<1> HIDE DEF done, n
<1> QED BY <1>3, <1>4, <1>8, <1>9, <1>10 DEF Reading

(* One byte more.                                                          *)
Holds(s, g, ps) == Len(g.data) = MaxDec(s.d) /\ Due(s, g.data, g.meant, ps)

WriteOf(s, t) ==
    /\ t \in Pairs /\ t.d.dec = s.d.dec + 1
    /\ t.d.type = s.d.type /\ t.d.mode = s.d.mode /\ t.d.count = s.d.count /\ t.d.val = s.d.val

LEMMA WriteHolds ==
    ASSUME NEW s \in Pairs, NEW g, NEW ps \in SUBSET Both, Holds(s, g, ps), NEW b \in Byte,
           s.d.dec + 1 <= Len(g.data), g.data[s.d.dec + 1] = b
    PROVE  WriteOf(s, Write(s, 1, b)) /\ Holds(Write(s, 1, b), g, ps)
<1> DEFINE t == Write(s, 1, b)
           data == g.data
<1>1. s.d.dec \in Nat /\ 1 \in Nat /\ s.d.dec + 1 <= MaxDec(s.d) /\ Due(s, data, g.meant, ps)
    BY FieldsOf DEF Holds
<1>2. /\ t \in Pairs /\ t.d.dec = s.d.dec + 1 /\ t.d.type = s.d.type /\ t.d.half = s.d.half
      /\ t.d.mode = s.d.mode /\ t.d.count = s.d.count /\ t.d.val = s.d.val
    BY <1>1, WriteGoes
<1>3. \A i \in s.d.dec + 1 .. s.d.dec + 1 : data[i] = b
    BY <1>1
<1> HIDE DEF data
<1>4. Due(t, data, g.meant, ps)
    BY <1>1, <1>3, WriteDue
<1> HIDE DEF t
<1>5. MaxDec(t.d) = MaxDec(s.d)
    BY <1>2 DEF MaxDec, PlaneBytes
<1>6. WriteOf(s, t)
    BY <1>2 DEF WriteOf
<1> QED BY <1>4, <1>5, <1>6 DEF Holds, t, data

LEMMA MovedHolds ==
    ASSUME NEW s \in Pairs, NEW g, NEW ps, Holds(s, g, ps), NEW md, NEW k, NEW v
    PROVE  LET t == Moved(s, md, k, v)
           IN  /\ Holds(t, g, ps) /\ t.d.type = s.d.type /\ t.d.dec = s.d.dec
               /\ t.d.mode = md /\ t.d.count = k /\ t.d.val = v
<1> DEFINE t == Moved(s, md, k, v)
<1>1. s.d \in Decoder
    BY FieldsOf
<1>2. SameDue(s, t) /\ t.d.mode = md /\ t.d.count = k /\ t.d.val = v
    BY <1>1 DEF SameDue, Moved, With, Decoder
<1> HIDE DEF t
<1>3. Holds(t, g, ps)
    BY <1>2, DueOn DEF Holds
<1> QED BY <1>2, <1>3 DEF SameDue, t

LEMMA ReadingIs ==
    ASSUME NEW s, ~IsRaw(s.d.type), NEW g, NEW ps, NEW k
    PROVE  Reading(s, g, ps, k) <=>
              /\ Holds(s, g, ps)
              /\ Unpacking(s.d.mode, s.d.count, s.d.val, s.d.dec, k, g.data, g.payload)
BY DEF Reading, Holds

(* vs_rle_feed.                                                            *)
LEMMA FeedReads ==
    ASSUME NEW s \in Pairs, RunOK(s.d), ~IsRaw(s.d.type), NEW g,
           g.data \in Seq(Byte), g.payload \in Seq(Byte),
           NEW ps \in SUBSET Both, NEW k \in Nat, Reading(s, g, ps, k),
           k < Len(g.payload), NEW b \in Byte, b = g.payload[k + 1]
    PROVE  Reading(RleFeed(s, b), g, ps, k + 1)
<1> DEFINE t == DrainRun(s)
           u == RleFeed(s, b)
           data == g.data
           payload == g.payload
           done == t.d.dec
           n == t.d.count
           val == t.d.val
<1>1. t \in Pairs /\ t.d.type = s.d.type /\ t.d.mode # "repeat"
    BY DrainKeeps DEF Keeps, Advances
<1>2. Reading(t, g, ps, k)
    BY DrainReads
<1>3. data \in Seq(Byte) /\ payload \in Seq(Byte) /\ k < Len(payload) /\ b = payload[k + 1]
    OBVIOUS
<1>4. /\ t.d.mode = "ctrl" =>
              u = Moved(t, IF b >= 128 THEN "first" ELSE "literal", (b % 128) + 1, val)
      /\ t.d.mode = "literal" => u = CountDown(Write(t, 1, b), "literal")
      /\ t.d.mode = "first" => u = CountDown(Write(Moved(t, "first", n, b), 1, b), "repeat")
    <2> DEFINE md == IF b >= 128 THEN "first" ELSE "literal"
               c == (b % 128) + 1
    <2>1. t.d \in Decoder
        BY <1>1 DEF Pairs
    <2>2. t.d.mode = "ctrl" => u = With([t.d EXCEPT !.count = c, !.mode = md], t.fb)
        BY DEF RleFeed
    <2>3. t.d.mode = "literal" => u = CountDown(Write(t, 1, b), "literal")
        BY DEF RleFeed
    <2>4. t.d.mode = "first" =>
              u = CountDown(Write(With([t.d EXCEPT !.val = b], t.fb), 1, b), "repeat")
        BY DEF RleFeed
    <2> HIDE DEF t, u, md, c
    <2>5. [t.d EXCEPT !.count = c, !.mode = md] = [t.d EXCEPT !.mode = md, !.count = c, !.val = val]
        BY <2>1 DEF Decoder
    <2>6. t.d.mode = "first" => [t.d EXCEPT !.val = b] = [t.d EXCEPT !.mode = "first", !.count = n, !.val = b]
        BY <2>1 DEF Decoder
    <2>7. t.d.mode = "ctrl" => u = Moved(t, md, c, val)
        BY <2>2, <2>5 DEF Moved
    <2>8. t.d.mode = "first" => u = CountDown(Write(Moved(t, "first", n, b), 1, b), "repeat")
        BY <2>4, <2>6 DEF Moved
    <2> QED BY <2>3, <2>7, <2>8 DEF md, c
<1> HIDE DEF t
<1>5. t.d \in Decoder /\ t.d.mode \in Modes /\ n \in Nat /\ val \in Byte /\ done \in Nat
    BY <1>1, FieldsOf
<1>6. ~IsRaw(t.d.type)
    BY <1>1
<1>7. Holds(t, g, ps) /\ Unpacking(t.d.mode, n, val, done, k, data, payload)
    BY <1>2, <1>6, ReadingIs
<1> HIDE DEF u
<1>8. SUFFICES /\ Holds(u, g, ps) /\ ~IsRaw(u.d.type)
               /\ Unpacking(u.d.mode, u.d.count, u.d.val, u.d.dec, k + 1, data, payload)
    BY ReadingIs DEF u
<1>9. CASE t.d.mode = "ctrl"
    <2> DEFINE md == IF b >= 128 THEN "first" ELSE "literal"
               c == (b % 128) + 1
    <2>1. u = Moved(t, md, c, val)
        BY <1>4, <1>9
    <2>2. Unpacking("ctrl", n, val, done, k, data, payload)
        BY <1>7, <1>9
    <2>3. Unpacking(md, c, val, done, k + 1, data, payload)
        <3> HIDE DEF done, n, val, data, payload
        <3> DEFINE x == payload[k + 1]
        <3>1. Unpacking(IF x >= 128 THEN "first" ELSE "literal", (x % 128) + 1, val, done, k + 1,
                        data, payload)
            BY <1>3, <2>2, UnpackingControl
        <3> QED BY <1>3, <3>1
    <2> HIDE DEF md, c, val
    <2>4. /\ Holds(u, g, ps) /\ u.d.type = t.d.type /\ u.d.dec = done
          /\ u.d.mode = md /\ u.d.count = c /\ u.d.val = val
        BY <1>1, <1>7, <2>1, MovedHolds
    <2> QED BY <1>6, <2>3, <2>4
<1>10. CASE t.d.mode = "literal"
    <2> DEFINE w == Write(t, 1, b)
               c == n - 1
               md == IF n = 1 THEN "ctrl" ELSE "literal"
    <2>1. u = CountDown(w, "literal")
        BY <1>4, <1>10
    <2>2. Unpacking("literal", n, val, done, k, data, payload)
        BY <1>7, <1>10
    <2>3. /\ payload[k + 1] = data[done + 1] /\ done + 1 <= Len(data)
          /\ Unpacking(md, c, val, done + 1, k + 1, data, payload)
        <3> HIDE DEF done, n, val, data, payload
        <3> QED BY <1>3, <1>5, <2>2, UnpackingLiteral
    <2>4. WriteOf(t, w) /\ Holds(w, g, ps)
        BY <1>1, <1>3, <1>7, <2>3, WriteHolds
    <2> HIDE DEF w
    <2>5. /\ w \in Pairs /\ w.d.dec = done + 1 /\ w.d.type = t.d.type
          /\ w.d.count = n /\ w.d.val = val
        BY <2>4 DEF WriteOf
    <2>6. u = Moved(w, md, c, val)
        <3>1. w.d \in Decoder
            BY <2>5 DEF Pairs
        <3> QED BY <2>1, <2>5, <3>1 DEF CountDown, Moved, Decoder
    <2> HIDE DEF md, c, val, done
    <2>7. /\ Holds(u, g, ps) /\ u.d.type = w.d.type /\ u.d.dec = w.d.dec
          /\ u.d.mode = md /\ u.d.count = c /\ u.d.val = val
        BY <2>4, <2>5, <2>6, MovedHolds
    <2> QED BY <1>6, <2>3, <2>5, <2>7
<1>11. CASE t.d.mode = "first"
    <2> DEFINE v == Moved(t, "first", n, b)
               w == Write(v, 1, b)
               c == n - 1
               md == IF n = 1 THEN "ctrl" ELSE "repeat"
    <2>1. u = CountDown(w, "repeat")
        BY <1>4, <1>11
    <2>2. Unpacking("first", n, val, done, k, data, payload)
        BY <1>7, <1>11
    <2>3. /\ payload[k + 1] = data[done + 1] /\ done + 1 <= Len(data)
          /\ Unpacking(md, c, payload[k + 1], done + 1, k + 1, data, payload)
        <3> HIDE DEF done, n, val, data, payload
        <3> QED BY <1>3, <1>5, <2>2, UnpackingFirst, SMTT(30)
    <2>9. n \in 0 .. 128
        BY <1>5 DEF Decoder
    <2>10. v \in Pairs
        <3>1. "first" \in Modes
            BY DEF Modes
        <3> HIDE DEF v
        <3> QED BY <1>1, <2>9, <3>1, ModeChanges DEF Still, v
    <2>11. /\ Holds(v, g, ps) /\ v.d.type = t.d.type /\ v.d.dec = done
           /\ v.d.count = n /\ v.d.val = b
        BY <1>1, <1>7, MovedHolds
    <2> HIDE DEF v
    <2>4. WriteOf(v, w) /\ Holds(w, g, ps)
        BY <1>3, <2>3, <2>10, <2>11, WriteHolds
    <2> HIDE DEF w
    <2>5. /\ w \in Pairs /\ w.d.dec = done + 1 /\ w.d.type = t.d.type
          /\ w.d.count = n /\ w.d.val = b
        BY <2>4, <2>11 DEF WriteOf
    <2>6. u = Moved(w, md, c, b)
        <3>1. w.d \in Decoder
            BY <2>5 DEF Pairs
        <3> QED BY <2>1, <2>5, <3>1 DEF CountDown, Moved, Decoder
    <2> HIDE DEF md, c, done
    <2>7. /\ Holds(u, g, ps) /\ u.d.type = w.d.type /\ u.d.dec = w.d.dec
          /\ u.d.mode = md /\ u.d.count = c /\ u.d.val = b
        BY <2>4, <2>5, <2>6, MovedHolds
    <2> QED BY <1>3, <1>6, <2>3, <2>5, <2>7
<1> QED BY <1>1, <1>5, <1>9, <1>10, <1>11 DEF Modes

(* The parts of Data.                                                      *)
Fed(s, b) == Counted(s, s.d.prx + 1, Crc16(s.d.crc, b))

Stepped(s, b) == IF IsRaw(s.d.type) THEN Write(Fed(s, b), 1, b) ELSE RleFeed(Fed(s, b), b)

LEMMA DataParts ==
    ASSUME NEW s \in Pairs, DecoderOK(s.d), s.d.at = "DATA", NEW b \in Byte
    PROVE  LET f == Fed(s, b)
               t == Stepped(s, b)
           IN  /\ f \in Pairs /\ RunOK(f.d) /\ f.fb = s.fb
               /\ f.d.prx = s.d.prx + 1 /\ f.d.crc = Crc16(s.d.crc, b)
               /\ f.d.plen = s.d.plen /\ f.d.has_crc = s.d.has_crc
               /\ f.d.type = s.d.type /\ f.d.half = s.d.half /\ f.d.dec = s.d.dec
               /\ f.d.mode = s.d.mode /\ f.d.count = s.d.count /\ f.d.val = s.d.val
               /\ t \in Pairs /\ SameFrame(f.d, t.d) /\ t.d.type = s.d.type /\ t.d.half = s.d.half
               /\ Data(s, b) = Turned(t, IF s.d.prx + 1 >= s.d.plen
                                         THEN (IF s.d.has_crc THEN "CRC_HI" ELSE "FLUSH_WAIT")
                                         ELSE "DATA")
<1> DEFINE n == s.d.prx + 1
           c == Crc16(s.d.crc, b)
           f == Fed(s, b)
           t == Stepped(s, b)
<1>1. /\ s.d \in Decoder /\ RunOK(s.d) /\ s.d.prx \in Word /\ s.d.plen \in Word
      /\ s.d.crc \in Word /\ s.d.prx < s.d.plen
    BY DEF DecoderOK, Decoder
<1>2. n \in Word /\ c \in Word
    BY <1>1, WordOf, CrcType
<1>3. f = Counted(s, n, c)
    BY DEF Fed
<1>4. Data(s, b) = Turned(t, IF t.d.prx >= t.d.plen THEN AfterPayload(t.d) ELSE "DATA")
    <2>1. f = With([s.d EXCEPT !.prx = @ + 1, !.crc = Crc16(@, b)], s.fb)
        BY <1>1 DEF Decoder, Counted, Fed
    <2> QED BY <2>1 DEF Data, Stepped, Turned
<1> HIDE DEF n, c, f
<1>5. f \in Pairs /\ RunOK(f.d) /\ f.d.type = s.d.type
    <2>1. f \in Pairs /\ RunOK(f.d) /\ Advances(s, f)
        BY <1>1, <1>2, <1>3, CountedKeeps
    <2> QED BY <2>1 DEF Advances
<1>6. /\ f.fb = s.fb /\ f.d.prx = n /\ f.d.crc = c
      /\ f.d.plen = s.d.plen /\ f.d.has_crc = s.d.has_crc
      /\ f.d.half = s.d.half /\ f.d.dec = s.d.dec
      /\ f.d.mode = s.d.mode /\ f.d.count = s.d.count /\ f.d.val = s.d.val
    BY <1>1, <1>3 DEF Counted, With, Decoder
<1>7. t \in Pairs /\ Advances(f, t) /\ SameFrame(f.d, t.d)
    <2>1. CASE IsRaw(s.d.type)
        <3>1. t = Write(f, 1, b)
            BY <2>1 DEF Stepped, f
        <3> HIDE DEF t
        <3> QED BY <1>5, <3>1, WriteKeeps
    <2>2. CASE ~IsRaw(s.d.type)
        <3>1. t = RleFeed(f, b)
            BY <2>2 DEF Stepped, f
        <3> HIDE DEF t
        <3> QED BY <1>5, <3>1, FeedKeeps DEF Keeps
    <2> QED BY <2>1, <2>2
<1> HIDE DEF t
<1>8. t.d.type = s.d.type /\ t.d.half = s.d.half
    BY <1>5, <1>6, <1>7 DEF Advances
<1>9. t.d.prx = n /\ t.d.plen = s.d.plen /\ t.d.has_crc = s.d.has_crc
    BY <1>6, <1>7 DEF SameFrame
<1>10. Data(s, b) = Turned(t, IF n >= s.d.plen THEN (IF s.d.has_crc THEN "CRC_HI" ELSE "FLUSH_WAIT")
                              ELSE "DATA")
    BY <1>4, <1>9 DEF AfterPayload
<1> QED BY <1>5, <1>6, <1>7, <1>8, <1>10 DEF n, c, f, t

(* The fields.                                                             *)
LEMMA DataGoes ==
    ASSUME NEW s \in Pairs, DecoderOK(s.d), s.d.at = "DATA", NEW b \in Byte
    PROVE  LET u == Data(s, b)
           IN  /\ u.d.prx = s.d.prx + 1 /\ u.d.crc = Crc16(s.d.crc, b)
               /\ u.d.plen = s.d.plen /\ u.d.has_crc = s.d.has_crc
               /\ u.d.type = s.d.type /\ u.d.half = s.d.half
               /\ u.d.at = IF s.d.prx + 1 >= s.d.plen
                           THEN (IF s.d.has_crc THEN "CRC_HI" ELSE "FLUSH_WAIT") ELSE "DATA"
<1> DEFINE t == Stepped(s, b)
           f == Fed(s, b)
           a == IF s.d.prx + 1 >= s.d.plen
                THEN (IF s.d.has_crc THEN "CRC_HI" ELSE "FLUSH_WAIT") ELSE "DATA"
<1>1. /\ f.d.prx = s.d.prx + 1 /\ f.d.crc = Crc16(s.d.crc, b)
      /\ f.d.plen = s.d.plen /\ f.d.has_crc = s.d.has_crc
      /\ t \in Pairs /\ SameFrame(f.d, t.d) /\ t.d.type = s.d.type /\ t.d.half = s.d.half
      /\ Data(s, b) = Turned(t, a)
    BY DataParts
<1>2. t.d \in Decoder
    BY <1>1 DEF Pairs
<1> HIDE DEF t, f, a
<1>3. Turned(t, a).d = [t.d EXCEPT !.at = a]
    BY DEF Turned, With
<1>4. t.d.prx = s.d.prx + 1 /\ t.d.crc = Crc16(s.d.crc, b) /\ t.d.plen = s.d.plen
      /\ t.d.has_crc = s.d.has_crc
    BY <1>1 DEF SameFrame
<1> QED BY <1>1, <1>2, <1>3, <1>4 DEF Decoder, a

(* The data state of vs_process_byte.                                      *)
LEMMA DataReads ==
    ASSUME NEW s \in Pairs, DecoderOK(s.d), s.d.at = "DATA", NEW g,
           g.data \in Seq(Byte), g.payload \in Seq(Byte),
           NEW ps \in SUBSET Both, NEW k \in Nat, Reading(s, g, ps, k),
           k < Len(g.payload), NEW b \in Byte, b = g.payload[k + 1]
    PROVE  Reading(Data(s, b), g, ps, k + 1)
<1> DEFINE t == Stepped(s, b)
           f == Fed(s, b)
           a == IF s.d.prx + 1 >= s.d.plen
                THEN (IF s.d.has_crc THEN "CRC_HI" ELSE "FLUSH_WAIT") ELSE "DATA"
           u == Data(s, b)
<1>1. /\ f \in Pairs /\ RunOK(f.d) /\ f.fb = s.fb
      /\ f.d.type = s.d.type /\ f.d.half = s.d.half /\ f.d.dec = s.d.dec
      /\ f.d.mode = s.d.mode /\ f.d.count = s.d.count /\ f.d.val = s.d.val
      /\ t \in Pairs /\ u = Turned(t, a) /\ t.d.type = s.d.type
    BY DataParts
<1>2. t = IF IsRaw(s.d.type) THEN Write(f, 1, b) ELSE RleFeed(f, b)
    BY DEF Stepped
<1> HIDE DEF t, f, a, u
<1>3. Holds(s, g, ps)
    BY DEF Holds, Reading
<1>4. Holds(f, g, ps)
    <2>1. SameDue(s, f)
        BY <1>1 DEF SameDue
    <2> QED BY <1>3, <2>1, DueOn DEF Holds
<1>5. Reading(t, g, ps, k + 1)
    <2>1. CASE IsRaw(s.d.type)
        <3>1. f.d.dec = k /\ g.payload = g.data
            BY <1>1, <2>1 DEF Reading
        <3>2. f.d.dec + 1 <= Len(g.data) /\ g.data[f.d.dec + 1] = b
            <4>1. Len(g.payload) \in Nat
                OBVIOUS
            <4> QED BY <3>1, <4>1
        <3>3. WriteOf(f, t) /\ Holds(t, g, ps)
            BY <1>1, <1>2, <1>4, <2>1, <3>2, WriteHolds
        <3> QED BY <1>1, <2>1, <3>1, <3>3 DEF WriteOf, Holds, Reading
    <2>2. CASE ~IsRaw(s.d.type)
        <3>1. Unpacking(f.d.mode, f.d.count, f.d.val, f.d.dec, k, g.data, g.payload)
            BY <1>1, <2>2 DEF Reading
        <3>2. ~IsRaw(f.d.type)
            BY <1>1, <2>2
        <3>3. Reading(f, g, ps, k)
            BY <1>4, <3>1, <3>2, ReadingIs
        <3>4. t = RleFeed(f, b)
            BY <1>2, <2>2
        <3> QED BY <1>1, <3>2, <3>3, <3>4, FeedReads
    <2> QED BY <2>1, <2>2
<1>6. /\ SameDue(t, u) /\ u.d.mode = t.d.mode /\ u.d.count = t.d.count /\ u.d.val = t.d.val
    <2>1. t.d \in Decoder
        BY <1>1 DEF Pairs
    <2> QED BY <1>1, <2>1 DEF SameDue, Turned, With, Decoder
<1>7. Holds(u, g, ps)
    BY <1>5, <1>6, DueOn DEF Holds, Reading
<1>8. u.d.type = t.d.type /\ u.d.dec = t.d.dec
    BY <1>6 DEF SameDue
<1>9. Reading(u, g, ps, k + 1)
    BY <1>5, <1>6, <1>7, <1>8 DEF Holds, Reading
<1> QED BY <1>9 DEF u

(* The end of the frame: its planes hold what they are to.                 *)
LEMMA EndReads ==
    ASSUME NEW s \in Pairs, RunOK(s.d), NEW g,
           g.data \in Seq(Byte), g.payload \in Seq(Byte),
           NEW ps \in SUBSET Both, Reading(s, g, ps, Len(g.payload)), ps \subseteq Carries(s.d.type),
           \A p \in ps : g.meant[p] \in Plane
    PROVE  LET u == DrainAtEnd(s)
           IN  u.d.dec = MaxDec(s.d) /\ \A p \in ps : u.fb[p] = g.meant[p]
<1> DEFINE u == DrainAtEnd(s)
           k == Len(g.payload)
<1>1. k \in Nat
    OBVIOUS
<1>2. Reading(u, g, ps, k) /\ u \in Pairs /\ u.d.type = s.d.type /\ u.d.half = s.d.half
      /\ (~IsRaw(s.d.type) => u.d.mode # "repeat")
    <2>1. CASE IsRaw(s.d.type)
        BY <2>1 DEF DrainAtEnd
    <2>2. CASE ~IsRaw(s.d.type)
        <3>1. u = DrainRun(s)
            BY <2>2 DEF DrainAtEnd
        <3> HIDE DEF u
        <3>2. Reading(u, g, ps, k)
            BY <1>1, <2>2, <3>1, DrainReads
        <3> QED BY <3>1, <3>2, DrainKeeps DEF Keeps, Advances
    <2> QED BY <2>1, <2>2
<1> HIDE DEF u
<1>3. u.d \in Decoder /\ u.d.mode \in Modes /\ u.d.count \in Nat /\ u.d.dec \in Nat
    BY <1>2, FieldsOf
<1>4. MaxDec(u.d) = MaxDec(s.d)
    BY <1>2 DEF MaxDec, PlaneBytes
<1>5. u.d.dec = MaxDec(u.d)
    <2>1. CASE IsRaw(s.d.type)
        BY <1>2, <2>1 DEF Reading
    <2>2. CASE ~IsRaw(s.d.type)
        <3> DEFINE mode == u.d.mode
                   n == u.d.count
                   val == u.d.val
                   done == u.d.dec
                   data == g.data
                   payload == g.payload
        <3>1. Unpacking(mode, n, val, done, Len(payload), data, payload) /\ mode # "repeat"
              /\ Len(data) = MaxDec(u.d)
            BY <1>2, <2>2 DEF Reading
        <3>2. data \in Seq(Byte) /\ payload \in Seq(Byte) /\ mode \in Modes /\ n \in Nat /\ done \in Nat
            BY <1>3
        <3>3. done = Len(data)
            <4> HIDE DEF mode, n, val, done, data, payload
            <4> QED BY <3>1, <3>2, UnpackingEnds
        <3> QED BY <3>1, <3>3
    <2> QED BY <2>1, <2>2
<1>6. ASSUME NEW p \in ps, NEW c \in Cells PROVE u.fb[p][c] = g.meant[p][c]
    <2> DEFINE o == OffsetOf(u.d.half, c)
    <2>1. u.d.half \in BOOLEAN
        BY <1>3 DEF Decoder
    <2>2. o \in 0 .. PlaneOf(u.d.half) - 1 /\ c \in Places(u.d.half, o)
        BY <2>1, CellReached
    <2> HIDE DEF o
    <2>3. DueAt(u, g.data, g.meant, p, o, c)
        BY <1>2, <2>2 DEF Reading, Due
    <2>4. IndexOf(u.d.half, p, o) < u.d.dec
        <3>1. PlaneOf(u.d.half) \in Nat /\ PlaneBytes(u.d) = PlaneOf(u.d.half)
            BY <2>1, PlaneSize DEF PlaneBytes, PlaneOf
        <3>2. p \in Carries(u.d.type)
            BY <1>2
        <3>3. CASE p = "bw"
            <4>1. MaxDec(u.d) >= PlaneOf(u.d.half)
                BY <3>1 DEF MaxDec
            <4>2. IndexOf(u.d.half, p, o) = o
                BY <3>3 DEF IndexOf
            <4>3. o \in Nat /\ o < PlaneOf(u.d.half)
                BY <2>2, <3>1
            <4>4. o < u.d.dec
                BY <1>3, <1>5, <3>1, <4>1, <4>3
            <4> QED BY <4>2, <4>4
        <3>4. CASE p # "bw"
            <4>1. IsDual(u.d.type)
                BY <3>2, <3>4 DEF Carries
            <4>2. MaxDec(u.d) = 2 * PlaneOf(u.d.half)
                BY <3>1, <4>1 DEF MaxDec
            <4> QED BY <1>5, <2>2, <3>1, <3>4, <4>2 DEF IndexOf
        <3> QED BY <3>3, <3>4
    <2> QED BY <2>3, <2>4 DEF DueAt
<1>7. ASSUME NEW p \in ps PROVE u.fb[p] = g.meant[p]
    <2>1. u.fb[p] \in Plane
        <3>1. u.fb \in Planes /\ p \in {"bw", "red"}
            BY <1>2 DEF Pairs, Both
        <3> QED BY <3>1 DEF Planes
    <2>2. g.meant[p] \in Plane
        OBVIOUS
    <2> QED BY <1>6, <2>1, <2>2 DEF Plane
<1> QED BY <1>4, <1>5, <1>7 DEF u

-----------------------------------------------------------------------------
(***************************************************************************)
(* A frame on its way: its type, resolution and checksum flag, the data,   *)
(* the payload that carries it and all its bytes, and what its planes are  *)
(* to show.                                                                *)
(***************************************************************************)
Intact(g) ==
    /\ g.type \in 0 .. 5 /\ g.half \in BOOLEAN /\ g.crc \in BOOLEAN
    /\ g.data \in Seq(Byte) /\ g.payload = PayloadOf(g.type, g.data) /\ g.payload \in Seq(Byte)
    /\ Len(g.data) = FrameSize(g.type, g.half)
    /\ Len(g.payload) >= 1 /\ Len(g.payload) <= 65535
    /\ Wrapped(g.bytes, g.type, g.half, g.crc, g.payload)
    /\ \A p \in Carries(g.type) : g.meant[p] \in Plane

(* The decoder as the frame's header will leave it.                        *)
Fresh(g) == [dec |-> 0, type |-> g.type, half |-> g.half]

(* Before a frame: a delta's old picture is in the frame buffer.           *)
LEMMA BeginDue ==
    ASSUME NEW type \in 0 .. 5, NEW half \in BOOLEAN, NEW data, NEW new, NEW old, NEW f, NEW m,
           NEW ps \in SUBSET Carries(type),
           Packs(data, type, half, new, old),
           \A p \in ps : new[p] \in Wired(half) /\ m[p] = Meant(new[p], half),
           IsDelta(type) => \A p \in ps : old[p] \in Wired(half) /\ f[p] = Meant(old[p], half)
    PROVE  Due(With([dec |-> 0, type |-> type, half |-> half], f), data, m, ps)
<1> DEFINE d == [dec |-> 0, type |-> type, half |-> half]
           s == With(d, f)
<1>1. s.d = d /\ s.fb = f /\ d.dec = 0 /\ d.type = type /\ d.half = half
    BY DEF With
<1> HIDE DEF d, s
<1>2. ASSUME NEW p \in ps, NEW o \in 0 .. PlaneOf(half) - 1, NEW c \in Places(half, o)
      PROVE  DueAt(s, data, m, p, o, c)
    <2> DEFINE i == IndexOf(half, p, o)
               a == old[p][o + 1]
               b == new[p][o + 1]
    <2>1. PlaneOf(half) \in Nat
        BY PlaneSize
    <2>2. i \in Nat /\ o + 1 \in 1 .. PlaneOf(half)
        BY <2>1 DEF IndexOf
    <2>3. data[i + 1] = Changed(type, b, a) /\ p \in Carries(type)
        BY DEF Packs
    <2>4. b \in Byte
        BY <2>2 DEF Wired
    <2>5. m[p][c] = Part(half, c, b)
        BY MeantIs
    <2> HIDE DEF i, b
    <2>6. Over(d, c, data[i + 1], f[p][c]) = Part(half, c, b)
        <3>1. CASE ~IsDelta(type)
            BY <1>1, <2>3, <3>1 DEF Over, Changed
        <3>2. CASE IsDelta(type)
            <4>1. a \in Byte
                BY <2>2, <3>2 DEF Wired
            <4>2. f[p][c] = Part(half, c, a)
                BY <3>2, MeantIs
            <4> HIDE DEF a
            <4>3. Over(d, c, data[i + 1], f[p][c]) = Xor(Part(half, c, a), Part(half, c, Xor(b, a)))
                BY <1>1, <2>3, <3>2, <4>2 DEF Over, Changed
            <4> QED BY <2>4, <4>1, <4>3, PartBack
        <3> QED BY <3>1, <3>2
    <2>7. ~(i < d.dec)
        BY <1>1, <2>2
    <2> QED BY <1>1, <2>5, <2>6, <2>7 DEF DueAt, i
<1> QED BY <1>1, <1>2 DEF Due, d, s

(***************************************************************************)
(* Where the decoder is in it.                                             *)
(***************************************************************************)
(* The bytes received.                                                     *)
PlaceIn(g, d) ==
    CASE d.at = "IDLE" -> 0
      [] d.at = "HDR2_WAIT" -> 1
      [] d.at = "TYPE_RD" -> 2
      [] d.at = "LEN_HI" -> 3
      [] d.at = "LEN_LO" -> 4
      [] d.at = "DATA" -> 5 + d.prx
      [] d.at = "CRC_HI" -> 5 + Len(g.payload)
      [] d.at = "CRC_LO" -> 6 + Len(g.payload)
      [] d.at = "FLUSH_WAIT" -> 4 + Len(g.payload) + Trailer(g.crc)

(* What is left of it on the wire.                                         *)
Left(w, g, n) ==
    /\ Len(w) = Len(g.bytes) - n
    /\ \A i \in 1 .. Len(w) : w[i] = g.bytes[n + i]

(* What the header has told, the payload left and its checksum.            *)
Told(g, d) == d.type = g.type /\ d.half = g.half /\ d.has_crc = g.crc

Midway(g, d, f, ps) ==
    CASE d.at \in {"IDLE", "HDR2_WAIT", "TYPE_RD"} -> Due(With(Fresh(g), f), g.data, g.meant, ps)
      [] d.at = "LEN_HI" -> Told(g, d) /\ Due(With(Fresh(g), f), g.data, g.meant, ps)
      [] d.at = "LEN_LO" ->
            /\ Told(g, d) /\ Due(With(Fresh(g), f), g.data, g.meant, ps)
            /\ d.plen = (Len(g.payload) \div 256) * 256
      [] d.at = "DATA" ->
            /\ Told(g, d) /\ d.plen = Len(g.payload) /\ d.crc = CrcUpTo(g.payload)[d.prx]
            /\ Reading(With(d, f), g, ps, d.prx)
      [] d.at \in {"CRC_HI", "CRC_LO", "FLUSH_WAIT"} ->
            /\ Told(g, d) /\ d.crc = CrcOf(g.payload)
            /\ Reading(With(d, f), g, ps, Len(g.payload))
            /\ d.at # "FLUSH_WAIT" => g.crc
            /\ d.at = "CRC_LO" => d.crc_rx = (CrcOf(g.payload) \div 256) * 256
            /\ d.at = "FLUSH_WAIT" /\ g.crc => d.crc_rx = CrcOf(g.payload)
      [] OTHER -> FALSE

Along(w, g, d, f, ps) == Left(w, g, PlaceIn(g, d)) /\ Midway(g, d, f, ps)

(* There is more to come, and it is the frame's next byte.                 *)
LEMMA PlacedIn ==
    ASSUME NEW g, Intact(g), NEW d, DecoderOK(d), NEW f, NEW ps, Midway(g, d, f, ps)
    PROVE  PlaceIn(g, d) \in Nat /\ PlaceIn(g, d) < Len(g.bytes) /\ Len(g.bytes) \in Nat
<1> DEFINE L == Len(g.payload)
           n == PlaceIn(g, d)
<1>1. L \in Nat /\ g.bytes \in Seq(Byte) /\ Len(g.bytes) = 5 + L + Trailer(g.crc) /\ L >= 1
    BY DEF Intact, Wrapped
<1>2. Len(g.bytes) \in Nat
    BY <1>1
<1>3. (IF g.crc THEN Trailer(g.crc) = 3 ELSE Trailer(g.crc) = 1) /\ Trailer(g.crc) \in {1, 3}
    BY DEF Trailer
<1> HIDE DEF L
<1>4. CASE d.at \in {"IDLE", "HDR2_WAIT", "TYPE_RD", "LEN_HI", "LEN_LO"}
    <2>1. n \in 0 .. 4
        BY <1>4 DEF PlaceIn
    <2> HIDE DEF n
    <2> QED BY <1>1, <1>2, <1>3, <2>1 DEF n
<1>5. CASE d.at = "DATA"
    <2>1. n = 5 + d.prx
        BY <1>5 DEF PlaceIn
    <2>2. d.prx < d.plen /\ d.plen = L /\ d.prx \in Nat
        <3>1. d.prx < d.plen /\ d.prx \in Word
            BY <1>5 DEF DecoderOK, Decoder
        <3>2. d.plen = L
            BY <1>5 DEF Midway, L
        <3> QED BY <3>1, <3>2, WordOf
    <2> HIDE DEF n
    <2> QED BY <1>1, <1>2, <1>3, <2>1, <2>2 DEF n
<1>6. CASE d.at \in {"CRC_HI", "CRC_LO"}
    <2>1. n \in {5 + L, 6 + L}
        BY <1>6 DEF PlaceIn, L
    <2>2. Trailer(g.crc) = 3
        BY <1>3, <1>6 DEF Midway
    <2> HIDE DEF n
    <2> QED BY <1>1, <1>2, <2>1, <2>2 DEF n
<1>7. CASE d.at = "FLUSH_WAIT"
    <2>1. n = 4 + L + Trailer(g.crc)
        BY <1>7 DEF PlaceIn, L
    <2> HIDE DEF n
    <2> QED BY <1>1, <1>2, <1>3, <2>1 DEF n
<1>8. d.at \in States /\ d.at # "STOP2_WAIT"
    <2>1. d.at \in States
        BY DEF DecoderOK, Decoder
    <2> QED BY <2>1 DEF Midway
<1> QED BY <1>4, <1>5, <1>6, <1>7, <1>8 DEF States

LEMMA NextByte ==
    ASSUME NEW w \in Seq(Byte), NEW g, NEW n \in Nat, Left(w, g, n), n < Len(g.bytes),
           Len(g.bytes) \in Nat
    PROVE  /\ w # <<>> /\ Head(w) = g.bytes[n + 1] /\ Tail(w) \in Seq(Byte)
           /\ Left(Tail(w), g, n + 1)
<1>1. Len(w) \in Nat /\ Len(w) = Len(g.bytes) - n /\ Len(w) >= 1
    BY DEF Left
<1>2. w # <<>>
    BY <1>1, EmptySeq
<1>3. /\ Head(w) = w[1] /\ Tail(w) \in Seq(Byte) /\ Len(Tail(w)) = Len(w) - 1
      /\ \A i \in 1 .. Len(Tail(w)) : Tail(w)[i] = w[i + 1]
    BY <1>2, HeadTailProperties
<1>4. Head(w) = g.bytes[n + 1]
    <2>1. 1 \in 1 .. Len(w)
        BY <1>1
    <2> QED BY <1>3, <2>1 DEF Left
<1> DEFINE t == Tail(w)
<1> HIDE DEF t
<1>5. Len(t) = Len(g.bytes) - (n + 1)
    BY <1>1, <1>3 DEF t
<1>6. ASSUME NEW i \in 1 .. Len(t) PROVE t[i] = g.bytes[n + 1 + i]
    <2> DEFINE j == i + 1
    <2>0. Len(t) \in Nat
        BY <1>3 DEF t
    <2>1. j \in 1 .. Len(w) /\ n + j = n + 1 + i
        BY <1>1, <1>5, <2>0
    <2> HIDE DEF j
    <2>2. w[j] = g.bytes[n + j]
        BY <2>1 DEF Left
    <2> QED BY <1>3, <2>1, <2>2 DEF t, j
<1>7. Left(t, g, n + 1)
    BY <1>5, <1>6 DEF Left
<1> QED BY <1>2, <1>3, <1>4, <1>7 DEF t

(* The byte that is due.                                                   *)
LEMMA DueByte ==
    ASSUME NEW g, Intact(g), NEW d, DecoderOK(d), NEW f, NEW ps,
           NEW w \in Seq(Byte), Along(w, g, d, f, ps)
    PROVE  /\ w # <<>> /\ Head(w) \in Byte /\ Tail(w) \in Seq(Byte)
           /\ Head(w) = g.bytes[PlaceIn(g, d) + 1] /\ Left(Tail(w), g, PlaceIn(g, d) + 1)
<1>1. PlaceIn(g, d) \in Nat /\ PlaceIn(g, d) < Len(g.bytes) /\ Len(g.bytes) \in Nat
    BY PlacedIn DEF Along
<1>2. /\ w # <<>> /\ Head(w) = g.bytes[PlaceIn(g, d) + 1] /\ Tail(w) \in Seq(Byte)
      /\ Left(Tail(w), g, PlaceIn(g, d) + 1)
    BY <1>1, NextByte DEF Along
<1>3. Head(w) \in Byte
    BY <1>2, HeadTailProperties
<1> QED BY <1>2, <1>3

(* Nothing a frame is read by has changed.                                 *)
SameRead(d, e) ==
    /\ e.type = d.type /\ e.half = d.half /\ e.dec = d.dec
    /\ e.mode = d.mode /\ e.count = d.count /\ e.val = d.val

LEMMA ReadingOn ==
    ASSUME NEW d, NEW e, SameRead(d, e), NEW f, NEW g, NEW ps, NEW k,
           Reading(With(d, f), g, ps, k)
    PROVE  Reading(With(e, f), g, ps, k)
<1>1. SameDue(With(d, f), With(e, f))
    BY DEF SameDue, With, SameRead
<1>2. With(d, f).d = d /\ With(e, f).d = e
    BY DEF With
<1>3. Due(With(d, f), g.data, g.meant, ps) /\ Len(g.data) = MaxDec(d)
    BY <1>2 DEF Reading
<1>4. Due(With(e, f), g.data, g.meant, ps) /\ MaxDec(e) = MaxDec(d)
    BY <1>1, <1>2, <1>3, DueOn
<1> QED BY <1>2, <1>3, <1>4 DEF Reading, SameRead

(* The first byte of the payload is next.                                  *)
LEMMA ReadingBegins ==
    ASSUME NEW g, Intact(g), NEW e, e.type = g.type, e.half = g.half, e.dec = 0,
           e.mode = "ctrl", e.count = 0, NEW f, NEW ps, Due(With(Fresh(g), f), g.data, g.meant, ps)
    PROVE  Reading(With(e, f), g, ps, 0)
<1>1. SameDue(With(Fresh(g), f), With(e, f)) /\ With(e, f).d = e
    BY DEF SameDue, With, Fresh
<1>2. Due(With(e, f), g.data, g.meant, ps)
    BY <1>1, DueOn
<1>3. Len(g.data) = MaxDec(e)
    BY DEF Intact, FrameSize, MaxDec, PlaneBytes, PlaneOf
<1>4. CASE IsRaw(g.type)
    <2>1. g.payload = g.data
        BY <1>4 DEF Intact, PayloadOf
    <2> QED BY <1>1, <1>2, <1>3, <1>4, <2>1 DEF Reading
<1>5. CASE ~IsRaw(g.type)
    <2>1. g.payload = PackBits(g.data) /\ g.data \in Seq(Byte)
        BY <1>5 DEF Intact, PayloadOf
    <2>2. Unpacking("ctrl", 0, e.val, 0, 0, g.data, g.payload)
        BY <2>1, UnpackingBegins
    <2> QED BY <1>1, <1>2, <1>3, <1>5, <2>2 DEF Reading
<1> QED BY <1>4, <1>5

(* The header states.                                                      *)
LEMMA HeaderAlong ==
    ASSUME NEW g, Intact(g), NEW d, DecoderOK(d), NEW f, NEW ps,
           NEW w \in Seq(Byte), Along(w, g, d, f, ps),
           d.at \notin {"DATA", "FLUSH_WAIT", "STOP2_WAIT"}
    PROVE  Along(Tail(w), g, Header(d, Head(w)), f, ps)
<1> DEFINE e == Header(d, Head(w))
           b == Head(w)
           L == Len(g.payload)
           c == CrcOf(g.payload)
           n == PlaceIn(g, d)
           due == Due(With(Fresh(g), f), g.data, g.meant, ps)
<1>1. b \in Byte /\ b = g.bytes[n + 1] /\ Left(Tail(w), g, n + 1)
    BY DueByte
<1>2. d \in Decoder /\ Midway(g, d, f, ps)
    BY DEF DecoderOK, Along
<1>3. /\ g.bytes[1] = HDR1 /\ g.bytes[2] = HDR2 /\ g.bytes[3] = TypeByte(g.type, g.half, g.crc)
      /\ g.bytes[4] = L \div 256 /\ g.bytes[5] = L % 256
      /\ g.crc => /\ g.bytes[5 + L + 1] = c \div 256 /\ g.bytes[5 + L + 2] = c % 256
    BY DEF Intact, Wrapped
<1>4. L \in Nat /\ L >= 1 /\ L <= 65535
    BY DEF Intact
<1>5. c \in Nat
    <2>1. c \in Word
        BY CrcIs DEF Intact
    <2> QED BY <2>1, WordOf
<1>6. SUFFICES Midway(g, e, f, ps) /\ PlaceIn(g, e) = n + 1
    BY <1>1 DEF Along
<1>15. d \in Decoder
    BY <1>2
<1> HIDE DEF b, L, c, n, due, e
<1>7. CASE d.at = "IDLE"
    <2>1. n = 0 /\ due
        BY <1>2, <1>7 DEF PlaceIn, Midway, n, due
    <2>2. b = HDR1
        BY <1>1, <1>3, <2>1
    <2>3. e = [d EXCEPT !.at = "HDR2_WAIT"]
        BY <1>7, <2>2 DEF Header, b, e, HDR1, STOP1
    <2>4. e.at = "HDR2_WAIT"
        BY <1>15, <2>3 DEF Decoder
    <2> QED BY <2>1, <2>4 DEF PlaceIn, Midway, due
<1>8. CASE d.at = "HDR2_WAIT"
    <2>1. n = 1 /\ due
        BY <1>2, <1>8 DEF PlaceIn, Midway, n, due
    <2>2. b = HDR2
        BY <1>1, <1>3, <2>1
    <2>3. e = [d EXCEPT !.at = "TYPE_RD"]
        BY <1>8, <2>2 DEF Header, b, e
    <2>4. e.at = "TYPE_RD"
        BY <1>15, <2>3 DEF Decoder
    <2> QED BY <2>1, <2>4 DEF PlaceIn, Midway, due
<1>9. CASE d.at = "TYPE_RD"
    <2>1. n = 2 /\ due
        BY <1>2, <1>9 DEF PlaceIn, Midway, n, due
    <2>2. b = TypeByte(g.type, g.half, g.crc)
        BY <1>1, <1>3, <2>1
    <2>3. /\ b % HALF_FLAG = g.type /\ g.type <= DRLE2
          /\ ((b \div CRC_FLAG) % 2 = 1) = g.crc /\ ((b \div HALF_FLAG) % 2 = 1) = g.half
        <3>0. g.type \in 0 .. 5 /\ g.half \in BOOLEAN /\ g.crc \in BOOLEAN
            BY DEF Intact
        <3>1. /\ b % HALF_FLAG = g.type
              /\ ((b \div CRC_FLAG) % 2 = 1) <=> g.crc
              /\ ((b \div HALF_FLAG) % 2 = 1) <=> g.half
            BY <2>2, <3>0, TypeByteIs
        <3>2. g.type <= DRLE2
            BY <3>0 DEF DRLE2
        <3> QED BY <3>0, <3>1, <3>2
    <2>4. e = [d EXCEPT !.has_crc = g.crc, !.half = g.half, !.type = g.type, !.at = "LEN_HI"]
        BY <1>9, <2>3 DEF Header, b, e
    <2>5. e.at = "LEN_HI" /\ Told(g, e)
        BY <1>15, <2>4 DEF Decoder, Told
    <2> QED BY <2>1, <2>5 DEF PlaceIn, Midway, due
<1>10. CASE d.at = "LEN_HI"
    <2>1. n = 3 /\ due /\ Told(g, d)
        BY <1>2, <1>10 DEF PlaceIn, Midway, n, due
    <2>2. b = L \div 256
        BY <1>1, <1>3, <2>1
    <2>3. e = [d EXCEPT !.plen = b * 256, !.at = "LEN_LO"]
        BY <1>10 DEF Header, b, e
    <2>4. e.at = "LEN_LO" /\ Told(g, e) /\ e.plen = (L \div 256) * 256
        BY <1>15, <2>1, <2>2, <2>3 DEF Decoder, Told
    <2> QED BY <2>1, <2>4 DEF PlaceIn, Midway, due, L
<1>11. CASE d.at = "LEN_LO"
    <2>1. n = 4 /\ due /\ Told(g, d) /\ d.plen = (L \div 256) * 256
        BY <1>2, <1>11 DEF PlaceIn, Midway, n, due, L
    <2>2. b = L % 256
        BY <1>1, <1>3, <2>1
    <2> DEFINE m == d.plen + b
               r == [d EXCEPT !.plen = m]
               t == ResetFrame(r)
    <2>3. m = L
        BY <1>4, <2>1, <2>2 DEF m
    <2>4. L \in Word
        BY <1>4, WordOf
    <2> HIDE DEF m
    <2>14. m \in Word
        BY <2>3, <2>4
    <2>15. r \in Decoder /\ r.plen = m
        BY <1>15, <2>14, ZenonT(60) DEF Decoder
    <2>16. r.type = d.type /\ r.half = d.half /\ r.has_crc = d.has_crc
        BY <1>15 DEF Decoder
    <2>5. r \in Decoder /\ r.plen = L /\ Told(g, r)
        BY <2>1, <2>3, <2>15, <2>16 DEF Told
    <2>6. e = [t EXCEPT !.at = IF t.plen > 0 THEN "DATA" ELSE AfterPayload(t)]
        BY <1>15, <1>11 DEF Header, Decoder, b, e, r, m
    <2> HIDE DEF r
    <2>7. /\ t \in Decoder /\ t.dec = 0 /\ t.prx = 0 /\ t.mode = "ctrl" /\ t.plen = L
          /\ t.has_crc = r.has_crc
        BY <2>5, ResetKeeps
    <2>8. t.count = 0 /\ t.crc = CrcStart /\ t.type = r.type /\ t.half = r.half
        BY <2>5 DEF ResetFrame, Decoder
    <2> HIDE DEF t
    <2>9. e = [t EXCEPT !.at = "DATA"]
        BY <1>4, <2>6, <2>7
    <2>10. /\ e.at = "DATA" /\ Told(g, e) /\ e.plen = L /\ e.prx = 0 /\ e.crc = CrcStart
           /\ e.dec = 0 /\ e.mode = "ctrl" /\ e.count = 0
        BY <2>5, <2>7, <2>8, <2>9 DEF Told, Decoder
    <2>11. Reading(With(e, f), g, ps, 0)
        BY <2>1, <2>10, ReadingBegins DEF Told, due
    <2>12. e.crc = CrcUpTo(g.payload)[0]
        BY <2>10, CrcIs DEF Intact
    <2>13. PlaceIn(g, e) = n + 1
        BY <2>1, <2>10 DEF PlaceIn
    <2> QED BY <2>10, <2>11, <2>12, <2>13 DEF Midway, due, L
<1>12. CASE d.at = "CRC_HI"
    <2>1. /\ n = 5 + L /\ Told(g, d) /\ d.crc = c /\ g.crc
          /\ Reading(With(d, f), g, ps, L)
        BY <1>2, <1>12 DEF PlaceIn, Midway, n, due, L, c
    <2>2. b = c \div 256
        BY <1>1, <1>3, <2>1
    <2>3. e = [d EXCEPT !.crc_rx = b * 256, !.at = "CRC_LO"]
        BY <1>12 DEF Header, b, e
    <2>4. /\ e.at = "CRC_LO" /\ Told(g, e) /\ e.crc = c /\ e.crc_rx = (c \div 256) * 256
          /\ SameRead(d, e)
        BY <1>15, <2>1, <2>2, <2>3, ZenonT(60) DEF Decoder, Told, SameRead
    <2>5. Reading(With(e, f), g, ps, L)
        BY <2>1, <2>4, ReadingOn
    <2>6. PlaceIn(g, e) = n + 1
        BY <1>4, <2>1, <2>4 DEF PlaceIn, L
    <2> QED BY <2>1, <2>4, <2>5, <2>6 DEF Midway, due, L, c
<1>13. CASE d.at = "CRC_LO"
    <2>1. /\ n = 6 + L /\ Told(g, d) /\ d.crc = c /\ g.crc /\ d.crc_rx = (c \div 256) * 256
          /\ Reading(With(d, f), g, ps, L)
        BY <1>2, <1>13 DEF PlaceIn, Midway, n, due, L, c
    <2>2. b = c % 256
        <3>1. n + 1 = 5 + L + 2
            BY <1>4, <2>1
        <3> QED BY <1>1, <1>3, <2>1, <3>1
    <2> DEFINE m == d.crc_rx + b
    <2>3. m = c
        BY <1>5, <2>1, <2>2
    <2>4. e = [d EXCEPT !.crc_rx = m, !.at = "FLUSH_WAIT"]
        BY <1>15, <1>13 DEF Header, Decoder, b, e, m
    <2>5. /\ e.at = "FLUSH_WAIT" /\ Told(g, e) /\ e.crc = c /\ e.crc_rx = c
          /\ SameRead(d, e)
        BY <1>15, <2>1, <2>3, <2>4 DEF Decoder, Told, SameRead
    <2>6. Reading(With(e, f), g, ps, L)
        BY <2>1, <2>5, ReadingOn
    <2>7. PlaceIn(g, e) = n + 1
        BY <1>4, <2>1, <2>5 DEF PlaceIn, L, Trailer
    <2> QED BY <2>1, <2>5, <2>6, <2>7 DEF Midway, due, L, c
<1>14. d.at \in States
    BY <1>2 DEF Decoder
<1> QED BY <1>7, <1>8, <1>9, <1>10, <1>11, <1>12, <1>13, <1>14 DEF States

LEMMA PairIs == \A s \in Pairs : With(s.d, s.fb) = s
BY DEF Pairs, With

LEMMA PairOf ==
    ASSUME NEW d, DecoderOK(d), d.at \in InFrame, NEW f \in Planes
    PROVE  With(d, f) \in Pairs /\ With(d, f).d = d /\ With(d, f).fb = f
BY DEF DecoderOK, Pairs, Within, With

(* The data state.                                                         *)
LEMMA DataAlong ==
    ASSUME NEW g, Intact(g), NEW d, DecoderOK(d), d.at = "DATA", NEW f \in Planes,
           NEW ps \in SUBSET Both, NEW w \in Seq(Byte), Along(w, g, d, f, ps)
    PROVE  LET u == Data(With(d, f), Head(w)) IN Along(Tail(w), g, u.d, u.fb, ps)
<1> DEFINE s == With(d, f)
           b == Head(w)
           u == Data(s, b)
           L == Len(g.payload)
           k == d.prx
           P == g.payload
<1>1. /\ b \in Byte /\ b = g.bytes[PlaceIn(g, d) + 1] /\ Left(Tail(w), g, PlaceIn(g, d) + 1)
    BY DueByte
<1>2. s \in Pairs /\ s.d = d
    BY PairOf DEF InFrame
<1>3. /\ d.type = g.type /\ d.half = g.half /\ d.has_crc = g.crc
      /\ d.plen = L /\ d.crc = CrcUpTo(P)[k] /\ Reading(s, g, ps, k)
    BY DEF Along, Midway, Told
<1>4. k \in Nat /\ k < L /\ L \in Nat
    <2>1. d.prx < d.plen /\ d.prx \in Word /\ d.plen \in Word
        BY DEF DecoderOK, Decoder
    <2> QED BY <1>3, <2>1, WordOf
<1>5. PlaceIn(g, d) = 5 + k
    BY DEF PlaceIn
<1>6. b = P[k + 1]
    <2>1. k + 1 \in 1 .. L /\ 5 + k + 1 = 5 + (k + 1)
        BY <1>4
    <2>2. \A j \in 1 .. L : g.bytes[5 + j] = P[j]
        BY DEF Intact, Wrapped
    <2> DEFINE j == k + 1
    <2> HIDE DEF L, P, k, b, j
    <2>3. j \in 1 .. L /\ 5 + k + 1 = 5 + j
        BY <2>1 DEF j
    <2>4. g.bytes[5 + j] = P[j]
        BY <2>2, <2>3
    <2> QED BY <1>1, <1>5, <2>3, <2>4 DEF j
<1>7. g.data \in Seq(Byte) /\ P \in Seq(Byte)
    BY DEF Intact
<1>8. /\ u \in Pairs /\ u.d.prx = k + 1 /\ u.d.crc = Crc16(d.crc, b)
      /\ u.d.plen = d.plen /\ u.d.has_crc = d.has_crc
      /\ u.d.type = d.type /\ u.d.half = d.half
      /\ u.d.at = IF k + 1 >= L THEN (IF g.crc THEN "CRC_HI" ELSE "FLUSH_WAIT") ELSE "DATA"
    <2>1. DecoderOK(s.d) /\ s.d.at = "DATA"
        BY <1>2
    <2> HIDE DEF s, b, L, k
    <2>2. /\ u.d.prx = s.d.prx + 1 /\ u.d.crc = Crc16(s.d.crc, b)
          /\ u.d.plen = s.d.plen /\ u.d.has_crc = s.d.has_crc
          /\ u.d.type = s.d.type /\ u.d.half = s.d.half
          /\ u.d.at = IF s.d.prx + 1 >= s.d.plen
                      THEN (IF s.d.has_crc THEN "CRC_HI" ELSE "FLUSH_WAIT") ELSE "DATA"
        BY <1>1, <1>2, <2>1, DataGoes
    <2>3. u \in Pairs
        BY <1>1, <1>2, <2>1, DataKeeps
    <2> QED BY <1>2, <1>3, <2>2, <2>3 DEF k
<1>9. Reading(u, g, ps, k + 1)
    <2>1. DecoderOK(s.d) /\ s.d.at = "DATA" /\ k < Len(g.payload) /\ b = g.payload[k + 1]
        BY <1>2, <1>4, <1>6
    <2> HIDE DEF s, b, k
    <2> QED BY <1>1, <1>2, <1>3, <1>4, <1>7, <2>1, DataReads
<1>10. u.d.crc = CrcUpTo(P)[k + 1]
    <2> DEFINE j == k + 1
    <2>1. j \in 1 .. L /\ j - 1 = k
        BY <1>4
    <2> HIDE DEF j, P, k, b, u
    <2>2. CrcUpTo(P)[j] = Crc16(CrcUpTo(P)[j - 1], P[j])
        BY <1>7, <2>1, CrcIs DEF P
    <2> QED BY <1>3, <1>6, <1>8, <2>1, <2>2 DEF j
<1> HIDE DEF u, s, b
<1>11. With(u.d, u.fb) = u
    BY <1>8, PairIs
<1>12. Told(g, u.d)
    BY <1>3, <1>8 DEF Told
<1>13. CASE k + 1 >= L
    <2>1. k + 1 = L /\ 5 + k + 1 = 5 + L
        BY <1>4, <1>13
    <2>2. u.d.crc = CrcOf(P)
        BY <1>10, <2>1 DEF CrcOf
    <2>3. CASE g.crc
        <3>1. u.d.at = "CRC_HI"
            BY <1>8, <1>13, <2>3
        <3>2. PlaceIn(g, u.d) = 5 + L
            BY <3>1 DEF PlaceIn
        <3>3. Midway(g, u.d, u.fb, ps)
            BY <1>9, <1>11, <1>12, <2>1, <2>2, <2>3, <3>1 DEF Midway
        <3> QED BY <1>1, <1>5, <2>1, <3>2, <3>3 DEF Along, u, s, b
    <2>4. CASE ~g.crc
        <3>1. u.d.at = "FLUSH_WAIT"
            BY <1>8, <1>13, <2>4
        <3>2. PlaceIn(g, u.d) = 5 + L
            <4>1. PlaceIn(g, u.d) = 4 + L + 1
                BY <2>4, <3>1 DEF PlaceIn, Trailer
            <4> QED BY <1>4, <4>1
        <3>3. Midway(g, u.d, u.fb, ps)
            BY <1>9, <1>11, <1>12, <2>1, <2>2, <2>4, <3>1 DEF Midway
        <3> QED BY <1>1, <1>5, <2>1, <3>2, <3>3 DEF Along, u, s, b
    <2> QED BY <2>3, <2>4
<1>14. CASE ~(k + 1 >= L)
    <2>1. u.d.at = "DATA"
        BY <1>8, <1>14
    <2>2. PlaceIn(g, u.d) = 5 + k + 1
        <3>1. PlaceIn(g, u.d) = 5 + (k + 1)
            BY <1>8, <2>1 DEF PlaceIn
        <3> QED BY <1>4, <3>1
    <2>3. Midway(g, u.d, u.fb, ps)
        <3>1. u.d.plen = L /\ u.d.prx = k + 1
            BY <1>3, <1>8
        <3> QED BY <1>9, <1>10, <1>11, <1>12, <2>1, <3>1 DEF Midway
    <2> QED BY <1>1, <1>5, <2>2, <2>3 DEF Along, u, s, b
<1> QED BY <1>13, <1>14

(* The flush, in its place: the checksum agrees and the planes looked at   *)
(* are what is meant.                                                      *)
LEMMA FlushAlong ==
    ASSUME NEW g, Intact(g), NEW d, DecoderOK(d), d.at = "FLUSH_WAIT", NEW f \in Planes,
           NEW ps \in SUBSET Carries(g.type), NEW w \in Seq(Byte), Along(w, g, d, f, ps)
    PROVE  /\ Head(w) = FLUSH /\ Tail(w) = <<>> /\ d.type = g.type
           /\ ~(d.has_crc /\ d.crc # d.crc_rx)
           /\ DrainAtEnd(With(d, f)).d.dec = MaxDec(d)
           /\ \A p \in ps : DrainAtEnd(With(d, f)).fb[p] = g.meant[p]
<1> DEFINE s == With(d, f)
           L == Len(g.payload)
<1>1. /\ Head(w) = g.bytes[PlaceIn(g, d) + 1] /\ Left(Tail(w), g, PlaceIn(g, d) + 1)
      /\ Tail(w) \in Seq(Byte)
    BY DueByte
<1>2. s \in Pairs /\ s.d = d
    BY PairOf DEF InFrame
<1>3. /\ Told(g, d) /\ d.crc = CrcOf(g.payload) /\ Reading(s, g, ps, L)
      /\ g.crc => d.crc_rx = CrcOf(g.payload)
    BY DEF Along, Midway
<1>4. L \in Nat /\ Trailer(g.crc) \in Nat
    BY DEF Intact, Trailer
<1>5. /\ Len(g.bytes) = 5 + L + Trailer(g.crc) /\ g.bytes[5 + L + Trailer(g.crc)] = FLUSH
      /\ Len(g.bytes) \in Nat
    BY SMTT(30) DEF Intact, Wrapped
<1>6. PlaceIn(g, d) + 1 = 5 + L + Trailer(g.crc)
    <2>1. PlaceIn(g, d) = 4 + L + Trailer(g.crc)
        BY DEF PlaceIn
    <2> QED BY <1>4, <2>1
<1>7. Head(w) = FLUSH
    BY <1>1, <1>5, <1>6
<1>8. Tail(w) = <<>>
    <2>1. Len(Tail(w)) = Len(g.bytes) - Len(g.bytes)
        BY <1>1, <1>5, <1>6 DEF Left
    <2>2. Len(Tail(w)) = 0
        <3> DEFINE x == Len(g.bytes)
        <3>1. x \in Nat /\ Len(Tail(w)) = x - x
            BY <1>5, <2>1
        <3> HIDE DEF x
        <3>2. x - x = 0
            BY <3>1
        <3> QED BY <3>1, <3>2
    <2> QED BY <1>1, <2>2, EmptySeq
<1>9. g.data \in Seq(Byte) /\ g.payload \in Seq(Byte) /\ ps \in SUBSET Both
      /\ \A p \in ps : g.meant[p] \in Plane
    BY DEF Intact, Carries, Both
<1>10. RunOK(s.d) /\ ps \subseteq Carries(s.d.type)
    BY <1>2, <1>3 DEF DecoderOK, Told
<1>11. /\ DrainAtEnd(s).d.dec = MaxDec(d)
       /\ \A p \in ps : DrainAtEnd(s).fb[p] = g.meant[p]
    <2> HIDE DEF s
    <2> QED BY <1>2, <1>3, <1>9, <1>10, EndReads
<1> QED BY <1>3, <1>7, <1>8, <1>11 DEF Told

(***************************************************************************)
(* The stream: while nothing has gone astray the decoder is where the host *)
(* is, in the host's frame or in its farewell.                             *)
(***************************************************************************)
(* The planes of a frame that will be what the host means: all of them, or *)
(* for a delta those that were.                                            *)
Watched(g) == IF IsDelta(g.type) THEN Carries(g.type) \ damaged ELSE Carries(g.type)

Coming(g) ==
    /\ Intact(g) /\ g.meant = meant /\ inflight = Carries(g.type) /\ pc["rx"] = "free"
    /\ Along(wire, g, dec, fb, Watched(g))

AtRest ==
    /\ wire = <<>> /\ inflight = {}
    /\ pc["rx"] = "flush" \/ (pc["rx"] = "free" /\ dec.at = "IDLE")

InPlace == vstream_active /\ ~astray /\ session # None => AtRest \/ \E g : Coming(g)

(* What has gone astray is known to.                                       *)
StrayMarked == vstream_active /\ astray => "bw" \in damaged

(* The host has said goodbye, or has never been there.                     *)
Goodbye ==
    /\ pc["rx"] = "free"
    /\ \/ dec.at = "IDLE" /\ (wire = <<>> \/ \E x \in {VIDEO_STOP2, PHOTO_STOP2} : wire = <<STOP1, x>>)
       \/ dec.at = "STOP2_WAIT" /\ \E x \in {VIDEO_STOP2, PHOTO_STOP2} : wire = <<x>>

Stopping ==
    vstream_active /\ ~astray /\ session = None => pc["rx"] \in {"cancel", "busy"} \/ Goodbye

(* Between frames the frame buffer holds what was sent.                    *)
Holding ==
    vstream_active /\ session # None =>
        \A p \in Both \ (damaged \cup inflight) : sent[p] # None => fb[p] = meant[p]

(* A frame waits for the panel.                                            *)
Ready ==
    pc["rx"] = "flush" =>
        /\ wire = <<>>
        /\ \A p \in Carries(dec.type) \ damaged : fb[p] = meant[p]
        /\ "bw" \notin damaged => fb.bw = ram.bw \/ (IsDelta(dec.type) => Lacking)

(* While a command runs or waits the host is silent.                       *)
Silent == todo # None \/ pc["cmd"] # "free" => wire = <<>> /\ session = None

PictureInv == InPlace /\ StrayMarked /\ Stopping /\ Holding /\ Ready /\ Silent

LEMMA WatchedIn == \A g : Watched(g) \in SUBSET Carries(g.type) /\ Watched(g) \in SUBSET Both
BY DEF Watched, Carries, Both

(* A frame on its way has bytes on the wire.                               *)
LEMMA ComingByte ==
    ASSUME StreamOK, Carried, NEW g, Coming(g)
    PROVE  wire # <<>> /\ "bw" \in inflight
<1>1. DecoderOK(dec)
    BY DEF StreamOK
<1>2. Intact(g) /\ Along(wire, g, dec, fb, Watched(g)) /\ wire \in Seq(Byte)
    BY DEF Coming, Carried
<1>3. wire # <<>>
    BY <1>1, <1>2, DueByte
<1> QED BY <1>3 DEF Coming, Carries, Both

(* Steps that leave the link and the decoder alone.                        *)
pictureVars == <<wire, dec, fb, ram, damaged, inflight, meant, session, sent, astray, vstream_active>>

LEMMA SteadyKeeps ==
    ASSUME PictureInv, UNCHANGED pictureVars, pc'["rx"] = pc["rx"],
           todo' # None \/ pc'["cmd"] # "free" => todo # None \/ pc["cmd"] # "free"
    PROVE  PictureInv'
<1>1. /\ wire' = wire /\ dec' = dec /\ fb' = fb /\ ram' = ram /\ damaged' = damaged
      /\ inflight' = inflight /\ meant' = meant /\ session' = session /\ sent' = sent
      /\ astray' = astray /\ vstream_active' = vstream_active
    BY DEF pictureVars
<1>2. InPlace'
    <2>1. ASSUME NEW g, Coming(g) PROVE Coming(g)'
        BY <1>1, <2>1 DEF Coming, Watched
    <2>2. AtRest => AtRest'
        BY <1>1 DEF AtRest
    <2> QED BY <1>1, <2>1, <2>2 DEF InPlace, PictureInv
<1>3. StrayMarked'
    BY <1>1 DEF StrayMarked, PictureInv
<1>4. Stopping'
    BY <1>1 DEF Stopping, Goodbye, PictureInv
<1>5. Holding'
    BY <1>1 DEF Holding, PictureInv
<1>6. Ready'
    BY <1>1 DEF Ready, Lacking, Marked, PictureInv
<1>7. Silent'
    BY <1>1 DEF Silent, PictureInv
<1> QED BY <1>2, <1>3, <1>4, <1>5, <1>6, <1>7 DEF PictureInv

(* Steps after which there is no stream.                                   *)
LEMMA OverKeeps ==
    ASSUME ~vstream_active', Ready', Silent'
    PROVE  PictureInv'
BY DEF PictureInv, InPlace, StrayMarked, Stopping, Holding

LEMMA NoFlush == ASSUME pc'["rx"] # "flush" PROVE Ready'
BY DEF Ready

(* A frame sent.                                                           *)
LEMMA SendKeeps ==
    ASSUME IInv, StreamOK, HostInv, PictureInv,
           NEW type \in Types, NEW half \in BOOLEAN, NEW new \in Pictures[half], SendFrame(type, new)
    PROVE  PictureInv'
<1>1. /\ session # None /\ wire = <<>> /\ pc["rx"] = "free"
      /\ IsDelta(type) => \A p \in Carries(type) : sent[p] # None
      /\ sent' = [p \in Both |-> IF p \in Carries(type) THEN new[p] ELSE sent[p]]
      /\ meant' = [p \in Both |-> IF p \in Carries(type) THEN Meant(new[p], session.half)
                                  ELSE meant[p]]
      /\ damaged' = damaged \cup inflight /\ inflight' = Carries(type)
      /\ astray' = (dec.at # "IDLE")
      /\ dec' = dec /\ fb' = fb /\ pc' = pc /\ session' = session /\ todo' = todo
      /\ vstream_active' = vstream_active
    BY DEF SendFrame, decVars, streamVars, threadVars
<1> DEFINE data == DataOf(type, new, sent)
           h == session.half
<1>2. /\ session \in [half : BOOLEAN, crc : BOOLEAN] /\ type \in 0 .. 5
      /\ \A p \in Both : new[p] \in Wired(h)
      /\ IsDelta(type) => \A p \in Carries(type) : sent[p] \in Wired(h)
      /\ Packs(data, type, h, new, sent)
      /\ PayloadOf(type, data) \in Seq(Byte)
      /\ Len(PayloadOf(type, data)) >= 1
      /\ Len(PayloadOf(type, data)) <= 65535
      /\ Wrapped(wire', type, h, session.crc, PayloadOf(type, data))
    BY FrameSent
<1>3. h \in BOOLEAN /\ session.crc \in BOOLEAN /\ Carries(type) \subseteq Both
    BY <1>2 DEF Carries, Both
<1> HIDE DEF data, h
<1>4. PICK g :
          /\ g.type = type /\ g.half = h /\ g.crc = session.crc /\ g.data = data
          /\ g.payload = PayloadOf(type, data) /\ g.bytes = wire' /\ g.meant = meant'
    <2> WITNESS [type |-> type, half |-> h, crc |-> session.crc, data |-> data,
                 payload |-> PayloadOf(type, data), bytes |-> wire', meant |-> meant']
    <2> QED OBVIOUS
<1>5. \A p \in Carries(type) : meant'[p] = Meant(new[p], h) /\ meant'[p] \in Plane
    <2> TAKE p \in Carries(type)
    <2>1. p \in Both /\ new[p] \in Wired(h)
        BY <1>2, <1>3
    <2>2. meant'[p] = Meant(new[p], h)
        BY <1>1, <2>1 DEF h
    <2> QED BY <1>3, <2>1, <2>2, MeantIs
<1>6. Intact(g)
    BY <1>2, <1>3, <1>4, <1>5 DEF Intact, Packs
<1>7. ASSUME vstream_active, dec.at = "IDLE" PROVE Coming(g)'
    <2> DEFINE ps == Watched(g)'
    <2>1. ps = IF IsDelta(type) THEN Carries(type) \ damaged' ELSE Carries(type)
        BY <1>4 DEF Watched
    <2>2. ps \in SUBSET Carries(type)
        BY <2>1
    <2>3. \A p \in ps : new[p] \in Wired(h) /\ meant'[p] = Meant(new[p], h)
        BY <1>2, <1>3, <1>5, <2>2
    <2>4. ASSUME IsDelta(type), NEW p \in ps
          PROVE  sent[p] \in Wired(h) /\ fb[p] = Meant(sent[p], h)
        <3>1. p \in Carries(type) /\ p \in Both \ (damaged \cup inflight)
            BY <1>1, <1>3, <2>1, <2>4
        <3>2. sent[p] # None
            BY <1>1, <2>4, <3>1
        <3>3. fb[p] = meant[p]
            BY <1>1, <1>7, <3>1, <3>2 DEF PictureInv, Holding
        <3>4. sent[p] \in Wired(h) /\ meant[p] = Meant(sent[p], h)
            BY <1>1, <3>1, <3>2 DEF HostInv, MeansIt, h
        <3> QED BY <3>3, <3>4
    <2> HIDE DEF ps
    <2>5. Due(With([dec |-> 0, type |-> type, half |-> h], fb), data, meant', ps)
        BY <1>2, <1>3, <2>2, <2>3, <2>4, BeginDue
    <2>6. Due(With(Fresh(g), fb), g.data, g.meant, ps)
        BY <1>4, <2>5 DEF Fresh
    <2>7. Midway(g, dec, fb, ps)
        BY <1>7, <2>6 DEF Midway
    <2>8. PlaceIn(g, dec) = 0
        BY <1>7 DEF PlaceIn
    <2>9. Left(wire', g, 0)
        <3>1. wire' \in Seq(Byte)
            BY <1>2 DEF Wrapped
        <3>2. Len(wire') \in Nat
            BY <3>1
        <3>3. Len(wire') = Len(wire') - 0 /\ \A i \in 1 .. Len(wire') : wire'[i] = wire'[0 + i]
            BY <3>2
        <3> QED BY <1>4, <3>3 DEF Left
    <2>10. Along(wire', g, dec, fb, ps)
        BY <2>7, <2>8, <2>9 DEF Along
    <2>11. Along(wire', g, dec', fb', Watched(g)')
        BY <1>1, <2>10 DEF ps
    <2> QED BY <1>1, <1>4, <1>6, <2>11 DEF Coming
<1>8. InPlace'
    <2> SUFFICES ASSUME vstream_active', ~astray' PROVE \E x : Coming(x)'
        BY DEF InPlace
    <2>1. vstream_active /\ dec.at = "IDLE"
        BY <1>1
    <2> QED BY <1>7, <2>1
<1>9. StrayMarked'
    <2> SUFFICES ASSUME vstream_active', astray' PROVE "bw" \in damaged
        BY <1>1 DEF StrayMarked
    <2>1. vstream_active /\ dec.at # "IDLE"
        BY <1>1
    <2>2. CASE astray
        BY <2>1, <2>2 DEF PictureInv, StrayMarked
    <2>3. CASE ~astray
        <3>1. AtRest \/ \E x : Coming(x)
            BY <1>1, <2>1, <2>3 DEF PictureInv, InPlace
        <3>2. ~AtRest
            BY <1>1, <2>1 DEF AtRest
        <3>3. PICK x : Coming(x)
            BY <3>1, <3>2
        <3> QED BY <1>1, <3>3, ComingByte DEF HostInv
    <2> QED BY <2>2, <2>3
<1>10. Stopping'
    BY <1>1 DEF Stopping
<1>11. Holding'
    <2> SUFFICES ASSUME vstream_active', NEW p \in Both \ (damaged' \cup inflight'), sent'[p] # None
                 PROVE  fb'[p] = meant'[p]
        BY DEF Holding
    <2>1. /\ sent'[p] = sent[p] /\ meant'[p] = meant[p] /\ p \in Both \ (damaged \cup inflight)
          /\ vstream_active
        BY <1>1
    <2> QED BY <1>1, <2>1 DEF PictureInv, Holding
<1>12. Ready' /\ Silent'
    BY <1>1 DEF Ready, Silent, PictureInv
<1> QED BY <1>8, <1>9, <1>10, <1>11, <1>12 DEF PictureInv

(* Bytes lost or turned over.                                              *)
LEMMA FaultKeeps ==
    ASSUME StreamOK, Carried, PictureInv, wire # <<>>, session # None,
           damaged' = damaged \cup inflight, astray' = TRUE,
           UNCHANGED <<dec, fb, ram, vstream_active, pc, todo, session, sent, meant, inflight>>
    PROVE  PictureInv'
<1>1. InPlace' /\ Stopping'
    BY DEF InPlace, Stopping
<1>2. StrayMarked'
    <2> SUFFICES ASSUME vstream_active PROVE "bw" \in damaged \cup inflight
        BY DEF StrayMarked
    <2>1. CASE astray
        BY <2>1 DEF PictureInv, StrayMarked
    <2>2. CASE ~astray
        <3>1. PICK g : Coming(g)
            BY <2>2 DEF PictureInv, InPlace, AtRest
        <3> QED BY <3>1, ComingByte
    <2> QED BY <2>1, <2>2
<1>3. Holding'
    BY DEF PictureInv, Holding
<1>4. Ready'
    BY DEF PictureInv, Ready
<1>5. Silent'
    BY DEF PictureInv, Silent
<1> QED BY <1>1, <1>2, <1>3, <1>4, <1>5 DEF PictureInv

(* The host's steps.                                                       *)
LEMMA HostPicture ==
    ASSUME IInv, StreamOK, HostInv, PictureInv, Host
    PROVE  PictureInv'
<1>0. Carried
    BY DEF HostInv
<1>1. CASE Connect
    BY <1>1, SteadyKeeps DEF Connect, pictureVars, decVars, streamVars, panelVars, threadVars, ghostVars
<1>2. CASE Disconnect
    <2>1. /\ pc["rx"] = "free" /\ wire' = <<>> /\ session' = None /\ todo' = None
          /\ vstream_active' = vstream_active /\ astray' = astray /\ fb' = fb
          /\ damaged' = damaged \cup inflight
          /\ vstream_active => pc' = [pc EXCEPT !["rx"] = "cancel"]
          /\ ~vstream_active => pc' = pc
        BY <1>2 DEF Disconnect
    <2>2. Ready'
        BY <2>1, NoFlush DEF IInv, ControlOK, Thread
    <2>3. Silent'
        BY <2>1 DEF Silent
    <2>4. CASE ~vstream_active
        BY <2>1, <2>2, <2>3, <2>4, OverKeeps
    <2>5. CASE vstream_active
        <3>1. pc'["rx"] = "cancel"
            BY <2>1, <2>5 DEF IInv, ControlOK, Thread
        <3>2. Stopping' /\ InPlace' /\ Holding'
            BY <2>1, <3>1 DEF Stopping, InPlace, Holding
        <3>3. StrayMarked'
            BY <2>1, <2>5 DEF PictureInv, StrayMarked
        <3> QED BY <2>2, <2>3, <3>2, <3>3 DEF PictureInv
    <2> QED BY <2>4, <2>5
<1>3. CASE Corrupt
    BY <1>0, <1>3, FaultKeeps DEF Corrupt, decVars, streamVars, panelVars, threadVars
<1>4. ASSUME NEW n, Lose(n) PROVE PictureInv'
    BY <1>0, <1>4, FaultKeeps DEF Lose, decVars, streamVars, panelVars, threadVars
<1>5. ASSUME NEW c \in {"start", "stop"}, Ask(c) PROVE PictureInv'
    <2>1. ~vstream_active' /\ pc["rx"] = "free" /\ pc' = pc /\ wire' = <<>> /\ session' = None
        BY <1>5 DEF Ask, streamVars, threadVars
    <2>2. Ready' /\ Silent'
        BY <2>1 DEF Ready, Silent
    <2> QED BY <2>1, <2>2, OverKeeps
<1>6. ASSUME NEW second \in {VIDEO_STOP2, PHOTO_STOP2}, SendStop(second) PROVE PictureInv'
    <2>1. /\ session # None /\ wire = <<>> /\ pc["rx"] = "free" /\ wire' = <<STOP1, second>>
          /\ session' = None
          /\ UNCHANGED <<dec, fb, ram, damaged, inflight, meant, sent, astray, vstream_active,
                         todo, pc>>
        BY <1>6 DEF SendStop, decVars, streamVars, panelVars, threadVars, ghostVars
    <2>2. Ready' /\ Silent'
        BY <2>1 DEF Ready, Silent, PictureInv
    <2>3. InPlace' /\ Holding'
        BY <2>1 DEF InPlace, Holding
    <2>4. StrayMarked'
        BY <2>1 DEF StrayMarked, PictureInv
    <2>5. Stopping'
        <3> SUFFICES ASSUME vstream_active, ~astray PROVE Goodbye'
            BY <2>1 DEF Stopping
        <3>1. AtRest \/ \E g : Coming(g)
            BY <2>1 DEF PictureInv, InPlace
        <3>2. AtRest
            BY <1>0, <2>1, <3>1, ComingByte
        <3>3. dec.at = "IDLE"
            BY <2>1, <3>2 DEF AtRest
        <3> QED BY <2>1, <3>3 DEF Goodbye
    <2> QED BY <2>2, <2>3, <2>4, <2>5 DEF PictureInv
<1>7. ASSUME NEW type \in Types, NEW half \in BOOLEAN, NEW new \in Pictures[half],
             SendFrame(type, new)
      PROVE  PictureInv'
    BY <1>7, SendKeeps
<1> QED BY <1>1, <1>2, <1>3, <1>4, <1>5, <1>6, <1>7 DEF Host

(* A CRC that does not let a damaged frame pass.                           *)
Detected == Flush /\ astray => CrcBad

(* A byte that no stream takes.                                            *)
LEMMA IgnoredPicture == ASSUME PictureInv, Ignored PROVE PictureInv'
<1>1. /\ wire # <<>> /\ pc["rx"] = "free" /\ ~vstream_active'
      /\ UNCHANGED <<pc, todo, session>>
    BY DEF Ignored, Arrives, streamVars, threadVars
<1>2. Silent'
    BY <1>1 DEF Silent, PictureInv
<1> QED BY <1>1, <1>2, NoFlush, OverKeeps

(* A byte of a stream leaves the command thread idle.                      *)
LEMMA BytesSilent ==
    ASSUME PictureInv, wire # <<>>, UNCHANGED todo, pc'["cmd"] = pc["cmd"]
    PROVE  Silent'
BY DEF Silent, PictureInv

(* While nothing has gone astray it is the host's frame, or its farewell.  *)
LEMMA ByteOf ==
    ASSUME PictureInv, Arrives, vstream_active, ~astray
    PROVE  IF session = None THEN Goodbye ELSE \E g : Coming(g)
BY DEF Arrives, PictureInv, InPlace, Stopping, AtRest

(* A byte of a header, or of a checksum.                                   *)
LEMMA HeaderPicture ==
    ASSUME StreamOK, HostInv, PictureInv, HeaderByte
    PROVE  PictureInv'
<1>1. /\ Arrives /\ wire # <<>> /\ pc["rx"] = "free" /\ vstream_active /\ wire' = Tail(wire)
      /\ dec.at \notin {"DATA", "FLUSH_WAIT", "STOP2_WAIT"} /\ dec' = Header(dec, Head(wire))
      /\ UNCHANGED <<fb, ram, pc, todo, session, sent, meant, vstream_active,
                     damaged, inflight, astray>>
    BY DEF HeaderByte, Arrives, Received, streamVars, threadVars, ghostVars, panelVars
<1>2. InPlace'
    <2> SUFFICES ASSUME ~astray, session # None PROVE \E x : Coming(x)'
        BY <1>1 DEF InPlace
    <2>1. PICK g : Coming(g)
        BY <1>1, ByteOf
    <2>2. Along(Tail(wire), g, Header(dec, Head(wire)), fb, Watched(g))
        BY <1>1, <2>1, HeaderAlong DEF Coming, StreamOK, HostInv, Carried
    <2>3. Watched(g)' = Watched(g)
        BY <1>1 DEF Watched
    <2>4. Coming(g)'
        BY <1>1, <2>1, <2>2, <2>3 DEF Coming
    <2> QED BY <2>4
<1>3. Stopping'
    <2> SUFFICES ASSUME ~astray, session = None PROVE Goodbye'
        BY <1>1 DEF Stopping
    <2>1. Goodbye
        BY <1>1, ByteOf
    <2>2. PICK x \in {VIDEO_STOP2, PHOTO_STOP2} : dec.at = "IDLE" /\ wire = <<STOP1, x>>
        BY <1>1, <2>1 DEF Goodbye
    <2>3. Head(wire) = STOP1 /\ wire' = <<x>>
        BY <1>1, <2>2
    <2>4. dec' = [dec EXCEPT !.at = "STOP2_WAIT"]
        BY <1>1, <2>2, <2>3 DEF Header, STOP1, HDR1
    <2>5. dec'.at = "STOP2_WAIT"
        BY <2>4 DEF StreamOK, DecoderOK, Decoder
    <2> QED BY <1>1, <2>3, <2>5 DEF Goodbye
<1>4. StrayMarked' /\ Holding'
    BY <1>1 DEF StrayMarked, Holding, PictureInv
<1>5. Ready' /\ Silent'
    BY <1>1, NoFlush, BytesSilent
<1> QED BY <1>2, <1>3, <1>4, <1>5 DEF PictureInv

(* A byte of a payload.                                                    *)
LEMMA DataPicture ==
    ASSUME StreamOK, HostInv, PictureInv, DataByte
    PROVE  PictureInv'
<1> DEFINE u == Data(With(dec, fb), Head(wire))
<1>1. /\ Arrives /\ wire # <<>> /\ pc["rx"] = "free" /\ vstream_active /\ wire' = Tail(wire)
      /\ dec.at = "DATA" /\ dec' = u.d /\ fb' = u.fb
      /\ damaged' = IF astray THEN damaged \cup Carries(dec.type) ELSE damaged
      /\ UNCHANGED <<ram, pc, todo, session, sent, meant, vstream_active, inflight, astray>>
    BY DEF DataByte, Arrives, Received, streamVars, threadVars, panelVars
<1> HIDE DEF u
<1>2. InPlace'
    <2> SUFFICES ASSUME ~astray, session # None PROVE \E x : Coming(x)'
        BY <1>1 DEF InPlace
    <2>1. PICK g : Coming(g)
        BY <1>1, ByteOf
    <2>2. /\ Intact(g) /\ DecoderOK(dec) /\ fb \in Planes /\ Watched(g) \in SUBSET Both
          /\ wire \in Seq(Byte) /\ Along(wire, g, dec, fb, Watched(g))
        BY <2>1, WatchedIn DEF Coming, StreamOK, HostInv, Carried
    <2>3. Along(Tail(wire), g, u.d, u.fb, Watched(g))
        BY <1>1, <2>2, DataAlong DEF u
    <2>4. Watched(g)' = Watched(g)
        BY <1>1 DEF Watched
    <2>5. Coming(g)'
        BY <1>1, <2>1, <2>3, <2>4 DEF Coming
    <2> QED BY <2>5
<1>3. Stopping'
    <2> SUFFICES ASSUME ~astray, session = None PROVE FALSE
        BY <1>1 DEF Stopping
    <2> QED BY <1>1, ByteOf DEF Goodbye
<1>4. StrayMarked'
    BY <1>1 DEF StrayMarked, PictureInv
<1>5. Holding'
    <2> SUFFICES ASSUME session # None, NEW p \in Both \ (damaged' \cup inflight'), sent[p] # None
                 PROVE  fb'[p] = meant[p]
        BY <1>1 DEF Holding
    <2>1. p \notin Carries(dec.type)
        <3>1. CASE astray
            BY <1>1, <3>1
        <3>2. CASE ~astray
            <4>1. PICK g : Coming(g)
                BY <1>1, <3>2, ByteOf
            <4>2. inflight = Carries(g.type) /\ dec.type = g.type
                BY <1>1, <4>1 DEF Coming, Along, Midway, Told
            <4> QED BY <1>1, <4>2
        <3> QED BY <3>1, <3>2
    <2>2. p \in Both \ (damaged \cup inflight)
        BY <1>1
    <2>3. fb[p] = meant[p]
        BY <1>1, <2>2 DEF Holding, PictureInv
    <2>4. With(dec, fb) \in Pairs /\ With(dec, fb).d = dec /\ With(dec, fb).fb = fb
        BY <1>1, PairOf DEF StreamOK, InFrame
    <2>5. Head(wire) \in Byte /\ DecoderOK(dec)
        BY <1>1, HeadByte DEF HostInv, StreamOK
    <2>6. Spares(With(dec, fb), u)
        BY <1>1, <2>4, <2>5, DataSpares DEF u
    <2>7. u.fb[p] = fb[p]
        BY <2>1, <2>2, <2>4, <2>6 DEF Spares
    <2> QED BY <1>1, <2>3, <2>7
<1>6. Ready' /\ Silent'
    BY <1>1, NoFlush, BytesSilent
<1> QED BY <1>2, <1>3, <1>4, <1>5, <1>6 DEF PictureInv

(* A byte where the flush is due: nothing but the flush, unless something  *)
(* has gone astray.                                                        *)
LEMMA FlushDue ==
    ASSUME StreamOK, HostInv, PictureInv, Arrives, vstream_active, dec.at = "FLUSH_WAIT", ~astray
    PROVE  /\ session # None /\ Head(wire) = FLUSH /\ Tail(wire) = <<>> /\ ~CrcBad
           /\ inflight = Carries(dec.type)
           /\ DrainAtEnd(With(dec, fb)).d.dec = MaxDec(dec)
           /\ \A p \in Carries(dec.type) : (IsDelta(dec.type) => p \notin damaged) =>
                  DrainAtEnd(With(dec, fb)).fb[p] = meant[p]
<1>1. session # None
    BY ByteOf DEF Goodbye
<1>2. PICK g : Coming(g)
    BY <1>1, ByteOf
<1>3. /\ Intact(g) /\ DecoderOK(dec) /\ fb \in Planes /\ Watched(g) \in SUBSET Carries(g.type)
      /\ wire \in Seq(Byte) /\ Along(wire, g, dec, fb, Watched(g)) /\ g.meant = meant
      /\ inflight = Carries(g.type)
    BY <1>2, WatchedIn DEF Coming, StreamOK, HostInv, Carried
<1>4. /\ Head(wire) = FLUSH /\ Tail(wire) = <<>> /\ dec.type = g.type
      /\ ~(dec.has_crc /\ dec.crc # dec.crc_rx)
      /\ DrainAtEnd(With(dec, fb)).d.dec = MaxDec(dec)
      /\ \A p \in Watched(g) : DrainAtEnd(With(dec, fb)).fb[p] = g.meant[p]
    BY <1>3, FlushAlong
<1>5. ASSUME NEW p \in Carries(dec.type), IsDelta(dec.type) => p \notin damaged
      PROVE  p \in Watched(g)
    BY <1>4, <1>5 DEF Watched
<1> QED BY <1>1, <1>3, <1>4, <1>5 DEF CrcBad

LEMMA EndsInFlushIs ==
    ASSUME StreamOK, HostInv, PictureInv
    PROVE  EndsInFlush
<1> SUFFICES ASSUME FlushMissing PROVE "bw" \in damaged
    BY DEF EndsInFlush
<1>1. Arrives /\ vstream_active /\ dec.at = "FLUSH_WAIT" /\ Head(wire) # FLUSH
    BY DEF FlushMissing
<1>2. astray
    BY <1>1, FlushDue
<1> QED BY <1>1, <1>2 DEF PictureInv, StrayMarked

LEMMA MissingPicture ==
    ASSUME StreamOK, HostInv, PictureInv, FlushMissing
    PROVE  PictureInv'
<1>1. /\ Arrives /\ wire # <<>> /\ pc["rx"] = "free" /\ vstream_active
      /\ dec.at = "FLUSH_WAIT" /\ Head(wire) # FLUSH
      /\ UNCHANGED <<fb, ram, pc, todo, session, sent, meant, vstream_active,
                     damaged, inflight, astray>>
    BY DEF FlushMissing, Arrives, streamVars, threadVars, ghostVars, panelVars
<1>2. astray
    BY <1>1, FlushDue
<1>3. InPlace' /\ Stopping'
    BY <1>1, <1>2 DEF InPlace, Stopping
<1>4. StrayMarked' /\ Holding'
    BY <1>1 DEF StrayMarked, Holding, PictureInv
<1>5. Ready' /\ Silent'
    BY <1>1, NoFlush, BytesSilent
<1> QED BY <1>3, <1>4, <1>5 DEF PictureInv

(* The flush.                                                              *)
LEMMA FlushPicture ==
    ASSUME IInv, StreamOK, StreamOK', HostInv, PictureInv, SyncInv', Detected, Flush
    PROVE  PictureInv'
<1> DEFINE u == DrainAtEnd(With(dec, fb))
           type == dec.type
           whole == IF ~CrcBad /\ ~IsDelta(type) /\ u.d.dec = MaxDec(dec) THEN Carries(type) ELSE {}
           bad == IF CrcBad THEN Carries(type) ELSE {}
<1>1. /\ Arrives /\ wire # <<>> /\ pc["rx"] = "free" /\ vstream_active /\ wire' = Tail(wire)
      /\ dec.at = "FLUSH_WAIT" /\ fb' = u.fb
      /\ inflight' = {}
      /\ UNCHANGED <<ram, todo, session, sent, meant, vstream_active, astray>>
    BY DEF Flush, Arrives, Received, panelVars
<1>2. damaged' = ((damaged \cup bad) \ whole) \cup (IF PoisonedAfter THEN inflight ELSE {})
    BY DEF Flush
<1>3. IF PoisonedAfter THEN dec' = [u.d EXCEPT !.at = "IDLE"] /\ pc' = pc
                       ELSE dec' = u.d /\ pc' = [pc EXCEPT !["rx"] = "flush"]
    BY DEF Flush, threadVars
<1>4. With(dec, fb) \in Pairs /\ With(dec, fb).d = dec /\ With(dec, fb).fb = fb
    BY <1>1, PairOf DEF StreamOK, InFrame
<1>5. \A p \in Both \ Carries(type) : u.fb[p] = fb[p]
    BY <1>4, EndSpares DEF Spares
<1>6. "bw" \in Carries(type)
    BY DEF Carries, Both
<1>7. pc \in [Thread -> {"free", "clear", "ready", "flush"} \cup Ends]
    BY DEF IInv, ControlOK
<1>8. pc'["cmd"] = pc["cmd"]
    BY <1>3, <1>7 DEF Thread
<1>9. Silent'
    BY <1>1, <1>8, BytesSilent
<1>10. PoisonedAfter => pc'["rx"] = "free" /\ dec'.at = "IDLE"
    <2> DEFINE s == With(dec, fb)
    <2>0. s \in Pairs /\ DecoderOK(s.d)
        BY <1>4 DEF StreamOK
    <2> HIDE DEF s
    <2>1. u \in Pairs
        BY <1>1, <1>4, <2>0, DrainEndKeeps DEF s
    <2> HIDE DEF u
    <2> QED BY <1>1, <1>3, <2>1 DEF Pairs, Decoder
<1>11. dec'.type = type
    <2>1. Advances(With(dec, fb), With(dec', fb'))
        BY FlushKeeps
    <2> QED BY <2>1 DEF Advances, With
<1> HIDE DEF u, bad, whole
<1>12. CASE astray
    <2>1. CrcBad /\ PoisonedAfter
        BY <1>12 DEF Detected, PoisonedAfter
    <2>2. damaged' = damaged \cup Carries(type) \cup inflight
        BY <1>2, <2>1 DEF whole, bad
    <2>3. InPlace' /\ Stopping'
        BY <1>1, <1>12 DEF InPlace, Stopping
    <2>4. StrayMarked'
        BY <1>6, <2>2 DEF StrayMarked
    <2>5. Holding'
        <3> SUFFICES ASSUME session # None, NEW p \in Both \ damaged', sent[p] # None
                     PROVE  fb'[p] = meant[p]
            BY <1>1 DEF Holding
        <3>1. p \in Both \ (damaged \cup inflight) /\ p \in Both \ Carries(type)
            BY <2>2
        <3> QED BY <1>1, <1>5, <3>1 DEF Holding, PictureInv
    <2>6. Ready'
        BY <1>10, <2>1, NoFlush
    <2> QED BY <1>9, <2>3, <2>4, <2>5, <2>6 DEF PictureInv
<1>13. CASE ~astray
    <2>1. /\ session # None /\ wire' = <<>> /\ ~CrcBad /\ inflight = Carries(type)
          /\ u.d.dec = MaxDec(dec)
          /\ \A p \in Carries(type) : (IsDelta(type) => p \notin damaged) => u.fb[p] = meant[p]
        BY <1>1, <1>13, FlushDue DEF u
    <2>2. bad = {} /\ whole = IF IsDelta(type) THEN {} ELSE Carries(type)
        BY <2>1 DEF bad, whole
    <2>3. PoisonedAfter => IsDelta(type)
        BY <2>1 DEF PoisonedAfter
    <2>4. \A p \in Carries(type) \ damaged' : u.fb[p] = meant[p]
        <3> SUFFICES ASSUME NEW p \in Carries(type) \ damaged' PROVE u.fb[p] = meant[p]
            OBVIOUS
        <3>1. IsDelta(type) => p \notin damaged
            BY <1>2, <2>2
        <3> QED BY <2>1, <3>1
    <2>5. \A p \in Both \ damaged' : p \notin Carries(type) => p \in Both \ (damaged \cup inflight)
        <3> SUFFICES ASSUME NEW p \in Both \ damaged', p \notin Carries(type)
                     PROVE  p \notin damaged /\ p \notin inflight
            OBVIOUS
        <3>1. p \notin whole /\ p \notin inflight
            BY <2>1, <2>2
        <3> QED BY <1>2, <3>1
    <2>6. InPlace'
        <3>1. pc'["rx"] = "flush" \/ (pc'["rx"] = "free" /\ dec'.at = "IDLE")
            <4>1. CASE PoisonedAfter
                BY <1>10, <4>1
            <4>2. CASE ~PoisonedAfter
                <5>1. pc' = [pc EXCEPT !["rx"] = "flush"]
                    BY <1>3, <4>2
                <5>2. pc'["rx"] = "flush"
                    BY <1>7, <5>1 DEF Thread
                <5> QED BY <5>2
            <4> QED BY <4>1, <4>2
        <3>2. AtRest'
            BY <1>1, <2>1, <3>1 DEF AtRest
        <3> QED BY <3>2 DEF InPlace
    <2>7. StrayMarked' /\ Stopping'
        BY <1>1, <1>13, <2>1 DEF StrayMarked, Stopping
    <2>8. Holding'
        <3> SUFFICES ASSUME NEW p \in Both \ damaged', sent[p] # None PROVE fb'[p] = meant[p]
            BY <1>1 DEF Holding
        <3>1. CASE p \in Carries(type)
            BY <1>1, <2>4, <3>1
        <3>2. CASE p \notin Carries(type)
            <4>1. p \in Both \ (damaged \cup inflight)
                BY <2>5, <3>2
            <4>2. fb[p] = meant[p]
                BY <1>1, <2>1, <4>1 DEF Holding, PictureInv
            <4> QED BY <1>1, <1>5, <3>2, <4>2
        <3> QED BY <3>1, <3>2
    <2>9. Ready'
        <3> SUFFICES ASSUME pc'["rx"] = "flush"
                     PROVE  "bw" \notin damaged' => fb'.bw = ram'.bw \/ (IsDelta(dec'.type) => Lacking')
            BY <1>1, <1>11, <2>1, <2>4 DEF Ready
        <3> QED BY <1>1 DEF SyncInv
    <2> QED BY <1>9, <2>6, <2>7, <2>8, <2>9 DEF PictureInv
<1> QED BY <1>12, <1>13

(* The frame shown.                                                        *)
LEMMA ShowsPicture ==
    ASSUME IInv, StreamOK, PictureInv, FlushShows
    PROVE  PictureInv'
<1>1. /\ pc["rx"] = "flush" /\ pc' = [pc EXCEPT !["rx"] = "free"]
      /\ dec' = [dec EXCEPT !.at = "IDLE"]
      /\ UNCHANGED <<fb, wire, todo, session, sent, meant, vstream_active,
                     damaged, inflight, astray>>
    BY DEF FlushShows, hostVars
<1>2. pc'["rx"] = "free" /\ pc'["cmd"] = pc["cmd"] /\ dec'.at = "IDLE"
    BY <1>1 DEF IInv, ControlOK, Thread, StreamOK, DecoderOK, Decoder
<1>3. InPlace'
    <2> SUFFICES ASSUME vstream_active, ~astray, session # None PROVE AtRest'
        BY <1>1 DEF InPlace
    <2>1. AtRest
        BY <1>1 DEF PictureInv, InPlace, Coming
    <2> QED BY <1>1, <1>2, <2>1 DEF AtRest
<1>4. Stopping'
    BY <1>1 DEF Stopping, Goodbye, PictureInv
<1>5. StrayMarked' /\ Holding'
    BY <1>1 DEF StrayMarked, Holding, PictureInv
<1>6. Silent'
    BY <1>1, <1>2 DEF Silent, PictureInv
<1>7. Ready'
    BY <1>2, NoFlush
<1> QED BY <1>3, <1>4, <1>5, <1>6, <1>7 DEF PictureInv

(* The second byte of a stop.                                              *)
LEMMA StopPicture ==
    ASSUME IInv, StreamOK, HostInv, PictureInv, StopByte
    PROVE  PictureInv'
<1>1. /\ Arrives /\ wire # <<>> /\ pc["rx"] = "free" /\ vstream_active /\ wire' = Tail(wire)
      /\ dec.at = "STOP2_WAIT"
      /\ IF Head(wire) \in {VIDEO_STOP2, PHOTO_STOP2} THEN pc' = [pc EXCEPT !["rx"] = "cancel"]
                                                      ELSE pc' = pc
      /\ UNCHANGED <<fb, ram, todo, session, sent, meant, vstream_active,
                     damaged, inflight, astray>>
    BY DEF StopByte, Arrives, Received, ghostVars, panelVars
<1>2. pc'["cmd"] = pc["cmd"] /\ pc'["rx"] # "flush"
    BY <1>1 DEF IInv, ControlOK, Thread
<1>3. InPlace'
    <2> SUFFICES ASSUME ~astray, session # None PROVE FALSE
        BY <1>1 DEF InPlace
    <2>1. PICK g : Coming(g)
        BY <1>1, ByteOf
    <2> QED BY <1>1, <2>1 DEF Coming, Along, Midway
<1>4. Stopping'
    <2> SUFFICES ASSUME ~astray, session = None PROVE pc'["rx"] = "cancel"
        BY <1>1 DEF Stopping
    <2>1. Goodbye
        BY <1>1, ByteOf
    <2>2. Head(wire) \in {VIDEO_STOP2, PHOTO_STOP2}
        BY <1>1, <2>1 DEF Goodbye
    <2> QED BY <1>1, <2>2 DEF IInv, ControlOK, Thread
<1>5. StrayMarked' /\ Holding'
    BY <1>1 DEF StrayMarked, Holding, PictureInv
<1>6. Ready' /\ Silent'
    BY <1>1, <1>2, NoFlush, BytesSilent
<1> QED BY <1>3, <1>4, <1>5, <1>6 DEF PictureInv

(* The receive thread's steps.                                             *)
LEMMA ReceivePicture ==
    ASSUME IInv, StreamOK, StreamOK', HostInv, PictureInv, SyncInv', Detected, Receive
    PROVE  PictureInv'
BY IgnoredPicture, HeaderPicture, DataPicture, MissingPicture, FlushPicture, ShowsPicture,
   StopPicture DEF Receive

(* The command thread's.                                                   *)
LEMMA CommandPicture ==
    ASSUME IInv, StreamOK, PictureInv, Command
    PROVE  PictureInv'
<1>0. /\ pc \in [Thread -> {"free", "clear", "ready", "flush"} \cup Ends]
      /\ CmdAlone
    BY DEF IInv, ControlOK
<1>1. CASE CmdStop
    <2>1. /\ todo # None /\ pc' = [pc EXCEPT !["cmd"] = "cancel"]
          /\ UNCHANGED pictureVars
        BY <1>1, VStreamAssumption DEF CmdStop, Move, pictureVars, decVars, panelVars, ghostVars
    <2>2. pc'["rx"] = pc["rx"]
        BY <1>0, <2>1 DEF Thread
    <2> QED BY <2>1, <2>2, SteadyKeeps
<1>2. CASE CmdStart
    <2>1. /\ todo # None /\ pc' = [pc EXCEPT !["cmd"] = "clear"]
          /\ UNCHANGED pictureVars
        BY <1>2, VStreamAssumption DEF CmdStart, Move, pictureVars, decVars, streamVars
    <2>2. pc'["rx"] = pc["rx"]
        BY <1>0, <2>1 DEF Thread
    <2> QED BY <2>1, <2>2, SteadyKeeps
<1>3. CASE CmdPrimes
    <2>1. /\ pc["cmd"] = "clear" /\ pc' = [pc EXCEPT !["cmd"] = "ready"]
          /\ UNCHANGED <<vstream_active, wire, session, todo>>
        BY <1>3 DEF CmdPrimes, Move, streamVars, hostVars
    <2>2. ~vstream_active /\ pc["rx"] = "free" /\ pc'["rx"] = pc["rx"]
        BY <1>0, <2>1 DEF CmdAlone, Thread
    <2>3. Silent'
        BY <2>1 DEF Silent, PictureInv
    <2>4. Ready'
        BY <2>2, NoFlush
    <2> QED BY <2>1, <2>2, <2>3, <2>4, OverKeeps
<1>4. ASSUME NEW s, CmdReady(s) PROVE PictureInv'
    <2>1. /\ pc["cmd"] = "ready" /\ pc' = [pc EXCEPT !["cmd"] = "free"]
          /\ dec' = [ResetFrame(dec) EXCEPT !.at = "IDLE", !.has_crc = FALSE]
          /\ sent' = [p \in Both |-> None] /\ inflight' = {} /\ astray' = FALSE
          /\ UNCHANGED <<wire, todo>>
        BY <1>4 DEF CmdReady, Move
    <2>2. pc["rx"] = "free" /\ pc'["rx"] = "free" /\ pc'["cmd"] = "free" /\ todo' = None
        BY <1>0, <2>1 DEF CmdAlone, Thread
    <2>3. wire' = <<>>
        BY <2>1 DEF Silent, PictureInv
    <2>4. dec'.at = "IDLE"
        <3> DEFINE e == ResetFrame(dec)
        <3>1. e \in Decoder
            BY ResetKeeps DEF StreamOK, DecoderOK
        <3> HIDE DEF e
        <3> QED BY <2>1, <3>1 DEF Decoder, e
    <2>5. InPlace' /\ Stopping'
        BY <2>1, <2>2, <2>3, <2>4 DEF InPlace, AtRest, Stopping, Goodbye
    <2>6. StrayMarked' /\ Holding'
        BY <2>1 DEF StrayMarked, Holding
    <2>7. Ready' /\ Silent'
        BY <2>2, NoFlush DEF Silent
    <2> QED BY <2>5, <2>6, <2>7 DEF PictureInv
<1> QED BY <1>1, <1>2, <1>3, <1>4 DEF Command

(* The end of a stream, whoever brings it.                                 *)
LEMMA EndPicture ==
    ASSUME IInv, StreamOK, PictureInv, WatchdogFires \/ \E t \in Thread : Teardown(t)
    PROVE  PictureInv'
<1>0. /\ pc \in [Thread -> {"free", "clear", "ready", "flush"} \cup Ends]
      /\ CmdAlone /\ RxAlone
    BY DEF IInv, ControlOK
<1>1. CASE WatchdogFires
    <2>1. UNCHANGED <<pictureVars, todo>> /\ (pc' = pc \/ pc' = [pc EXCEPT !["wq"] = "busy"])
        BY <1>1 DEF WatchdogFires, Move, pictureVars, decVars, panelVars, threadVars, hostVars,
                    ghostVars
    <2>2. pc'["rx"] = pc["rx"] /\ pc'["cmd"] = pc["cmd"]
        BY <1>0, <2>1 DEF Thread
    <2> QED BY <2>1, <2>2, SteadyKeeps
<1>2. ASSUME NEW t \in Thread, Teardown(t) PROVE PictureInv'
    <2>1. /\ UNCHANGED <<fb, ram, wire, todo, session, sent, meant, damaged, inflight, astray>>
          /\ \E to : pc' = [pc EXCEPT ![t] = to]
          /\ pc[t] \in Ends /\ pc'[t] # "flush"
        BY <1>0, <1>2 DEF Teardown, TearBegins, TearStops, TearDrops, TearEnds, Move, decVars,
                          panelVars, hostVars, ghostVars, Ends
    <2>2. \A r \in Thread \ {t} : pc'[r] = pc[r]
        BY <1>0, <2>1
    <2>3. Silent'
        BY <2>1, <2>2 DEF Silent, PictureInv, Thread, Ends
    <2>4. t = "rx" => Ready'
        BY <2>1, NoFlush
    <2>5. CASE TearStops(t)
        <3>1. IF was_active[t]
              THEN dec' = [dec EXCEPT !.at = "IDLE"] /\ ~vstream_active'
              ELSE dec' = (IF t = "rx" THEN [dec EXCEPT !.at = "IDLE"] ELSE dec)
                   /\ vstream_active' = vstream_active
            BY <2>5 DEF TearStops
        <3>2. CASE ~was_active[t] /\ t # "rx"
            <4>1. UNCHANGED pictureVars /\ pc'["rx"] = pc["rx"]
                BY <2>1, <2>2, <3>1, <3>2 DEF pictureVars, Thread
            <4>2. todo' # None \/ pc'["cmd"] # "free" => todo # None \/ pc["cmd"] # "free"
                BY <2>1, <2>2 DEF Ends, Thread
            <4> QED BY <4>1, <4>2, SteadyKeeps
        <3>3. CASE was_active[t] \/ t = "rx"
            <4>1. ~vstream_active'
                <5>1. t = "rx" => was_active["rx"] = vstream_active
                    BY <1>0, <2>5 DEF RxAlone, TearStops
                <5>2. CASE was_active[t]
                    BY <3>1, <5>2
                <5>3. CASE ~was_active[t]
                    BY <3>1, <3>3, <5>1, <5>3
                <5> QED BY <5>2, <5>3
            <4>2. dec' = [dec EXCEPT !.at = "IDLE"]
                BY <3>1, <3>3
            <4>3. dec'.type = dec.type /\ dec'.y0 = dec.y0 /\ dec'.y1 = dec.y1
                BY <4>2 DEF StreamOK, DecoderOK, Decoder
            <4>4. CASE t # "rx"
                <5>1. pc'["rx"] = pc["rx"]
                    BY <2>2, <4>4 DEF Thread
                <5>2. Lacking => Lacking'
                    BY <2>1, <4>3 DEF Lacking, Marked
                <5>3. Ready'
                    BY <2>1, <4>3, <5>1, <5>2 DEF Ready, PictureInv
                <5> QED BY <2>3, <4>1, <5>3, OverKeeps
            <4> QED BY <2>3, <2>4, <4>1, <4>4, OverKeeps
        <3> QED BY <3>2, <3>3
    <2>6. CASE TearBegins(t) \/ TearDrops(t) \/ TearEnds(t)
        <3>1. UNCHANGED pictureVars
            BY <2>1, <2>6 DEF pictureVars, TearBegins, TearDrops, TearEnds, decVars, streamVars
        <3>2. CASE t # "rx"
            <4>1. pc'["rx"] = pc["rx"]
                BY <2>2, <3>2 DEF Thread
            <4>2. todo' # None \/ pc'["cmd"] # "free" => todo # None \/ pc["cmd"] # "free"
                BY <2>1, <2>2 DEF Ends, Thread
            <4> QED BY <3>1, <4>1, <4>2, SteadyKeeps
        <3>3. CASE t = "rx" /\ TearBegins(t)
            <4>1. pc["rx"] = "cancel" /\ pc'["rx"] = "busy"
                BY <1>0, <3>3 DEF TearBegins, Move
            <4>2. InPlace'
                BY <3>1, <4>1 DEF pictureVars, PictureInv, InPlace, AtRest, Coming
            <4>3. Stopping'
                BY <4>1 DEF Stopping
            <4>4. StrayMarked' /\ Holding'
                BY <3>1 DEF pictureVars, PictureInv, StrayMarked, Holding
            <4> QED BY <2>3, <2>4, <3>3, <4>2, <4>3, <4>4 DEF PictureInv
        <3>4. CASE t = "rx" /\ (TearDrops(t) \/ TearEnds(t))
            <4>1. ~vstream_active'
                BY <1>0, <3>1, <3>4 DEF TearDrops, TearEnds, RxAlone, pictureVars
            <4> QED BY <2>3, <2>4, <3>4, <4>1, OverKeeps
        <3> QED BY <2>6, <3>2, <3>3, <3>4
    <2> QED BY <1>2, <2>5, <2>6 DEF Teardown
<1> QED BY <1>1, <1>2

(* A frame that heals is whole.                                            *)
LEMMA HealsWholeIs ==
    ASSUME StreamOK, HostInv, PictureInv, Detected
    PROVE  HealsWhole
<1> SUFFICES ASSUME Flush, ~PoisonedAfter PROVE DrainAtEnd(With(dec, fb)).d.dec = MaxDec(dec)
    BY DEF HealsWhole
<1>1. ~astray
    BY DEF Detected, PoisonedAfter
<1>2. Arrives /\ vstream_active /\ dec.at = "FLUSH_WAIT"
    BY DEF Flush
<1> QED BY <1>1, <1>2, FlushDue

(***************************************************************************)
(* The decoder, the host, the panel and the picture together.              *)
(***************************************************************************)
StreamInv == StreamOK /\ HostInv /\ SyncInv /\ PictureInv

LEMMA InitStreamInv == Init => StreamInv
<1> SUFFICES ASSUME Init PROVE StreamInv
    OBVIOUS
<1>1. HostInv
    BY DEF Init, HostInv, Carried, SessionOK, MeansIt
<1>2. SyncInv
    BY DEF Init, SyncInv, Thread
<1>3. PictureInv
    BY DEF Init, PictureInv, InPlace, StrayMarked, Stopping, Holding, Ready, Silent, Thread
<1> QED BY <1>1, <1>2, <1>3, InitStream DEF StreamInv

LEMMA StepStreamInv ==
    ASSUME IInv, StreamInv, [Next]_vars, [Detected]_vars
    PROVE  StreamInv'
<1>0. Carried
    BY DEF StreamInv, HostInv
<1>1. StreamOK'
    BY <1>0, StepStream DEF StreamInv
<1>2. CASE UNCHANGED vars
    <2>1. HostInv'
        BY <1>2 DEF vars, hostVars, StreamInv, HostInv, Carried, SessionOK, MeansIt
    <2>2. SyncInv'
        BY <1>2 DEF vars, decVars, streamVars, panelVars, threadVars, ghostVars, StreamInv, SyncInv,
                    Lacking, Marked
    <2>3. UNCHANGED pictureVars /\ UNCHANGED <<pc, todo>>
        BY <1>2 DEF vars, decVars, streamVars, panelVars, threadVars, hostVars, ghostVars, pictureVars
    <2>4. PictureInv'
        BY <2>3, SteadyKeeps DEF StreamInv
    <2> QED BY <1>1, <2>1, <2>2, <2>4 DEF StreamInv
<1>3. CASE ~UNCHANGED vars
    <2>1. Next /\ Detected
        BY <1>3
    <2>2. HostInv'
        BY <2>1, HostStep DEF StreamInv
    <2>3. SyncInv'
        BY <1>0, <1>1, <2>1, EndsInFlushIs, StepSync DEF StreamInv
    <2>4. PictureInv'
        <3>1. CASE Host
            BY <3>1, HostPicture DEF StreamInv
        <3>2. CASE Receive
            BY <1>1, <2>1, <2>3, <3>2, ReceivePicture DEF StreamInv
        <3>3. CASE Command
            BY <3>3, CommandPicture DEF StreamInv
        <3>4. CASE WatchdogFires \/ \E t \in Thread : Teardown(t)
            BY <3>4, EndPicture DEF StreamInv
        <3> QED BY <2>1, <3>1, <3>2, <3>3, <3>4 DEF Next
    <2> QED BY <1>1, <2>2, <2>3, <2>4 DEF StreamInv
<1> QED BY <1>2, <1>3

(* The decoder is where the host is, and what it leaves in the frame       *)
(* buffer is what the host meant, as long as no damaged frame passes its   *)
(* checksum.  (vs_process_byte, vs_flush_frame)                            *)
THEOREM DecoderKeepsPlace == Spec /\ [][Detected]_vars => []StreamInv
<1>1. IInv /\ StreamInv /\ [Next]_vars /\ [Detected]_vars => StreamInv'
    BY StepStreamInv
<1> QED BY <1>1, InitStreamInv, ThreadsAgree, PTL DEF Spec

(* What the panel is given, plane by plane.                                *)
LEMMA ShowsSent ==
    ASSUME StreamOK, StreamOK', PictureInv, FlushShows
    PROVE  ShownIsSent'
<1> DEFINE dual == IsDual(dec.type)
           balance == on /\ (count + 1) % Interval = 0
           planes == Carries(dec.type)
<1>1. /\ pc["rx"] = "flush"
      /\ shown'.wrong = {p \in planes : ram'[p] # meant[p] /\ ~(balance /\ p = "red")}
      /\ shown'.damaged = damaged
    BY DEF FlushShows
<1>2. \A p \in planes \ damaged : fb[p] = meant[p]
    BY <1>1 DEF PictureInv, Ready
<1>3. ASSUME "bw" \notin damaged PROVE ram'.bw = meant.bw
    <2>1. ram'.bw = fb.bw
        <3>1. CASE ~IsDelta(dec.type)
            BY <3>1, ShowsLoad
        <3>2. CASE IsDelta(dec.type)
            <4>1. fb.bw = ram.bw \/ Lacking
                BY <1>1, <1>3, <3>2 DEF PictureInv, Ready
            <4>2. ASSUME NEW c \in Cells PROVE ram'.bw[c] = fb.bw[c]
                BY <4>1, ShowsLoad DEF Lacking
            <4>3. ram' \in Planes /\ fb \in Planes
                BY DEF StreamOK
            <4> QED BY <4>2, <4>3, SamePlane
        <3> QED BY <3>1, <3>2
    <2>2. "bw" \in planes
        BY DEF Carries, Both
    <2> QED BY <1>2, <1>3, <2>1, <2>2
<1>4. ASSUME "red" \in planes, "red" \notin damaged, ~balance PROVE ram'.red = meant.red
    <2>1. dual /\ planes = Both
        BY <1>4 DEF Carries
    <2>2. ram' = Loaded(Both)
        <3>1. ram' = IF ~on THEN Loaded(planes)
                     ELSE IF IsDelta(dec.type) THEN LoadedRows(dual, dec.y0, dec.y1)
                     ELSE LoadedRows(dual, 0, Rows)
            BY <1>4 DEF FlushShows
        <3> QED BY <2>1, <3>1 DEF LoadedRows
    <2>3. ram'.red = fb.red
        BY <2>2 DEF Loaded, Both
    <2> QED BY <1>2, <1>4, <2>3
<1>5. planes \subseteq {"bw", "red"}
    BY DEF Carries, Both
<1> HIDE DEF planes, balance
<1> QED BY <1>1, <1>3, <1>4, <1>5 DEF ShownIsSent

-----------------------------------------------------------------------------
(***************************************************************************)
(* What the host and the panel may rely on.  All of it holds as long as no *)
(* damaged frame passes its checksum: sixteen bits cannot promise that,    *)
(* and without it a decoder that has lost its place may take a picture's   *)
(* bytes for a frame.                                                      *)
(***************************************************************************)
(* A frame that the link has not damaged is never refused: its flush comes *)
(* where it is due, its checksum agrees, its planes are filled, and every  *)
(* plane it carries holds the picture the host encoded, a delta's as long  *)
(* as what it was a delta to was there.  (vs_process_byte,                 *)
(* vs_write_byte, vs_rle_feed, packbits_encode, half_frame, vs_wrap)       *)
Taken ==
    ~astray =>
        /\ ~FlushMissing
        /\ Flush => /\ ~CrcBad /\ DrainAtEnd(With(dec, fb)).d.dec = MaxDec(dec)
                    /\ \A p \in Carries(dec.type) :
                           (IsDelta(dec.type) => p \notin damaged) => fb'[p] = meant[p]

THEOREM IntactFramesAreTaken == Spec /\ [][Detected]_vars => [][Taken]_vars
<1>1. StreamInv /\ [Next]_vars => [Taken]_vars
    <2> SUFFICES ASSUME StreamInv, ~astray PROVE Taken
        BY DEF Taken
    <2>1. ~FlushMissing
        BY FlushDue DEF StreamInv, FlushMissing
    <2>2. ASSUME Flush
          PROVE  /\ ~CrcBad /\ DrainAtEnd(With(dec, fb)).d.dec = MaxDec(dec)
                 /\ \A p \in Carries(dec.type) :
                        (IsDelta(dec.type) => p \notin damaged) => fb'[p] = meant[p]
        <3>1. Arrives /\ vstream_active /\ dec.at = "FLUSH_WAIT"
              /\ fb' = DrainAtEnd(With(dec, fb)).fb
            BY <2>2 DEF Flush
        <3> QED BY <3>1, FlushDue DEF StreamInv
    <2> QED BY <2>1, <2>2 DEF Taken
<1> QED BY <1>1, DecoderKeepsPlace, PTL DEF Spec

(* What a frame with a bad CRC left in the black and white plane is never  *)
(* shown before a whole frame has overwritten it.  (vs_poisoned)           *)
THEOREM PoisonIsHeld == Spec /\ [][Detected]_vars => []PoisonHolds
<1>1. Init => PoisonInv
    BY DEF Init, PoisonInv, PoisonHolds, Thread
<1>2. IInv /\ StreamInv /\ PoisonInv /\ [Next]_vars /\ [Detected]_vars => PoisonInv'
    <2>1. CASE UNCHANGED vars
        BY <2>1 DEF vars, decVars, threadVars, ghostVars, PoisonInv, PoisonHolds
    <2>2. CASE ~UNCHANGED vars
        BY <2>2, HealsWholeIs, StepPoison DEF StreamInv
    <2> QED BY <2>1, <2>2
<1>3. PoisonInv => PoisonHolds
    BY DEF PoisonInv
<1> QED BY <1>1, <1>2, <1>3, ThreadsAgree, DecoderKeepsPlace, PTL DEF Spec

(* After a frame is shown the panel holds what the frame buffer does, for  *)
(* all that only the rows a delta touched were written, except while the   *)
(* host's picture of the plane is lost anyway.                             *)
(* (vs_flush_frame, write_partial_stream_rows)                             *)
Follows == FlushShows /\ vstream_active /\ "bw" \notin damaged => ram'.bw = fb'.bw

THEOREM PanelFollows == Spec /\ [][Detected]_vars => [][Follows]_vars
<1>1. StreamInv /\ StreamInv' /\ [Next]_vars => [Follows]_vars
    BY ShowsAll DEF StreamInv, Follows, FlushShows
<1> QED BY <1>1, DecoderKeepsPlace, PTL DEF Spec

(* A frame put on the panel is the picture the host sent, byte for byte    *)
(* and whatever its encoding, except in planes where a frame was lost or   *)
(* damaged and no whole frame has followed.  (vs_process_byte,             *)
(* vs_flush_frame)                                                         *)
THEOREM ShownIsWhatWasSent == Spec /\ [][Detected]_vars => []ShownIsSent
<1>1. Init => ShownIsSent
    BY DEF Init, ShownIsSent
<1>2. StreamInv /\ StreamInv' /\ ShownIsSent /\ [Next]_vars => ShownIsSent'
    <2> SUFFICES ASSUME StreamInv, StreamInv', ShownIsSent, [Next]_vars PROVE ShownIsSent'
        OBVIOUS
    <2>1. CASE FlushShows
        BY <2>1, ShowsSent DEF StreamInv
    <2>2. ASSUME shown' = shown PROVE ShownIsSent'
        BY <2>2 DEF ShownIsSent
    <2> USE DEF ghostVars
    <2>3. CASE Host
        BY <2>2, <2>3 DEF Host, Connect, Disconnect, Corrupt, Ask, SendFrame, SendStop, Lose
    <2>4. CASE Receive
        BY <2>1, <2>2, <2>4 DEF Receive, Ignored, HeaderByte, DataByte, FlushMissing, Flush, StopByte
    <2>5. CASE Command
        BY <2>2, <2>5 DEF Command, CmdStop, CmdStart, CmdPrimes, CmdReady
    <2>6. CASE WatchdogFires \/ \E t \in Thread : Teardown(t)
        BY <2>2, <2>6 DEF WatchdogFires, Teardown, TearBegins, TearStops, TearDrops, TearEnds
    <2>7. CASE UNCHANGED vars
        BY <2>2, <2>7 DEF vars
    <2> QED BY <2>3, <2>4, <2>5, <2>6, <2>7 DEF Next
<1> QED BY <1>1, <1>2, DecoderKeepsPlace, PTL DEF Spec
=============================================================================
