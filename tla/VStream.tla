------------------------------- MODULE VStream -------------------------------
(***************************************************************************)
(* A video stream from the host to the panel (src/app/commands.c).  The    *)
(* receive thread decodes the bytes straight into the frame buffer and     *)
(* shows a frame at its end; the command thread starts and stops streams;  *)
(* a watchdog on the system workqueue ends one that has gone silent.       *)
(* Whichever ends a stream gives up its HV rails, its connection           *)
(* parameters and the screensaver it displaced.                            *)
(*                                                                         *)
(* A thread is named where it blocks: waiting for the panel, for its lock, *)
(* or for the watchdog it cancels.                                         *)
(***************************************************************************)
EXTENDS StreamCodec

CONSTANTS
    Sessions,    \* what a host streams: records of half, crc
    Types,       \* the frame types hosts use
    Pictures,    \* the frames they send, two planes of wire bytes, by half
    Interval,    \* STREAM_REFRESH_INTERVAL
    Others,      \* how many partial frames others may count between streams
    None,
    MaxWork      \* bound: connections made, commands queued, frames sent and
                 \* faults on the way, together

Both == {"bw", "red"}

ASSUME VStreamAssumption ==
    /\ Sessions \subseteq [half : BOOLEAN, crc : BOOLEAN]
    /\ Types \subseteq RAW .. DRLE2
    /\ \A half \in BOOLEAN :
          LET size == IF half THEN Size \div 4 ELSE Size
          IN \A q \in Pictures[half] : q \in [Both -> [1 .. size -> Byte]]
    /\ Interval \in Nat \ {0, 1} /\ Others \subseteq Nat
    /\ MaxWork \in Nat
    /\ None \notin {"start", "stop"}

VARIABLES
    \* the decoder and what it writes
    dec, fb, vs_poisoned,
    \* the stream, and stream_partial_count of the panel's frames
    vstream_active, watchdog, count,
    \* what a stream takes: the rails, the connection, the red plane, the saver
    keep_on, streaming_mode, write_red, saver,
    on, ram,      \* the panel: streaming_active, and its RAM planes
    pc, was_active, restore,     \* of each thread
    todo,         \* the queued command
    \* the host and the link
    linked, wire, session, sent, meant, work,
    \* history: planes whose content is not what the host believes, planes a
    \* frame with a bad CRC has spoiled, planes of a frame not yet shown, what
    \* was wrong with the last frame shown, a photo left on the panel, a frame
    \* shown or a stream started while the watchdog ended another, and whether
    \* the decoder may have lost its place in the host's bytes
    damaged, spoiled, inflight, shown, photo, late, astray

decVars == <<dec, fb, vs_poisoned>>
streamVars == <<vstream_active, watchdog, count>>
takenVars == <<keep_on, streaming_mode, write_red, saver>>
panelVars == <<on, ram>>
threadVars == <<pc, was_active, restore>>
hostVars == <<todo, linked, wire, session, sent, meant, work>>
ghostVars == <<damaged, spoiled, inflight, shown, photo, late, astray>>
vars == <<decVars, streamVars, takenVars, panelVars, threadVars, hostVars, ghostVars>>

Thread == {"rx", "cmd", "wq"}

(* The planes a type carries.                                              *)
Carries(type) == IF IsDual(type) THEN Both ELSE {"bw"}

Black == [c \in Cells |-> 0]

Init ==
    /\ dec = Blank /\ fb = [bw |-> White, red |-> Black] /\ vs_poisoned = FALSE
    /\ vstream_active = FALSE /\ watchdog = FALSE /\ count = 0
    /\ keep_on = FALSE /\ streaming_mode = FALSE /\ write_red = FALSE /\ saver = TRUE
    /\ on = FALSE /\ ram = [bw |-> White, red |-> Black]
    /\ pc = [t \in Thread |-> "free"] /\ was_active = [t \in Thread |-> FALSE]
    /\ restore = [t \in Thread |-> FALSE]
    /\ todo = None /\ linked = FALSE /\ wire = <<>> /\ session = None
    /\ sent = [p \in Both |-> None] /\ meant = [bw |-> White, red |-> Black]
    /\ work = 0
    /\ damaged = {} /\ spoiled = {} /\ inflight = {}
    /\ shown = [wrong |-> {}, damaged |-> {}, spoiled |-> {}] /\ photo = FALSE /\ late = FALSE
    /\ astray = FALSE

(***************************************************************************)
(* The host.                                                               *)
(***************************************************************************)
Works == work < MaxWork /\ work' = work + 1

Connect ==
    /\ ~linked /\ pc["rx"] = "free" /\ Works
    /\ linked' = TRUE
    /\ UNCHANGED <<decVars, streamVars, takenVars, panelVars, threadVars, ghostVars,
                   todo, wire, session, sent, meant>>

(* A text line reaches the queue while no stream takes the bytes.  A host  *)
(* waits for the answer to one before it sends the next.                   *)
Ask(c) ==
    /\ linked /\ ~vstream_active /\ pc["rx"] = "free" /\ pc["cmd"] = "free" /\ wire = <<>>
    /\ todo = None /\ Works
    /\ todo' = c /\ session' = None
    /\ UNCHANGED <<decVars, streamVars, takenVars, panelVars, threadVars, ghostVars,
                   linked, wire, sent, meant>>

(* The bytes of the planes a frame carries, in order.                      *)
Joined(type, planes) ==
    IF IsDual(type) THEN planes["bw"] \o planes["red"] ELSE planes["bw"]

(* encode_frame: a delta needs a frame sent before.  A frame that has not  *)
(* been shown by now never will be.                                        *)
SendFrame(type, new) ==
    /\ linked /\ session # None /\ wire = <<>> /\ pc["rx"] = "free" /\ Works
    /\ new \in Pictures[session.half]
    /\ IsDelta(type) => \A p \in Carries(type) : sent[p] # None
    /\ wire' = Encode(type, session.half, session.crc, Joined(type, new), Joined(type, sent))
    /\ sent' = [p \in Both |-> IF p \in Carries(type) THEN new[p] ELSE sent[p]]
    /\ meant' = [p \in Both |-> IF p \in Carries(type) THEN Meant(new[p], session.half)
                                ELSE meant[p]]
    /\ damaged' = damaged \cup inflight /\ inflight' = Carries(type)
    /\ astray' = (dec.at # "IDLE")
    /\ UNCHANGED <<decVars, streamVars, takenVars, panelVars, threadVars,
                   todo, linked, session, spoiled, shown, photo, late>>

(* The binary stop escapes.                                                *)
SendStop(second) ==
    /\ linked /\ session # None /\ wire = <<>> /\ pc["rx"] = "free"
    /\ wire' = <<STOP1, second>> /\ session' = None
    /\ UNCHANGED <<decVars, streamVars, takenVars, panelVars, threadVars, ghostVars,
                   todo, linked, sent, meant, work>>

(* Writes without response may be dropped on the way: the rest of what is  *)
(* in flight, or some bytes of it.                                         *)
Lose(n) ==
    /\ wire # <<>> /\ n <= Len(wire) /\ Works
    /\ session # None /\ session.crc
    /\ wire' = SubSeq(wire, n + 1, Len(wire))
    /\ damaged' = damaged \cup inflight /\ astray' = TRUE
    /\ UNCHANGED <<decVars, streamVars, takenVars, panelVars, threadVars,
                   todo, linked, session, sent, meant,
                   spoiled, inflight, shown, photo, late>>

(* A byte of the payload or of its CRC arrives wrong, one until the        *)
(* decoder has found its place again.                                      *)
Corrupt ==
    /\ wire # <<>> /\ ~astray /\ Works /\ session # None /\ session.crc
    /\ dec.at \in {"DATA", "CRC_HI", "CRC_LO"}
    /\ wire' = [wire EXCEPT ![1] = Xor(@, 1)]
    /\ damaged' = damaged \cup inflight /\ astray' = TRUE
    /\ UNCHANGED <<decVars, streamVars, takenVars, panelVars, threadVars,
                   todo, linked, session, sent, meant,
                   spoiled, inflight, shown, photo, late>>

(***************************************************************************)
(* The receive thread: vs_process_byte.                                    *)
(***************************************************************************)
Arrives == wire # <<>> /\ pc["rx"] = "free"

Received == wire' = Tail(wire)

(* Without a stream the bytes go to the text parser, which is not here.    *)
Ignored ==
    /\ Arrives /\ ~vstream_active /\ Received
    /\ UNCHANGED <<decVars, streamVars, takenVars, panelVars, threadVars, ghostVars,
                   todo, linked, session, sent, meant, work>>

HeaderByte ==
    /\ Arrives /\ vstream_active /\ Received
    /\ dec.at \notin {"DATA", "FLUSH_WAIT", "STOP2_WAIT"}
    /\ dec' = Header(dec, Head(wire))
    /\ UNCHANGED <<fb, vs_poisoned, streamVars, takenVars, panelVars, threadVars, ghostVars,
                   todo, linked, session, sent, meant, work>>

(* (A decoder that has lost its place damages what it writes to.)          *)
DataByte ==
    /\ Arrives /\ vstream_active /\ Received /\ dec.at = "DATA"
    /\ LET s == Data(With(dec, fb), Head(wire)) IN dec' = s.d /\ fb' = s.fb
    /\ damaged' = IF astray THEN damaged \cup Carries(dec.type) ELSE damaged
    /\ UNCHANGED <<vs_poisoned, streamVars, takenVars, panelVars, threadVars,
                   spoiled, inflight, shown, photo, late, astray,
                   todo, linked, session, sent, meant, work>>

(* Anything but the flush where it is due drops the frame.                 *)
FlushMissing ==
    /\ Arrives /\ vstream_active /\ Received
    /\ dec.at = "FLUSH_WAIT" /\ Head(wire) # FLUSH
    /\ dec' = [dec EXCEPT !.at = "IDLE"]
    /\ UNCHANGED <<fb, vs_poisoned, streamVars, takenVars, panelVars, threadVars, ghostVars,
                   todo, linked, session, sent, meant, work>>

CrcBad == dec.has_crc /\ dec.crc # dec.crc_rx

(* Slip: a clean delta heals as well.                                      *)
PoisonedUntilClean == CrcBad

(* The verdict of vs_flush_frame.                                          *)
PoisonedAfter == CrcBad \/ (vs_poisoned /\ IsDelta(dec.type))

(* Slip: a watchdog that is not running stays so.                          *)
ArmRunning == watchdog' = watchdog

(* k_work_reschedule of the watchdog.                                      *)
Arm == watchdog' = TRUE

(* vs_flush_frame.  A frame that may not be shown ends here; any other     *)
(* waits for the previous refresh first.                                   *)
Flush ==
    /\ Arrives /\ vstream_active /\ Received
    /\ dec.at = "FLUSH_WAIT" /\ Head(wire) = FLUSH
    /\ LET s == DrainAtEnd(With(dec, fb))
       IN /\ fb' = s.fb
          /\ IF PoisonedAfter
             THEN /\ dec' = [s.d EXCEPT !.at = "IDLE"] /\ Arm
                  /\ UNCHANGED threadVars
             ELSE /\ dec' = s.d /\ pc' = [pc EXCEPT !["rx"] = "flush"]
                  /\ UNCHANGED <<watchdog, was_active, restore>>
          /\ vs_poisoned' = PoisonedAfter
          /\ LET whole == IF ~CrcBad /\ ~IsDelta(dec.type) /\ s.d.dec = MaxDec(dec)
                          THEN Carries(dec.type) ELSE {}
                 bad == IF CrcBad THEN Carries(dec.type) ELSE {}
             IN /\ damaged' = ((damaged \cup bad) \ whole) \cup
                              (IF PoisonedAfter THEN inflight ELSE {})
                /\ spoiled' = (spoiled \cup bad) \ whole
    /\ inflight' = {}
    /\ UNCHANGED <<vstream_active, count, takenVars, panelVars, shown, photo, late, astray,
                   todo, linked, session, sent, meant, work>>

(* write_partial_stream_buffers.                                           *)
Loaded(planes) == [p \in Both |-> IF p \in planes THEN fb[p] ELSE ram[p]]

(* The gate lines ssd1675a_load_rows writes.                               *)
Window(y0, y1) == {y \in 0 .. Rows - 1 : y0 <= y /\ y <= y1}

(* ssd1675a_load_rows of the black and white plane.                        *)
LoadRows(y0, y1) ==
    [ram EXCEPT !.bw = [c \in Cells |-> IF c \div Stride \in Window(y0, y1)
                                        THEN fb.bw[c] ELSE @[c]]]

(* write_partial_stream_rows: the whole of both planes with the red one,   *)
(* the whole plane for a window as large as the panel.                     *)
LoadedRows(dual, y0, y1) ==
    IF dual THEN Loaded(Both)
    ELSE IF y0 <= 0 /\ y1 >= Rows - 1 THEN Loaded({"bw"}) ELSE LoadRows(y0, y1)

(* The rest of vs_flush_frame: update_partial_nowait_rows.  The panel's    *)
(* frames are counted through all streams, and at every Interval-th        *)
(* stop_streaming_if_active clears the red RAM and drops the red plane,    *)
(* and the frame is written without it.                                    *)
FlushShows ==
    LET dual == IsDual(dec.type)
        next == (count + 1) % Interval
        balance == on /\ next = 0
        now == IF balance THEN [Loaded({"bw"}) EXCEPT !.red = IF dual THEN Black ELSE @]
               ELSE IF ~on THEN Loaded(Carries(dec.type))
               ELSE IF IsDelta(dec.type) THEN LoadedRows(dual, dec.y0, dec.y1)
               ELSE LoadedRows(dual, 0, Rows)
    IN /\ pc["rx"] = "flush" /\ pc' = [pc EXCEPT !["rx"] = "free"]
       /\ keep_on' = TRUE /\ on' = ~balance /\ write_red' = (dual /\ ~balance)
       /\ ram' = now
       /\ shown' = [wrong |-> {p \in Carries(dec.type) :
                                  now[p] # meant[p] /\ ~(balance /\ p = "red")},
                    damaged |-> damaged, spoiled |-> spoiled \cap Carries(dec.type)]
       /\ dec' = [dec EXCEPT !.at = "IDLE"]
       /\ count' = next /\ Arm
       /\ late' = (late \/ ~vstream_active \/ pc["wq"] # "free")
       /\ UNCHANGED <<fb, vs_poisoned, vstream_active, streaming_mode, saver, was_active, restore,
                      hostVars, damaged, spoiled, inflight, photo, astray>>

(* [CC DD] and [CC DE]: vs_exit_streaming.                                 *)
StopByte ==
    /\ Arrives /\ vstream_active /\ Received /\ dec.at = "STOP2_WAIT"
    /\ IF Head(wire) \in {VIDEO_STOP2, PHOTO_STOP2}
       THEN /\ pc' = [pc EXCEPT !["rx"] = "cancel"]
            /\ restore' = [restore EXCEPT !["rx"] = Head(wire) = VIDEO_STOP2]
            /\ watchdog' = FALSE /\ UNCHANGED dec
       ELSE /\ dec' = [dec EXCEPT !.at = "IDLE"]
            /\ UNCHANGED <<pc, restore, watchdog>>
    /\ UNCHANGED <<fb, vs_poisoned, vstream_active, count, takenVars, panelVars, was_active,
                   ghostVars, todo, linked, session, sent, meant, work>>

(* commands_on_disconnect.  Without a stream the watchdog is cancelled but *)
(* not waited for.                                                         *)
Disconnect ==
    /\ linked /\ pc["rx"] = "free"
    /\ linked' = FALSE /\ wire' = <<>> /\ session' = None /\ todo' = None
    /\ watchdog' = FALSE
    /\ IF vstream_active
       THEN /\ pc' = [pc EXCEPT !["rx"] = "cancel"]
            /\ restore' = [restore EXCEPT !["rx"] = TRUE]
            /\ UNCHANGED <<dec, streaming_mode, write_red>>
       ELSE /\ dec' = [dec EXCEPT !.at = "IDLE"]
            /\ streaming_mode' = FALSE /\ write_red' = FALSE
            /\ UNCHANGED <<pc, restore>>
    /\ damaged' = damaged \cup inflight /\ inflight' = {}
    /\ UNCHANGED <<fb, vs_poisoned, vstream_active, count, keep_on, saver, panelVars, was_active,
                   sent, meant, work, spoiled, shown, photo, late, astray>>

(***************************************************************************)
(* The end of a stream: vs_exit_streaming cancels the watchdog and waits   *)
(* for a handler that has started, then vs_teardown.                       *)
(***************************************************************************)
Move(t, to) == pc' = [pc EXCEPT ![t] = to]

(* Slip: vs_exit_streaming does not wait for the handler.                  *)
HandlerLeft == TRUE

HandlerDone == pc["wq"] = "free"

TearBegins(t) ==
    /\ pc[t] = "cancel" /\ HandlerDone /\ Move(t, "busy")
    /\ was_active' = [was_active EXCEPT ![t] = vstream_active]
    /\ UNCHANGED <<decVars, streamVars, takenVars, panelVars, restore, hostVars, ghostVars>>

(* The panel is no longer busy.                                            *)
TearStops(t) ==
    /\ pc[t] = "busy" /\ Move(t, IF was_active[t] THEN "drop" ELSE "free")
    /\ streaming_mode' = FALSE /\ write_red' = FALSE
    /\ IF was_active[t]
       THEN dec' = [dec EXCEPT !.at = "IDLE"] /\ vstream_active' = FALSE
       ELSE /\ dec' = IF t = "rx" THEN [dec EXCEPT !.at = "IDLE"] ELSE dec
            /\ UNCHANGED vstream_active
    /\ UNCHANGED <<fb, vs_poisoned, watchdog, count, keep_on, saver, panelVars, was_active, restore,
                   hostVars, ghostVars>>

(* Slip: a photo keeps the rails charged.                                  *)
TearDropsUnlessPhoto(t) ==
    /\ pc[t] = "drop" /\ Move(t, "saver")
    /\ IF restore[t] THEN keep_on' = FALSE /\ on' = FALSE /\ write_red' = FALSE
                     ELSE UNCHANGED <<keep_on, on, write_red>>
    /\ UNCHANGED <<decVars, streamVars, streaming_mode, saver, ram, was_active, restore,
                   hostVars, ghostVars>>

(* display_manager_set_keep_on(false), then the saver.                     *)
TearDrops(t) ==
    /\ pc[t] = "drop" /\ Move(t, "saver")
    /\ keep_on' = FALSE /\ on' = FALSE /\ write_red' = FALSE
    /\ UNCHANGED <<decVars, streamVars, streaming_mode, saver, ram, was_active, restore,
                   hostVars, ghostVars>>

(* display_manager_enable_screensaver.                                     *)
Restores(t) == restore[t] /\ was_active[t]

TearEnds(t) ==
    /\ pc[t] = "saver" /\ Move(t, "free")
    /\ saver' = (saver \/ Restores(t))
    /\ photo' = (photo \/ ~restore[t])
    /\ UNCHANGED <<decVars, streamVars, keep_on, streaming_mode, write_red, panelVars,
                   was_active, restore, hostVars, damaged, spoiled, inflight, shown, late, astray>>

Teardown(t) == TearBegins(t) \/ TearStops(t) \/ TearDrops(t) \/ TearEnds(t)

(* vs_watchdog_handler.                                                    *)
WatchdogFires ==
    /\ watchdog /\ pc["wq"] = "free" /\ watchdog' = FALSE
    /\ IF vstream_active
       THEN /\ Move("wq", "busy")
            /\ was_active' = [was_active EXCEPT !["wq"] = TRUE]
            /\ restore' = [restore EXCEPT !["wq"] = TRUE]
       ELSE UNCHANGED threadVars
    /\ UNCHANGED <<decVars, vstream_active, count, takenVars, panelVars, hostVars, ghostVars>>

(***************************************************************************)
(* The command thread: cmd_vstream.                                        *)
(***************************************************************************)
CmdStop ==
    /\ todo = "stop" /\ pc["cmd"] = "free" /\ Move("cmd", "cancel")
    /\ restore' = [restore EXCEPT !["cmd"] = TRUE]
    /\ watchdog' = FALSE /\ todo' = None
    /\ UNCHANGED <<decVars, vstream_active, count, takenVars, panelVars, was_active, ghostVars,
                   linked, wire, session, sent, meant, work>>

(* The saver goes off, and the rails with it if it held them.              *)
CmdStart ==
    /\ todo = "start" /\ pc["cmd"] = "free" /\ Move("cmd", "clear") /\ todo' = None
    /\ saver' = FALSE /\ photo' = FALSE /\ late' = (pc["wq"] # "free")
    /\ IF keep_on THEN keep_on' = FALSE /\ on' = FALSE /\ write_red' = FALSE
                  ELSE UNCHANGED <<keep_on, on, write_red>>
    /\ UNCHANGED <<decVars, streamVars, streaming_mode, ram, was_active, restore,
                   linked, wire, session, sent, meant, work,
                   damaged, spoiled, inflight, shown, astray>>

(* The frame buffer is cleared and the panel primed with it.  The frame is *)
(* counted, as were those others showed on a panel kept on since the last  *)
(* stream.                                                                 *)
CmdPrimes ==
    /\ pc["cmd"] = "clear" /\ Move("cmd", "ready")
    /\ fb' = [bw |-> White, red |-> Black]
    /\ keep_on' = TRUE /\ write_red' = FALSE /\ on' = TRUE
    /\ ram' = [ram EXCEPT !.bw = White]
    /\ \E n \in Others : count' = (count + 1 + n) % Interval
    /\ UNCHANGED <<dec, vs_poisoned, vstream_active, watchdog, streaming_mode, saver, was_active, restore,
                   hostVars, ghostVars>>

(* The stream begins, and the host is told so.                             *)
CmdReady(s) ==
    /\ pc["cmd"] = "ready" /\ Move("cmd", "free")
    /\ streaming_mode' = TRUE
    /\ dec' = [ResetFrame(dec) EXCEPT !.at = "IDLE", !.has_crc = FALSE]
    /\ vs_poisoned' = FALSE
    /\ vstream_active' = TRUE /\ Arm
    /\ session' = IF linked THEN s ELSE None
    /\ sent' = [p \in Both |-> None]
    /\ damaged' = {} /\ spoiled' = {} /\ inflight' = {} /\ astray' = FALSE
    /\ UNCHANGED <<fb, count, keep_on, write_red, saver, panelVars, was_active, restore,
                   todo, linked, wire, meant, work, shown, photo, late>>

Receive ==
    Ignored \/ HeaderByte \/ DataByte \/ FlushMissing \/ Flush \/ FlushShows \/ StopByte

Command == CmdStop \/ CmdStart \/ CmdPrimes \/ \E s \in Sessions : CmdReady(s)

Host ==
    \/ Connect \/ Disconnect \/ Corrupt
    \/ \E c \in {"start", "stop"} : Ask(c)
    \/ \E type \in Types, half \in BOOLEAN : \E new \in Pictures[half] : SendFrame(type, new)
    \/ \E second \in {VIDEO_STOP2, PHOTO_STOP2} : SendStop(second)
    \/ \E n \in {1, Len(wire)} : Lose(n)

Next == Host \/ Receive \/ Command \/ WatchdogFires \/ \E t \in Thread : Teardown(t)

Spec == Init /\ [][Next]_vars

(* A thread that has begun something runs on, and the watchdog fires       *)
(* unless it is put off.  Nothing is asked of the host and its bytes.      *)
FairSpec ==
    /\ Spec
    /\ WF_vars(FlushShows) /\ WF_vars(Command) /\ WF_vars(WatchdogFires)
    /\ \A t \in Thread : WF_vars(Teardown(t))

-----------------------------------------------------------------------------
TypeOK ==
    /\ dec \in Decoder /\ fb \in Planes /\ ram \in Planes
    /\ \A b \in {vs_poisoned, vstream_active, watchdog, keep_on, streaming_mode, write_red,
                 saver, on, linked, photo} : b \in BOOLEAN
    /\ count \in 0 .. Interval - 1 /\ work \in 0 .. MaxWork
    /\ pc \in [Thread -> {"free", "clear", "ready", "flush", "cancel", "busy", "drop", "saver"}]
    /\ was_active \in [Thread -> BOOLEAN] /\ restore \in [Thread -> BOOLEAN]
    /\ dec.dec <= MaxDec(dec) \/ dec.at \notin {"DATA", "CRC_HI", "CRC_LO", "FLUSH_WAIT"}

(* A frame put on the panel is the picture the host sent, byte for byte    *)
(* and whatever its encoding, except in planes where a frame was lost or   *)
(* damaged and no whole frame has followed, and but for the red plane of   *)
(* every Interval-th frame, which is left out to balance the panel.        *)
(* (vs_process_byte, vs_flush_frame, update_partial_nowait_rows; the rows  *)
(* a delta touched are all that is written.)                               *)
ShownIsSent == shown.wrong \subseteq shown.damaged

(* A B/W plane spoiled by a frame with a bad CRC is not shown again before *)
(* a whole frame has overwritten it.  (vs_poisoned)                        *)
PoisonHolds == "bw" \notin shown.spoiled

Quiet == ~vstream_active /\ todo = None /\ \A t \in Thread : pc[t] = "free"

(* A stream that has ended, however many threads had a hand in it, leaves  *)
(* no connection parameters, red plane or rails behind, unless a frame was *)
(* shown, or the next stream begun, while the watchdog was ending it.  (A  *)
(* watchdog may be left armed by a frame that came during the teardown; it *)
(* finds no stream then.)  (vs_teardown, vs_exit_streaming, cmd_vstream)   *)
LetGo == Quiet /\ ~late => ~streaming_mode /\ ~write_red /\ ~keep_on /\ ~on

(* A photo stop leaves the saver off until the next stream, whatever stops *)
(* follow it, unless a frame was shown, or the stream begun, while the     *)
(* watchdog was ending another.  (vs_teardown, was_active)                 *)
PhotoKept == photo /\ ~late => ~saver

(* A stream ends, its host's silence included.  (vs_watchdog_handler)      *)
StreamEnds == vstream_active ~> ~vstream_active
=============================================================================
