------------------------------- MODULE Display -------------------------------
(***************************************************************************)
(* The display manager (src/app/display_manager.c) between the threads     *)
(* that draw: the screensaver thread with its battery branches, the        *)
(* command and the mesh thread with the handlers of commands.c that touch  *)
(* the panel, the receive thread that shows the frames of a stream, and    *)
(* the watchdog that ends it on the system workqueue.  They share the      *)
(* panel, the frame buffers and display_lock; the saver, keep-on and       *)
(* request flags are read and written outside it.                          *)
(*                                                                         *)
(* A call that refreshes the panel is split where it waits for BUSY.       *)
(***************************************************************************)
EXTENDS Panel, Sequences

CONSTANTS
    HasRed,        \* panel_has_red: a second frame buffer, or none
    Commands,      \* the commands hosts send, names of Handler
    Flooded,       \* those of them that also come over the mesh
    Interval,      \* STREAM_REFRESH_INTERVAL
    MaxPartials,   \* STATIC_SAVER_MAX_PARTIALS
    None,
    MaxCommands    \* bound: commands and frames sent

ASSUME DisplayAssumption ==
    /\ HasRed \in BOOLEAN /\ Flooded \subseteq Commands
    /\ Interval \in Nat \ {0, 1} /\ MaxPartials \in Nat \ {0} /\ MaxCommands \in Nat

VARIABLES
    d,             \* the panel and what display_lock guards
    lock,          \* who holds it
    saver, mode, keep_on, full_req, frame_req, wake,
    prog, strokes, wet,      \* of each thread: calls to make, frames to draw
    vstream,       \* the stream the watchdog may end
    pc, tick, low_shown, batt, dead,   \* the screensaver thread
    sent, strays,  \* history: commands, saver frames drawn with the saver off
    loose,         \* history: a hold or a session that nobody is to end
    missed         \* history: a request made when the frame was decided on

flags == <<saver, mode, keep_on, full_req, frame_req, wake>>
threads == <<prog, strokes, wet>>
saverThread == <<pc, tick, low_shown, batt, dead, missed>>
vars == <<d, lock, flags, threads, vstream, saverThread, sent, strays, loose>>

Caller == {"cmd", "mesh", "rx", "wq"}

Thread == {"saver"} \cup Caller

Modes == {"STATIC", "DYNAMIC", "LUT_TEST"}

(* What a frame buffer may hold.                                           *)
Pictures == {"saver", "ltest", "clear", "text", "host", "dfu", "final"}

Contents == Pictures \cup {Unknown, Pattern, Zero}

Buffers == [bw : Pictures, red : Pictures \cup {Zero}]

Rendered(what) == [bw |-> what, red |-> IF what = "clear" THEN Zero ELSE what]

(* detect_panel parks the panel after its probe.                           *)
DetectPanel == PowerOff(Sleep(ProbeRam(InitPanel(Off))))

(* display_manager_init, and the screensaver thread about to start.        *)
Init ==
    /\ d = [hw |-> DetectPanel, on |-> FALSE, write_red |-> FALSE, staged |-> FALSE, scene |-> None,
            fb |-> Rendered("clear"), count |-> 0, partials |-> 0, baseline |-> FALSE,
            cut |-> FALSE, unsound |-> {}]
    /\ lock = None
    /\ saver = TRUE /\ mode = "STATIC" /\ keep_on = FALSE
    /\ full_req = FALSE /\ frame_req = FALSE /\ wake = FALSE
    /\ prog = [t \in Caller |-> <<>>] /\ strokes = [t \in Caller |-> <<>>]
    /\ wet = [t \in Caller |-> FALSE] /\ vstream = FALSE
    /\ pc = "top" /\ tick = TRUE /\ low_shown = FALSE /\ batt = "OK" /\ dead = FALSE
    /\ sent = 0 /\ strays = 0 /\ loose = FALSE /\ missed = FALSE

(***************************************************************************)
(* What the calls do to the panel and the guarded state.                   *)
(***************************************************************************)
(* A refresh; what it does not find is remembered, unless the panel was    *)
(* taken from under a running stream.                                      *)
Wave(s, kind) ==
    LET ready == Uploaded(s.hw, kind)
    IN [s EXCEPT !.hw = Refreshed(ready, kind),
                 !.unsound = @ \cup (IF Sound(ready, kind) \/ s.cut THEN {} ELSE {kind})]

(* perform_display_update, also with the red plane kept, and the power-down*)
(* of show_final_screen do not ask for a stream.                           *)
Cut(s) == [s EXCEPT !.cut = s.on]

(* stop_streaming_if_active.                                               *)
StopStreaming(s) ==
    [s EXCEPT !.hw = IF ~s.on THEN @
                     ELSE EndStreaming(IF s.write_red THEN ClearRedRam(@) ELSE @),
              !.on = FALSE, !.cut = FALSE, !.write_red = FALSE]

ShouldPowerDown == ~keep_on /\ (~saver \/ mode = "STATIC")

(* power_down_after_idle_update.                                           *)
PowerDownIf(s, may) == IF may THEN [s EXCEPT !.hw = PowerOff(Sleep(@))] ELSE s

(* The plane a single-buffer canvas writes as red: zeros.                  *)
RedBuffer(s) == IF HasRed THEN s.fb.red ELSE Zero

(* load_frame: a scene is replayed as a red mask where there is one buffer.*)
LoadFrame(s) ==
    IF HasRed \/ s.scene = None
    THEN [s EXCEPT !.hw = DisplayBuffer(@, s.fb.bw, RedBuffer(s)), !.scene = None]
    ELSE LET r == Rendered(s.scene)
         IN [s EXCEPT !.hw = WriteBw(WriteRed(@, r.red), r.bw), !.fb = r, !.scene = None]

(* run_full_refresh: the factory's waveform where there is one buffer,     *)
(* unless a host sets it otherwise (OTPLUT).                               *)
FullRefresh == IF HasRed THEN "full" ELSE "factory"

(* perform_display_update up to BUSY, and its flush_red variant.           *)
FullUpdate(s, kind) == Wave(LoadFrame([Cut(s) EXCEPT !.hw = InitPanel(@)]), kind)

(* perform_display_update_keep_red up to BUSY.                             *)
KeepRedUpdate(s) ==
    [Wave([Cut(s) EXCEPT !.hw = WriteBw(InitPartial(@), s.fb.bw)], FullRefresh) EXCEPT !.staged = FALSE]

(* write_partial_stream_buffers.                                           *)
WriteStream(s) ==
    [s EXCEPT !.hw = IF s.write_red THEN DisplayBuffer(@, s.fb.bw, RedBuffer(s))
                     ELSE WriteBw(@, s.fb.bw)]

Begun(s) == [s EXCEPT !.hw = BeginStreaming(@), !.on = TRUE]

Woken(s) == [s EXCEPT !.hw = InitPartial(@)]

(* display_manager_update_partial up to BUSY.  Every Interval frames of a  *)
(* stream one is driven with the rails cycled.                             *)
PartialUpdate(s) ==
    LET n == [s EXCEPT !.count = (@ + 1) % Interval]
    IN CASE ~keep_on -> Wave(WriteStream(Woken(StopStreaming(s))), "partial")
         [] keep_on /\ n.on /\ n.count = 0 -> Wave(WriteStream(Woken(StopStreaming(n))), "partial")
         [] keep_on /\ ~n.on -> Wave(Begun(WriteStream(Woken(n))), "stream")
         [] OTHER -> Wave(WriteStream(n), "stream")

(* The animation does not wake the panel for its stream, nor fill it: what *)
(* others did to it meanwhile is not the stream's fault.                   *)
BegunAsFound(s) ==
    IF s.on THEN s ELSE [Begun(s) EXCEPT !.cut = ~Sound(BeginStreaming(s.hw), "stream")]

(* display_manager_update_frame_stream up to BUSY.                         *)
StreamUpdate(s) == Wave(BegunAsFound(s), "stream")

(* update_lut_test: both planes, always as a stream.                       *)
LutTestUpdate(s) ==
    LET f == [s EXCEPT !.fb = Rendered("ltest")]
        both(x) == [x EXCEPT !.hw = DisplayBuffer(@, x.fb.bw, RedBuffer(x))]
    IN Wave(IF f.on THEN both(f) ELSE Begun(both(Woken(f))), "stream")

(* render_scene.                                                           *)
RenderScene(s, what) == [s EXCEPT !.fb = Rendered(what), !.scene = what]

(***************************************************************************)
(* The commands, as the calls their handlers make.                         *)
(***************************************************************************)
Saver(on) == [call |-> "saver", on |-> on]
KeepOn(on) == [call |-> "keep_on", on |-> on]
SaverMode(m) == [call |-> "saver_mode", mode |-> m]
Draw(what) == [call |-> "draw", what |-> what]
Show(what, stops) == [call |-> "show", what |-> what, stops |-> stops]
WriteRedPlane(on) == [call |-> "write_red", on |-> on]
Plain(name) == [call |-> name]

cmd_cls == <<Saver(FALSE), Draw("clear")>>

cmd_clean == <<Saver(FALSE), Plain("clean")>>

cmd_nuke == <<Saver(FALSE), Plain("deep_clean")>>

cmd_saver == <<Saver(TRUE)>>

(* SS:0 and SS:1.                                                          *)
cmd_ss(on) == <<Saver(on)>>

cmd_update == <<Plain("request_full")>>

cmd_fast == <<Plain("partial")>>

(* Another waveform.                                                       *)
cmd_lutset == <<Plain("set_mode")>>

cmd_mode == <<Plain("set_mode")>>

cmd_text == <<Saver(FALSE), Show("text", FALSE)>>

cmd_paltest == <<Saver(FALSE), Show("text", TRUE)>>

cmd_ruler == <<Saver(FALSE), Show("text", TRUE)>>

cmd_tonetest == <<Saver(FALSE), Plain("tone_test")>>

(* What the saver shows is drawn anew, a picture is left alone.            *)
cmd_time == <<Plain("redraw")>>

cmd_time_eq == <<Plain("redraw")>>

cmd_rot == <<Plain("rotate")>>

cmd_dsaver(on) == <<Saver(TRUE), SaverMode(IF on THEN "DYNAMIC" ELSE "STATIC")>>

cmd_ltest(on) ==
    IF on THEN <<Saver(TRUE), SaverMode("LUT_TEST")>> ELSE <<SaverMode("STATIC"), Saver(TRUE)>>

cmd_anim ==
    <<Saver(FALSE), KeepOn(TRUE), Draw("clear"), Plain("force"), Plain("begin"), Plain("stream")>>

cmd_test == <<Saver(FALSE), Draw("text"), Plain("force"), Plain("test")>>

(* A part of a frame buffer, which need not be the one of its plane.       *)
fb_write == <<Draw("host")>>

cmd_fw == fb_write

cmd_rw == fb_write

cmd_fapply(red) == <<Saver(FALSE), Plain(IF red THEN "stage" ELSE "force")>>

cmd_probe == <<Plain("probe")>>

cmd_dfu == <<Saver(FALSE), Draw("dfu"), Plain("request_frame")>>

cmd_vstream ==
    <<Saver(FALSE), Draw("clear"), KeepOn(TRUE), WriteRedPlane(FALSE), Plain("set_mode"),
      Plain("partial"), Plain("streaming")>>

(* The table of commands.                                                  *)
Handler ==
    [CLS |-> cmd_cls, CLEAN |-> cmd_clean, NUKE |-> cmd_nuke, SAVER |-> cmd_saver,
     PICTURE |-> cmd_ss(FALSE), UPDATE |-> cmd_update, FAST |-> cmd_fast, LUTSET |-> cmd_lutset,
     TEXT |-> cmd_text, PALTEST |-> cmd_paltest, TONETEST |-> cmd_tonetest, TIME |-> cmd_time,
     DSAVER |-> cmd_dsaver(TRUE), DSAVER0 |-> cmd_dsaver(FALSE),
     LTEST |-> cmd_ltest(TRUE), LTEST0 |-> cmd_ltest(FALSE), ANIM |-> cmd_anim, TEST |-> cmd_test,
     MODE |-> cmd_mode, ROT |-> cmd_rot, RULER |-> cmd_ruler, TIME_EQ |-> cmd_time_eq,
     FW |-> cmd_fw, RW |-> cmd_rw, FAPPLY_RED |-> cmd_fapply(TRUE), FAPPLY |-> cmd_fapply(FALSE),
     PROBE |-> cmd_probe, DFU |-> cmd_dfu, VSTREAM |-> cmd_vstream]

ASSUME CommandsAssumption == Commands \subseteq DOMAIN Handler /\ None \notin Thread

(***************************************************************************)
(* Calls that touch only flags or the frame buffer; they do not lock.      *)
(***************************************************************************)
Free == lock = None

Calls(t, name) ==
    /\ ~dead /\ lock # t /\ prog[t] # <<>> /\ Head(prog[t]).call = name

Arg(t) == Head(prog[t])

Then(t, calls) == prog' = [prog EXCEPT ![t] = calls \o Tail(@)]

Sends(t, calls) ==
    /\ ~dead /\ sent < MaxCommands /\ prog[t] = <<>>
    /\ prog' = [prog EXCEPT ![t] = calls] /\ sent' = sent + 1
    /\ UNCHANGED <<d, lock, flags, strokes, wet, vstream, loose, saverThread, strays>>

Host(c) == Sends("cmd", Handler[c])

Flood(c) == Sends("mesh", Handler[c])

(* vs_flush_frame shows a frame of one plane or of two.                    *)
Frame(dual) ==
    vstream /\ Sends("rx", <<KeepOn(TRUE), WriteRedPlane(dual), Plain("nowait")>>)

(* Slip: picture mode keeps the panel as it is.                            *)
KeepsPanel(on) == FALSE

ReleasesPanel(on) == ~on /\ keep_on

(* display_manager_enable_screensaver.                                     *)
EnableScreensaver(t) ==
    /\ Calls(t, "saver")
    /\ LET on == Arg(t).on
       IN /\ saver' = on
          /\ IF on /\ ~saver
             THEN /\ wake' = TRUE /\ d' = [d EXCEPT !.partials = 0, !.baseline = FALSE]
             ELSE UNCHANGED <<wake, d>>
          /\ strays' = IF on THEN 0 ELSE strays
          /\ Then(t, IF ReleasesPanel(on) THEN <<KeepOn(FALSE)>> ELSE <<>>)
    /\ UNCHANGED <<lock, mode, keep_on, full_req, frame_req, strokes, wet, vstream, loose, saverThread, sent>>

(* graphics_clear, the FW: and RW: bytes, the update screens.              *)
Paints(t) ==
    /\ Calls(t, "draw") /\ d' = [d EXCEPT !.fb = Rendered(Arg(t).what)] /\ Then(t, <<>>)
    /\ UNCHANGED <<lock, flags, strokes, wet, vstream, loose, saverThread, sent, strays>>

(* TIME looks for the saver, and forces an update, which looks again: a    *)
(* saver switched off in between makes it a frame over the picture.        *)
Redraws(t) ==
    /\ Calls(t, "redraw") /\ Then(t, IF saver THEN <<Plain("force")>> ELSE <<>>)
    /\ UNCHANGED <<d, lock, flags, strokes, wet, vstream, loose, saverThread, sent, strays>>

(* display_manager_set_rotation.                                           *)
Rotates(t) ==
    /\ Calls(t, "rotate") /\ wake' = (wake \/ saver) /\ Then(t, <<>>)
    /\ UNCHANGED <<d, lock, saver, mode, keep_on, full_req, frame_req, strokes, wet, vstream, loose,
                   saverThread, sent, strays>>

(* display_manager_request_full_update looks, asks, and wakes the saver.   *)
RequestsFull(t) ==
    /\ Calls(t, "request_full")
    /\ Then(t, IF saver THEN <<Plain("ask_full"), Plain("force")>> ELSE <<Plain("force")>>)
    /\ UNCHANGED <<d, lock, flags, strokes, wet, vstream, loose, saverThread, sent, strays>>

AsksFull(t) ==
    /\ Calls(t, "ask_full") /\ full_req' = TRUE /\ missed' = (missed \/ pc = "part")
    /\ Then(t, <<>>)
    /\ UNCHANGED <<d, lock, saver, mode, keep_on, frame_req, wake, strokes, wet, vstream, loose,
                   pc, tick, low_shown, batt, dead, sent, strays>>

(* display_manager_force_update.                                           *)
Forces(t) ==
    /\ Calls(t, "force")
    /\ IF saver
       THEN wake' = TRUE /\ Then(t, <<>>) /\ UNCHANGED d
       ELSE /\ d' = [d EXCEPT !.scene = None]
            /\ Then(t, <<Plain(IF d.staged THEN "keep_red" ELSE "perform")>>)
            /\ UNCHANGED wake
    /\ UNCHANGED <<lock, saver, mode, keep_on, full_req, frame_req, strokes, wet, vstream, loose,
                   saverThread, sent, strays>>

(* display_manager_request_frame_update.                                   *)
RequestsFrame(t) ==
    /\ Calls(t, "request_frame") /\ frame_req' = TRUE /\ wake' = TRUE /\ Then(t, <<>>)
    /\ UNCHANGED <<d, lock, saver, mode, keep_on, full_req, strokes, wet, vstream, loose,
                   saverThread, sent, strays>>

(* The end of cmd_vstream.                                                 *)
StreamStarts(t) ==
    /\ Calls(t, "streaming") /\ vstream' = TRUE /\ Then(t, <<>>)
    /\ UNCHANGED <<d, lock, flags, strokes, wet, saverThread, sent, strays, loose>>

(* display_manager_set_stream_write_red_plane.                             *)
SetsWriteRed(t) ==
    /\ Calls(t, "write_red") /\ d' = [d EXCEPT !.write_red = Arg(t).on] /\ Then(t, <<>>)
    /\ UNCHANGED <<lock, flags, strokes, wet, vstream, loose, saverThread, sent, strays>>

(* vs_teardown on the workqueue.                                           *)
WatchdogFires ==
    /\ ~dead /\ vstream /\ prog["wq"] = <<>> /\ vstream' = FALSE
    /\ prog' = [prog EXCEPT !["wq"] = <<WriteRedPlane(FALSE), KeepOn(FALSE), Saver(TRUE)>>]
    /\ UNCHANGED <<d, lock, flags, strokes, wet, saverThread, sent, strays, loose>>

(***************************************************************************)
(* Calls that hold display_lock but wait for no frame.                     *)
(***************************************************************************)
Locked(t, name) == Calls(t, name) /\ Free

(* display_manager_set_keep_on.                                            *)
KeptOn(s, on) ==
    PowerDownIf(IF on THEN s ELSE StopStreaming(s), ~on /\ (~saver \/ mode = "STATIC"))

SetsKeepOn(t) ==
    /\ Locked(t, "keep_on") /\ keep_on' = Arg(t).on /\ d' = KeptOn(d, Arg(t).on)
    /\ loose' = (Arg(t).on /\ (loose \/ (t = "rx" /\ ~saver /\ ~vstream)))
    /\ Then(t, <<>>)
    /\ UNCHANGED <<lock, saver, mode, full_req, frame_req, wake, strokes, wet, vstream,
                   saverThread, sent, strays>>

(* display_manager_set_partial_mode.                                       *)
SetsPartialMode(t) ==
    /\ Locked(t, "set_mode") /\ d' = StopStreaming(d) /\ Then(t, <<>>)
    /\ UNCHANGED <<lock, flags, strokes, wet, vstream, loose, saverThread, sent, strays>>

(* display_manager_begin_streaming.                                        *)
Begins(t) ==
    /\ Locked(t, "begin") /\ d' = BegunAsFound(d) /\ Then(t, <<>>)
    /\ UNCHANGED <<lock, flags, strokes, wet, vstream, loose, saverThread, sent, strays>>

(* display_manager_stage_red_plane.                                        *)
Stages(t) ==
    /\ Locked(t, "stage") /\ Then(t, <<>>)
    /\ d' = IF HasRed THEN d
            ELSE LET s == Woken(StopStreaming(d))
                 IN [s EXCEPT !.hw = WriteRed(@, s.fb.bw), !.staged = TRUE]
    /\ UNCHANGED <<lock, flags, strokes, wet, vstream, loose, saverThread, sent, strays>>

(* display_manager_probe_panel.                                            *)
Probes(t) ==
    /\ Locked(t, "probe") /\ Then(t, <<>>)
    /\ LET s == Woken(StopStreaming(d))
       IN d' = PowerDownIf([s EXCEPT !.hw = DisplayBuffer(ProbeRam(@), s.fb.bw, RedBuffer(s))],
                           ShouldPowerDown)
    /\ UNCHANGED <<lock, flags, strokes, wet, vstream, loose, saverThread, sent, strays>>

(* display_manager_set_screensaver_mode.  A host's own waveform is not     *)
(* replaced, and so not loaded again, where the mode was already dynamic.  *)
SetsSaverMode(t) ==
    /\ Locked(t, "saver_mode") /\ Then(t, <<>>)
    /\ mode' = Arg(t).mode
    /\ IF mode' = "STATIC"
       THEN /\ keep_on' = FALSE /\ loose' = FALSE /\ UNCHANGED wake
            /\ d' = [PowerDownIf(StopStreaming(d), TRUE) EXCEPT !.partials = 0, !.baseline = FALSE]
       ELSE /\ keep_on' = TRUE /\ loose' = (loose \/ ~saver) /\ wake' = TRUE
            /\ \/ d' = StopStreaming(d)
               \/ mode = "DYNAMIC" /\ mode' = mode /\ UNCHANGED d
    /\ UNCHANGED <<lock, saver, full_req, frame_req, strokes, wet, vstream, saverThread,
                   sent, strays>>

(* display_manager_update_partial_nowait: the lock is let go while the     *)
(* panel is still busy.                                                    *)
DrawsNowait(t) ==
    /\ Locked(t, "nowait")
    /\ IF keep_on THEN d' = PartialUpdate(d) /\ Then(t, <<>>)
       ELSE Then(t, <<Plain("partial")>>) /\ UNCHANGED d
    /\ UNCHANGED <<lock, flags, strokes, wet, vstream, loose, saverThread, sent, strays>>

(***************************************************************************)
(* Calls that draw.  The frames of one call are drawn under one lock.      *)
(***************************************************************************)
Long == {"clean", "deep_clean", "tone_test"}

(* The animation and the stress test never return.                         *)
Endless == {"stream", "test"}

Drawing == {"show", "perform", "keep_red", "partial"} \cup Endless \cup Long

(* Of the seven and more cycles of a clean, one; of the tone passes, two.  *)
Frames(call) ==
    CASE call \in {"show", "perform"} -> <<"full">>
      [] call = "clean" -> <<"clear", "clear_flush">>
      [] call = "deep_clean" -> <<"clear", "clear", "clear_flush">>
      [] call = "tone_test" -> <<"clear", "hold", "partial", "partial", "release">>
      [] call = "test" -> <<"partial">>
      [] OTHER -> <<call>>

Enters(t) ==
    /\ \E c \in Drawing : Locked(t, c)
    /\ lock' = t /\ strokes' = [strokes EXCEPT ![t] = Frames(Arg(t).call)]
    /\ LET call == Arg(t).call
           stopped == IF call \in Long \/ (call = "show" /\ Arg(t).stops)
                      THEN StopStreaming(d) ELSE d
       IN d' = CASE call = "show" -> RenderScene(stopped, Arg(t).what)
                 [] call \in Long -> [stopped EXCEPT !.count = 0]
                 [] OTHER -> stopped
    /\ UNCHANGED <<flags, prog, wet, vstream, loose, saverThread, sent, strays>>

(* One frame, up to BUSY.                                                  *)
Stroke(s, kind) ==
    CASE kind = "full" -> FullUpdate(s, FullRefresh)
      [] kind = "clear" -> FullUpdate(RenderScene(s, "clear"), FullRefresh)
      [] kind = "clear_flush" -> FullUpdate(RenderScene(s, "clear"), "flush_red")
      [] kind = "keep_red" -> KeepRedUpdate(s)
      [] kind = "partial" -> PartialUpdate(s)
      [] kind = "stream" -> StreamUpdate(s)

Draws(t) ==
    /\ ~dead /\ strokes[t] # <<>> /\ ~wet[t] /\ Head(strokes[t]) \notin {"hold", "release"}
    /\ wet' = [wet EXCEPT ![t] = TRUE] /\ d' = Stroke(d, Head(strokes[t]))
    /\ UNCHANGED <<lock, flags, prog, strokes, vstream, loose, saverThread, sent, strays>>

(* The lock is let go after the last frame.                                *)
Leaves(t) ==
    IF Tail(strokes[t]) # <<>> THEN UNCHANGED <<lock, prog>>
    ELSE /\ lock' = None
         /\ IF Head(prog[t]).call \in Endless THEN UNCHANGED prog ELSE Then(t, <<>>)

(* The test's own calls of display_manager_set_keep_on.                    *)
Holds(t) ==
    /\ ~dead /\ strokes[t] # <<>> /\ Head(strokes[t]) = "hold"
    /\ keep_on' = TRUE /\ strokes' = [strokes EXCEPT ![t] = Tail(@)] /\ Leaves(t)
    /\ UNCHANGED <<d, saver, mode, full_req, frame_req, wake, wet, vstream, loose, saverThread, sent, strays>>

Releases(t) ==
    /\ ~dead /\ strokes[t] # <<>> /\ Head(strokes[t]) = "release"
    /\ keep_on' = FALSE /\ loose' = FALSE /\ d' = [KeptOn(d, FALSE) EXCEPT !.count = 0]
    /\ strokes' = [strokes EXCEPT ![t] = Tail(@)] /\ Leaves(t)
    /\ UNCHANGED <<saver, mode, full_req, frame_req, wake, wet, vstream, saverThread, sent, strays>>

(* BUSY has fallen; a frame outside a stream may power the panel down.     *)
Settles(t) ==
    /\ ~dead /\ wet[t] /\ wet' = [wet EXCEPT ![t] = FALSE]
    /\ d' = PowerDownIf(d, ShouldPowerDown /\ Head(strokes[t]) # "stream")
    /\ strokes' = [strokes EXCEPT ![t] = Tail(@)] /\ Leaves(t)
    /\ UNCHANGED <<flags, vstream, loose, saverThread, sent, strays>>

CallOf(t) ==
    \/ EnableScreensaver(t) \/ Paints(t) \/ Redraws(t) \/ Rotates(t) \/ Forces(t)
    \/ RequestsFull(t) \/ AsksFull(t)
    \/ RequestsFrame(t) \/ StreamStarts(t) \/ SetsWriteRed(t) \/ DrawsNowait(t)
    \/ SetsKeepOn(t) \/ SetsPartialMode(t) \/ Begins(t) \/ Stages(t) \/ Probes(t) \/ SetsSaverMode(t)
    \/ Enters(t) \/ Draws(t) \/ Holds(t) \/ Releases(t) \/ Settles(t)

(***************************************************************************)
(* The screensaver thread.                                                 *)
(***************************************************************************)
(* What battery_monitor_update may make of a reading, none taken included. *)
Readings(b) ==
    {b} \cup CASE b = "OK" -> {"LOW", "CRITICAL"}
               [] b = "LOW" -> {"OK", "CRITICAL"}
               [] OTHER -> {"SHUTDOWN"}

Dying == {"CRITICAL", "SHUTDOWN"}

saverRest == <<mode, keep_on, full_req, frame_req, wake, threads, vstream, loose, missed, sent>>

(* The battery, and what becomes of the turn.  A farewell or a warning is  *)
(* rendered before the lock is asked for.                                  *)
Maintains ==
    /\ ~dead /\ pc = "top"
    /\ \E b \in Readings(batt) :
          LET last == b \in Dying \/ (b = "LOW" /\ ~low_shown)
          IN /\ batt' = b
             /\ pc' = IF last THEN "final" ELSE IF b = "LOW" THEN "nap" ELSE "pick"
             /\ d' = IF last THEN RenderScene(d, "final") ELSE d
             /\ IF low_shown /\ b = "OK" THEN low_shown' = FALSE /\ saver' = TRUE /\ strays' = 0
                ELSE UNCHANGED <<low_shown, saver, strays>>
    /\ UNCHANGED <<lock, saverRest, tick, dead>>

(* show_final_screen waits twenty seconds for the lock, longer than any    *)
(* call but the long ones holds it, and goes on.                           *)
FinalDraws ==
    /\ ~dead /\ pc = "final" /\ pc' = "farewell"
    /\ lock \in Caller => Arg(lock).call \in Long
    /\ lock' = IF Free THEN "saver" ELSE lock
    /\ d' = FullUpdate(StopStreaming(d), FullRefresh)
    /\ UNCHANGED <<saver, saverRest, tick, low_shown, batt, dead, strays>>

(* Slip: the first critical reading only warns.                            *)
GoesOffShut == batt = "SHUTDOWN"

GoesOff == batt \in Dying

FinalEnds ==
    /\ ~dead /\ pc = "farewell" /\ d' = PowerDownIf(Cut(d), TRUE)
    /\ lock' = IF lock = "saver" THEN None ELSE lock
    /\ IF GoesOff THEN dead' = TRUE /\ pc' = "off" /\ UNCHANGED <<low_shown, saver>>
       ELSE pc' = "nap" /\ low_shown' = TRUE /\ saver' = FALSE /\ UNCHANGED dead
    /\ UNCHANGED <<saverRest, tick, batt, strays>>

Naps ==
    /\ ~dead /\ pc = "nap" /\ pc' = "top"
    /\ UNCHANGED <<d, lock, saver, saverRest, tick, low_shown, batt, dead, strays>>

(* Slip: the switch is looked at where the time is.                        *)
WantsFrameByTime == tick

WantsFrame == saver /\ tick

(* The decision to draw is taken before the lock is asked for.             *)
Picks ==
    /\ ~dead /\ pc = "pick"
    /\ pc' = IF ~WantsFrame THEN "frames" ELSE IF mode = "LUT_TEST" THEN "ltest" ELSE "status"
    /\ UNCHANGED <<d, lock, saver, saverRest, tick, low_shown, batt, dead, strays>>

(* Two seconds are more than a partial frame takes, and less than a full   *)
(* one.                                                                    *)
Slow(t) == Arg(t).call \notin Endless \cup {"partial"}

(* Slip: a frame that gives up on the lock has taken the request with it.  *)
SkipsTaking ==
    /\ ~dead /\ pc \in {"ltest", "status"} /\ ~Free /\ Slow(lock)
    /\ pc' = "frames" /\ full_req' = FALSE
    /\ UNCHANGED <<d, lock, saver, mode, keep_on, frame_req, wake, threads, vstream, loose, missed, sent,
                   tick, low_shown, batt, dead, strays>>

(* DISPLAY_LOCK_OR_SKIP gives up after two seconds.                        *)
Skips ==
    /\ ~dead /\ pc \in {"ltest", "status"} /\ ~Free /\ Slow(lock) /\ pc' = "frames"
    /\ UNCHANGED <<d, lock, saver, saverRest, tick, low_shown, batt, dead, strays>>

Stray == strays' = IF saver THEN strays ELSE strays + 1

(* display_manager_update_lut_test.                                        *)
TestDraws ==
    /\ ~dead /\ pc = "ltest" /\ Free /\ lock' = "saver" /\ pc' = "tested"
    /\ d' = LutTestUpdate(d) /\ loose' = (loose \/ ~keep_on) /\ Stray
    /\ UNCHANGED <<saver, mode, keep_on, full_req, frame_req, wake, threads, vstream, missed, sent,
                   tick, low_shown, batt, dead>>

(* display_manager_update_status in the dynamic mode.                      *)
DynamicDraws ==
    /\ ~dead /\ pc = "status" /\ mode = "DYNAMIC" /\ Free /\ lock' = "saver" /\ pc' = "drawn"
    /\ full_req' = FALSE
    /\ d' = PartialUpdate([d EXCEPT !.fb = Rendered("saver")]) /\ Stray
    /\ UNCHANGED <<saver, mode, keep_on, frame_req, wake, threads, vstream, loose, missed, sent,
                   tick, low_shown, batt, dead>>

(* A full frame is due: asked for, the first, a day after the last, or     *)
(* after too many partial ones.                                            *)
FullDue(day) == full_req \/ ~d.baseline \/ day \/ d.partials >= MaxPartials

(* display_manager_update_static_saver, and what the caller counts.        *)
StaticUpdate(s, full) ==
    IF full THEN FullUpdate([s EXCEPT !.baseline = TRUE, !.partials = 0], FullRefresh)
    ELSE PartialUpdate([s EXCEPT !.partials = @ + 1])

(* display_manager_update_status otherwise: what is due is decided on, and *)
(* only then the request is cleared, which is set without the lock.        *)
StaticLooks ==
    /\ ~dead /\ pc = "status" /\ mode # "DYNAMIC" /\ Free /\ lock' = "saver"
    /\ d' = RenderScene(d, "saver")
    /\ \E day \in BOOLEAN : pc' = IF FullDue(day) THEN "full" ELSE "part"
    /\ UNCHANGED <<saver, saverRest, tick, low_shown, batt, dead, strays>>

StaticDraws ==
    /\ ~dead /\ pc \in {"full", "part"} /\ pc' = "drawn"
    /\ full_req' = FALSE /\ missed' = FALSE
    /\ d' = StaticUpdate(StopStreaming(d), pc = "full") /\ Stray
    /\ UNCHANGED <<lock, saver, mode, keep_on, frame_req, wake, threads, vstream, loose, sent,
                   tick, low_shown, batt, dead>>

(* The frame has been driven; a static one restores the waveform and so    *)
(* ends a stream.                                                          *)
DrawEnds ==
    /\ ~dead /\ pc \in {"tested", "drawn"} /\ pc' = "frames" /\ lock' = None
    /\ LET s == PowerDownIf(d, pc = "drawn" /\ ShouldPowerDown)
       IN d' = IF pc = "tested" THEN s
               ELSE [(IF mode = "DYNAMIC" THEN s ELSE StopStreaming(s)) EXCEPT !.scene = None]
    /\ UNCHANGED <<saver, saverRest, tick, low_shown, batt, dead, strays>>

(* A frame another thread asked for.                                       *)
TakesRequest ==
    /\ ~dead /\ pc = "frames"
    /\ IF ~saver /\ frame_req
       THEN pc' = "frame" /\ frame_req' = FALSE /\ d' = [d EXCEPT !.scene = None]
       ELSE pc' = "wait" /\ UNCHANGED <<frame_req, d>>
    /\ UNCHANGED <<lock, saver, mode, keep_on, full_req, wake, threads, vstream, loose, missed, sent,
                   tick, low_shown, batt, dead, strays>>

(* This lock is waited for however long it takes.                          *)
FrameDraws ==
    /\ ~dead /\ pc = "frame" /\ Free /\ lock' = "saver" /\ pc' = "framed"
    /\ d' = FullUpdate(d, FullRefresh)
    /\ UNCHANGED <<saver, saverRest, tick, low_shown, batt, dead, strays>>

FrameEnds ==
    /\ ~dead /\ pc = "framed" /\ pc' = "wait" /\ lock' = None
    /\ d' = PowerDownIf(d, ShouldPowerDown)
    /\ UNCHANGED <<saver, saverRest, tick, low_shown, batt, dead, strays>>

(* Slip: only a wake-up draws.                                             *)
TickDueIfWoken(due) == wake \/ ~saver \/ mode # "STATIC"

TickDue(due) == wake \/ ~saver \/ mode # "STATIC" \/ due

(* The semaphore, or the time: the static saver only draws at a boundary   *)
(* of its interval.                                                        *)
Waits(due) ==
    /\ ~dead /\ pc = "wait" /\ pc' = "top" /\ wake' = FALSE /\ tick' = TickDue(due)
    /\ UNCHANGED <<d, lock, saver, mode, keep_on, full_req, frame_req, threads, vstream, loose, missed, sent,
                   low_shown, batt, dead, strays>>

SaverThread ==
    \/ Maintains \/ FinalDraws \/ FinalEnds \/ Naps \/ Picks \/ Skips
    \/ TestDraws \/ DynamicDraws \/ StaticLooks \/ StaticDraws \/ DrawEnds
    \/ TakesRequest \/ FrameDraws \/ FrameEnds
    \/ \E due \in BOOLEAN : Waits(due)

Next ==
    \/ \E c \in Commands : Host(c)
    \/ \E c \in Flooded : Flood(c)
    \/ \E dual \in BOOLEAN : Frame(dual)
    \/ \E t \in Caller : CallOf(t)
    \/ WatchdogFires \/ SaverThread

Spec == Init /\ [][Next]_vars

(* The threads are scheduled; the mutex goes to its waiter when it is let  *)
(* go, so one that an endless animation takes again and again is had in    *)
(* the end; and the clock reaches the boundaries of the interval.          *)
(* Every step of the screensaver thread moves its pc, and no other does.   *)
Places == {"top", "final", "farewell", "off", "nap", "pick", "ltest", "status", "full", "part",
           "tested", "drawn", "frames", "frame", "framed", "wait"}

SaverCanMove ==
    /\ ~dead
    /\ pc \in {"status", "ltest"} /\ ~Free => Slow(lock)
    /\ pc = "frame" => Free
    /\ pc = "final" /\ lock \in Caller => Arg(lock).call \in Long

SaverMoves == SaverCanMove /\ \E place \in Places \ {pc} : pc' = place

WaitsDue == ~dead /\ pc = "wait" /\ pc' = "top" /\ tick' = TickDue(TRUE)

Fairness ==
    /\ SF_pc(SaverMoves) /\ SF_pc(WaitsDue)
    /\ \A t \in Caller : WF_vars(CallOf(t))

FairSpec == Spec /\ Fairness

-----------------------------------------------------------------------------
TypeOK ==
    /\ d.hw \in Panels(Contents) /\ d.fb \in Buffers
    /\ d.scene \in Pictures \cup {None}
    /\ \A b \in {d.on, d.write_red, d.staged, d.baseline, d.cut, saver, keep_on, full_req, frame_req,
                 wake, vstream, tick, low_shown, dead, loose, missed} : b \in BOOLEAN
    /\ d.count \in 0 .. Interval - 1 /\ d.partials \in 0 .. MaxPartials
    /\ d.unsound \subseteq Refresh
    /\ lock \in Thread \cup {None} /\ mode \in Modes
    /\ sent \in 0 .. MaxCommands

(* No refresh is driven on a panel without power, asleep, not set up, or   *)
(* with RAM nobody wrote since it was lost; and a stream's frame finds its *)
(* rails charged and its waveform loaded.                                  *)
WavesSound == d.unsound = {}

(* A switched-off saver puts at most one more frame on the panel.          *)
OneStray == strays <= 1

AtRest == pc = "wait" /\ \A t \in Caller : prog[t] = <<>>

(* In picture mode, with no stream and nothing under way, the HV rails are *)
(* down, unless the panel was held, or a session begun on it, by what has  *)
(* no release to follow: a mode set, or a frame of the stream shown, after *)
(* the switch, or a frame of the waveform test, which does not look.       *)
RailsDown == AtRest /\ ~saver /\ ~vstream /\ ~loose => ~d.hw.hv

(* ... whatever came before, unless a frame of the saver came late.        *)
RailsNeverStayOn == AtRest /\ ~saver /\ ~vstream /\ strays = 0 => ~d.hw.hv

(* A request for a full refresh is used up by nothing but a frame, and in  *)
(* the static saver by nothing but a full one, unless it came when the     *)
(* frame was decided on and not yet begun: such a request is lost.         *)
(* (display_manager_request_full_update, display_manager_update_status)    *)
RequestDrawn ==
    [][full_req /\ ~full_req' =>
          \/ lock' = "saver" /\ (mode = "DYNAMIC" \/ (d'.baseline /\ d'.partials = 0))
          \/ missed]_vars

(* ... and it is used up, while the saver draws and the battery is well.   *)
RequestServed == full_req ~> (~full_req \/ ~saver \/ mode = "LUT_TEST" \/ batt # "OK")

(* A dying battery switches the tag off, whoever holds the panel.          *)
BatteryKills == batt \in Dying ~> dead
=============================================================================
