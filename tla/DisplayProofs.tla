---------------------------- MODULE DisplayProofs ----------------------------
(***************************************************************************)
(* What holds of the display manager for every set of commands, every      *)
(* interval and any number of commands, frames and floods.                 *)
(***************************************************************************)
EXTENDS Display, SequenceTheorems, TLAPS

(* The calls of handlers.                                                  *)
Names == {"clean", "deep_clean", "request_full", "partial", "set_mode", "tone_test", "redraw",
          "force", "begin", "stream", "test", "stage", "probe", "request_frame", "streaming",
          "nowait", "keep_red", "perform", "rotate", "ask_full"}

Call ==
    [call : {"saver", "keep_on", "write_red"}, on : BOOLEAN]
    \cup [call : {"saver_mode"}, mode : Modes] \cup [call : {"draw"}, what : Pictures]
    \cup [call : {"show"}, what : Pictures, stops : BOOLEAN] \cup [call : Names]

Strokes == {"full", "clear", "clear_flush", "keep_red", "partial", "stream", "hold", "release"}

Driven ==
    [hw : Panels(Contents), on : BOOLEAN, write_red : BOOLEAN, staged : BOOLEAN,
     scene : Pictures \cup {None}, fb : Buffers, count : 0 .. Interval - 1, partials : Nat,
     baseline : BOOLEAN, cut : BOOLEAN, unsound : SUBSET Refresh]

(* A panel that does not sleep is set up, and its red plane is known once  *)
(* the driver believes so.                                                 *)
Ready(p) ==
    /\ ~p.sleeping => p.power /\ p.awake /\ p.regs
    /\ ~p.sleeping /\ ~p.undefined => p.red # Unknown

(* A stream finds what it needs, unless it was cut.                        *)
Streaming(s) == s.on => s.cut \/ Sound(s.hw, "stream")

Good(s) == s \in Driven /\ Ready(s.hw) /\ Streaming(s) /\ s.unsound = {}

(* A power-down that looks at `keep' harms no stream but one already cut.  *)
Held(s, keep) == s.on => s.cut \/ keep

(* The rails are charged for a stream alone.                               *)
Calm(s) == s.hw.hv => s.on

ThreadsOK ==
    /\ prog \in [Caller -> Seq(Call)] /\ strokes \in [Caller -> Seq(Strokes)]
    /\ wet \in [Caller -> BOOLEAN]
    /\ lock \in Thread \cup {None} /\ pc \in Places
    /\ mode \in Modes /\ keep_on \in BOOLEAN /\ saver \in BOOLEAN

(* Who draws has the lock; only a farewell is drawn without it.            *)
LockInv ==
    /\ \A t \in Caller : strokes[t] # <<>> => lock = t /\ prog[t] # <<>>
    /\ \A t \in Caller : lock = t => strokes[t] # <<>>
    /\ \A t \in Caller : wet[t] => strokes[t] # <<>> /\ Head(strokes[t]) \notin {"hold", "release"}
    /\ pc \in {"full", "part", "tested", "drawn", "framed"} => lock = "saver"

(* What the power-down after a frame relies on.                            *)
HeldInv ==
    /\ \A t \in Caller : wet[t] /\ Head(strokes[t]) # "stream" => Held(d, keep_on)
    /\ pc = "drawn" => Held(d, keep_on)
    /\ pc = "framed" => Held(d, FALSE)

(* A frame drawn with the saver off is the last of its turn, and no turn   *)
(* begins another before the saver is on again.                            *)
StrayInv ==
    /\ strays \in {0, 1}
    /\ strays = 1 => ~saver /\ pc \notin {"ltest", "status", "full", "part"}

IInv == ThreadsOK /\ LockInv /\ Good(d) /\ HeldInv /\ StrayInv

-----------------------------------------------------------------------------
(***************************************************************************)
(* The panel.                                                              *)
(***************************************************************************)
Board == Panels(Contents)

Known == Contents \ {Unknown}

Up(p) == p.power /\ p.awake /\ p.regs /\ ~p.sleeping

(* What is written on a panel that is up stays up and known.               *)
LEMMA PictureKnown == Pictures \cup {Zero} \subseteq Known
BY DEF Pictures, Zero, Known, Contents, Unknown, Pattern

LEMMA WriteBwReady ==
    ASSUME NEW p \in Board, NEW c \in Contents, Ready(p)
    PROVE  LET q == WriteBw(p, c)
           IN  /\ q \in Board /\ Ready(q)
               /\ Up(p) => Up(q) /\ q.bw = c
               /\ q.red = p.red /\ q.hv = p.hv /\ q.lut = p.lut /\ q.sleeping = p.sleeping
               /\ q.undefined = p.undefined
BY DEF Board, Panels, WriteBw, Ready, Up

LEMMA WriteRedReady ==
    ASSUME NEW p \in Board, NEW c \in Known, Ready(p)
    PROVE  LET q == WriteRed(p, c)
           IN  /\ q \in Board /\ Ready(q)
               /\ Up(p) => Up(q) /\ q.red = c
               /\ q.bw = p.bw /\ q.hv = p.hv /\ q.lut = p.lut /\ q.sleeping = p.sleeping
BY DEF Board, Panels, WriteRed, Ready, Up, Known

LEMMA DisplayBufferReady ==
    ASSUME NEW p \in Board, Ready(p), NEW bw \in Known, NEW red \in Known
    PROVE  LET q == DisplayBuffer(p, bw, red)
           IN  /\ q \in Board /\ Ready(q)
               /\ q.hv = p.hv /\ q.lut = p.lut
               /\ Up(p) => Up(q) /\ q.bw = bw /\ q.red = red
<1> DEFINE m == WriteBw(p, bw)
<1>1. /\ m \in Board /\ Ready(m) /\ m.hv = p.hv /\ m.lut = p.lut
      /\ Up(p) => Up(m) /\ m.bw = bw
    BY WriteBwReady DEF Known
<1>2. DisplayBuffer(p, bw, red) = WriteRed(m, red)
    BY DEF DisplayBuffer
<1> HIDE DEF m
<1> QED BY <1>1, <1>2, WriteRedReady

LEMMA InitPanelReady ==
    ASSUME NEW p \in Board
    PROVE  InitPanel(p) \in Board /\ Ready(InitPanel(p)) /\ Up(InitPanel(p))
BY DEF Board, Panels, InitPanel, Configure, ResetController, PowerOn, Ready, Up, Waveform, Contents

LEMMA InitPartialReady ==
    ASSUME NEW p \in Board, Ready(p)
    PROVE  /\ InitPartial(p) \in Board /\ Ready(InitPartial(p)) /\ Up(InitPartial(p))
           /\ InitPartial(p).red # Unknown /\ (~p.hv => ~InitPartial(p).hv)
<1> DEFINE on == PowerOn(p)
           reset == ResetController(on)
           woken == IF on.sleeping THEN reset ELSE on
           up == Configure(woken)
           clean == IF up.undefined THEN ClearRedRam(up) ELSE up
<1>1. /\ on \in Board /\ on.power /\ on.sleeping = p.sleeping /\ on.awake = p.awake
      /\ on.undefined = p.undefined /\ on.red = p.red /\ on.hv = p.hv
    BY DEF Board, Panels, PowerOn
<1>2. woken \in Board /\ woken.power /\ woken.awake /\ ~woken.sleeping
      /\ (~woken.undefined => woken.red # Unknown) /\ (~p.hv => ~woken.hv)
    <2>1. CASE on.sleeping
        <3>1. reset \in Board /\ reset.power /\ reset.awake /\ ~reset.sleeping /\ reset.undefined /\ ~reset.hv
            BY <1>1 DEF Board, Panels, ResetController, Waveform, Contents
        <3> QED BY <2>1, <3>1
    <2>2. CASE ~on.sleeping
        BY <1>1, <2>2 DEF Ready
    <2> QED BY <2>1, <2>2
<1>3. up \in Board /\ Up(up) /\ (~up.undefined => up.red # Unknown) /\ (~p.hv => ~up.hv)
    <2> HIDE DEF woken
    <2> QED BY <1>2 DEF Board, Panels, Configure, Waveform, Up
<1>4. clean \in Board /\ Up(clean) /\ clean.red # Unknown /\ Ready(clean) /\ (~p.hv => ~clean.hv)
    <2> HIDE DEF up
    <2>1. CASE up.undefined
        <3>1. Zero \in Known
            BY PictureKnown
        <3>2. Ready(up)
            BY <1>3 DEF Ready, Up
        <3>3. clean \in Board /\ Up(clean) /\ clean.red = Zero /\ Ready(clean) /\ clean.hv = up.hv
            BY <1>3, <2>1, <3>1, <3>2, WriteRedReady DEF ClearRedRam
        <3> QED BY <1>3, <3>1, <3>3 DEF Known
    <2>2. CASE ~up.undefined
        BY <1>3, <2>2 DEF Ready, Up
    <2> QED BY <2>1, <2>2
<1>5. InitPartial(p) = [clean EXCEPT !.sleeping = FALSE]
    BY DEF InitPartial
<1> HIDE DEF clean
<1> QED BY <1>4, <1>5 DEF Board, Panels, Ready, Up

LEMMA UploadedReady ==
    ASSUME NEW p \in Board, Ready(p), NEW kind \in Refresh
    PROVE  LET q == Uploaded(p, kind)
           IN  /\ q \in Board /\ Ready(q) /\ (Up(p) => Up(q))
               /\ q.bw = p.bw /\ q.red = p.red
               /\ kind = "stream" => q = p
<1> USE DEF Board, Panels, UploadLut, Ready, Up, Waveform
<1>1. CASE kind = "full" BY <1>1 DEF Uploaded
<1>2. CASE kind = "factory" BY <1>2 DEF Uploaded
<1>3. CASE kind = "flush_red" BY <1>3 DEF Uploaded
<1>4. CASE kind = "partial" BY <1>4 DEF Uploaded
<1>5. CASE kind = "stream" BY <1>5 DEF Uploaded
<1> QED BY <1>1, <1>2, <1>3, <1>4, <1>5 DEF Refresh

LEMMA RefreshedReady ==
    ASSUME NEW p \in Board, Ready(p), NEW kind \in Refresh
    PROVE  /\ Refreshed(p, kind) \in Board /\ Ready(Refreshed(p, kind))
           /\ IF kind = "stream" THEN Refreshed(p, kind) = p ELSE ~Refreshed(p, kind).hv
<1> USE DEF Board, Panels, UploadLut, Ready, Waveform
<1>1. CASE kind = "stream" BY <1>1 DEF Refreshed
<1>2. CASE kind = "flush_red" BY <1>2 DEF Refreshed
<1>3. CASE kind \in {"full", "factory", "partial"}
    BY <1>3 DEF Refreshed
<1> QED BY <1>1, <1>2, <1>3 DEF Refresh

LEMMA PoweredOffReady ==
    ASSUME NEW p
    PROVE  PowerOff(p) \in Board /\ Ready(PowerOff(p)) /\ ~PowerOff(p).hv
BY DEF Board, Panels, PowerOff, Off, Ready, Waveform, Contents

(* Charging the rails of a panel that is up and filled makes it fit for a  *)
(* stream.                                                                 *)
LEMMA BeginStreamingReady ==
    ASSUME NEW p \in Board, Ready(p)
    PROVE  LET q == BeginStreaming(p)
           IN  /\ q \in Board /\ Ready(q)
               /\ Up(p) /\ p.bw # Unknown /\ p.red # Unknown => Sound(q, "stream")
BY DEF Board, Panels, BeginStreaming, UploadLut, Ready, Up, Sound, Waveform

LEMMA EndStreamingReady ==
    ASSUME NEW p \in Board, Ready(p)
    PROVE  EndStreaming(p) \in Board /\ Ready(EndStreaming(p)) /\ ~EndStreaming(p).hv
BY DEF Board, Panels, EndStreaming, Ready

LEMMA ProbeRamReady ==
    ASSUME NEW p \in Board, Ready(p)
    PROVE  ProbeRam(p) \in Board /\ Ready(ProbeRam(p)) /\ ProbeRam(p).hv = p.hv
BY DEF Board, Panels, ProbeRam, Configure, WriteBw, Ready, Waveform, Contents

-----------------------------------------------------------------------------
(***************************************************************************)
(* What the display lock guards.                                           *)
(***************************************************************************)
(* Another panel, the rest as it was.                                      *)
LEMMA PanelSet ==
    ASSUME NEW s \in Driven, NEW p \in Board
    PROVE  LET r == [s EXCEPT !.hw = p]
           IN  /\ r \in Driven /\ r.hw = p /\ r.on = s.on /\ r.cut = s.cut
               /\ r.unsound = s.unsound /\ r.fb = s.fb /\ r.scene = s.scene
               /\ r.write_red = s.write_red /\ r.baseline = s.baseline /\ r.partials = s.partials
               /\ r.count = s.count
BY DEF Driven, Board

(* A refresh that finds what it needs, or that a stream was cut for.       *)
LEMMA WaveGood ==
    ASSUME NEW s \in Driven, Ready(s.hw), s.unsound = {}, NEW kind \in Refresh,
           s.cut \/ (Up(s.hw) /\ s.hw.bw # Unknown /\ s.hw.red # Unknown
                     /\ (kind = "stream" => Sound(s.hw, "stream")))
    PROVE  LET r == Wave(s, kind)
           IN  /\ r \in Driven /\ Ready(r.hw) /\ r.unsound = {}
               /\ r.on = s.on /\ r.cut = s.cut /\ r.fb = s.fb
               /\ r.baseline = s.baseline /\ r.partials = s.partials
               /\ kind # "stream" => ~r.hw.hv
<1> DEFINE ready == Uploaded(s.hw, kind)
           done == Refreshed(ready, kind)
           bad == IF Sound(ready, kind) \/ s.cut THEN {} ELSE {kind}
<1>1. s.hw \in Board
    BY DEF Driven, Board
<1>2. ready \in Board /\ Ready(ready) /\ (Up(s.hw) => Up(ready)) /\ ready.bw = s.hw.bw
      /\ ready.red = s.hw.red /\ (kind = "stream" => ready = s.hw)
    BY <1>1, UploadedReady
<1>3. done \in Board /\ Ready(done) /\ (kind # "stream" => ~done.hv)
    BY <1>2, RefreshedReady
<1>4. bad = {}
    BY <1>2 DEF Sound, Up
<1>5. Wave(s, kind) = [s EXCEPT !.hw = done, !.unsound = @ \cup bad]
    BY DEF Wave
<1> HIDE DEF done, bad
<1>6. Wave(s, kind) = [s EXCEPT !.hw = done, !.unsound = {}]
    BY <1>4, <1>5 DEF Driven
<1> QED BY <1>2, <1>3, <1>6 DEF Driven, Board

(* stop_streaming_if_active leaves no stream.                              *)
LEMMA StopStreamingGood ==
    ASSUME NEW s, Good(s)
    PROVE  LET r == StopStreaming(s)
           IN  Good(r) /\ ~r.on /\ ~r.cut /\ r.fb = s.fb /\ r.scene = s.scene
               /\ r.baseline = s.baseline /\ r.partials = s.partials /\ (Calm(s) => Calm(r))
<1> DEFINE cleared == IF s.write_red THEN ClearRedRam(s.hw) ELSE s.hw
           p == IF ~s.on THEN s.hw ELSE EndStreaming(cleared)
<1>1. s.hw \in Board /\ Ready(s.hw) /\ s \in Driven
    BY DEF Good, Driven, Board
<1>2. cleared \in Board /\ Ready(cleared)
    BY <1>1, PictureKnown, WriteRedReady DEF ClearRedRam
<1>3. p \in Board /\ Ready(p) /\ (s.on => ~p.hv) /\ (~s.on => p = s.hw)
    BY <1>1, <1>2, EndStreamingReady
<1>4. StopStreaming(s) = [s EXCEPT !.hw = p, !.on = FALSE, !.cut = FALSE, !.write_red = FALSE]
    BY DEF StopStreaming
<1> HIDE DEF p
<1> QED BY <1>1, <1>3, <1>4 DEF Good, Driven, Board, Streaming, Calm

(* Powering down is sound when no stream is under way, or one already cut. *)
LEMMA PowerDownGood ==
    ASSUME NEW s, Good(s), NEW may \in BOOLEAN, may => Held(s, FALSE)
    PROVE  LET r == PowerDownIf(s, may)
           IN  Good(r) /\ r.on = s.on /\ r.cut = s.cut /\ r.fb = s.fb /\ (Calm(s) => Calm(r))
<1> DEFINE p == PowerOff(Sleep(s.hw))
<1>1. p \in Board /\ Ready(p) /\ ~p.hv
    BY PoweredOffReady
<1>2. PowerDownIf(s, may) = IF may THEN [s EXCEPT !.hw = p] ELSE s
    BY DEF PowerDownIf
<1> HIDE DEF p
<1> QED BY <1>1, <1>2, PanelSet DEF Good, Streaming, Held, Calm

(* load_frame fills both planes of a panel that is up.                     *)
LEMMA LoadFrameGood ==
    ASSUME NEW s \in Driven, Ready(s.hw), Up(s.hw)
    PROVE  LET r == LoadFrame(s)
           IN  /\ r \in Driven /\ Ready(r.hw) /\ Up(r.hw)
               /\ r.hw.bw # Unknown /\ r.hw.red # Unknown
               /\ r.on = s.on /\ r.cut = s.cut /\ r.unsound = s.unsound
               /\ r.baseline = s.baseline /\ r.partials = s.partials
<1>1. s.hw \in Board /\ s.fb \in Buffers
    BY DEF Driven, Board
<1>2. CASE HasRed \/ s.scene = None
    <2> DEFINE p == DisplayBuffer(s.hw, s.fb.bw, RedBuffer(s))
    <2>1. s.fb.bw \in Known /\ RedBuffer(s) \in Known
        BY <1>1, PictureKnown DEF Buffers, RedBuffer
    <2>2. p \in Board /\ Ready(p) /\ Up(p) /\ p.bw = s.fb.bw /\ p.red = RedBuffer(s)
        BY <1>1, <2>1, DisplayBufferReady
    <2>3. LoadFrame(s) = [s EXCEPT !.hw = p, !.scene = None]
        BY <1>2 DEF LoadFrame
    <2> HIDE DEF p
    <2> QED BY <2>1, <2>2, <2>3 DEF Driven, Board, Known
<1>3. CASE ~(HasRed \/ s.scene = None)
    <2> DEFINE f == Rendered(s.scene)
               q == WriteRed(s.hw, f.red)
               p == WriteBw(q, f.bw)
    <2>1. f \in Buffers /\ f.bw \in Known /\ f.red \in Known
        BY <1>3, PictureKnown DEF Driven, Rendered, Buffers
    <2>2. q \in Board /\ Ready(q) /\ Up(q) /\ q.red = f.red
        BY <1>1, <2>1, WriteRedReady
    <2>3. p \in Board /\ Ready(p) /\ Up(p) /\ p.bw = f.bw /\ p.red = f.red
        BY <2>1, <2>2, WriteBwReady DEF Known
    <2>4. LoadFrame(s) = [s EXCEPT !.hw = p, !.fb = f, !.scene = None]
        BY <1>3 DEF LoadFrame
    <2> HIDE DEF f, p
    <2> QED BY <2>1, <2>3, <2>4 DEF Driven, Board, Known
<1> QED BY <1>2, <1>3

LEMMA FullRefreshKind == FullRefresh \in {"full", "factory"} /\ FullRefresh \in Refresh \ {"stream"}
BY DEF FullRefresh, Refresh

(* A full refresh may come at any moment.  A stream it breaks into is cut. *)
LEMMA FullUpdateGood ==
    ASSUME NEW s, Good(s), NEW kind \in {"full", "factory", "flush_red"}
    PROVE  LET r == FullUpdate(s, kind)
           IN  Good(r) /\ r.on = s.on /\ Held(r, FALSE) /\ Calm(r)
               /\ r.baseline = s.baseline /\ r.partials = s.partials
<1> DEFINE p == InitPanel(s.hw)
           c == [s EXCEPT !.cut = s.on, !.hw = p]
           f == LoadFrame(c)
<1>1. p \in Board /\ Ready(p) /\ Up(p)
    BY InitPanelReady DEF Good, Driven, Board
<1>2. FullUpdate(s, kind) = Wave(f, kind)
    <2>1. [Cut(s) EXCEPT !.hw = InitPanel(@)] = c
        BY DEF Cut, Good, Driven
    <2> QED BY <2>1 DEF FullUpdate
<1>3. c \in Driven /\ c.hw = p /\ c.on = s.on /\ c.cut = s.on /\ c.unsound = {}
      /\ c.baseline = s.baseline /\ c.partials = s.partials
    <2> HIDE DEF p
    <2> QED BY <1>1 DEF Good, Driven, Board
<1> HIDE DEF c
<1>4. /\ f \in Driven /\ Ready(f.hw) /\ Up(f.hw) /\ f.hw.bw # Unknown /\ f.hw.red # Unknown
      /\ f.on = s.on /\ f.cut = s.on /\ f.unsound = {}
      /\ f.baseline = s.baseline /\ f.partials = s.partials
    BY <1>1, <1>3, LoadFrameGood
<1> HIDE DEF f
<1>5. kind \in Refresh /\ kind # "stream"
    BY DEF Refresh
<1> QED BY <1>2, <1>4, <1>5, WaveGood DEF Good, Streaming, Held, Calm

LEMMA PlainUpdateGood ==
    ASSUME NEW s, Good(s)
    PROVE  LET r == FullUpdate(s, FullRefresh)
           IN  Good(r) /\ r.on = s.on /\ Held(r, FALSE) /\ Calm(r)
               /\ r.baseline = s.baseline /\ r.partials = s.partials
<1> DEFINE kind == FullRefresh
<1>1. kind \in {"full", "factory", "flush_red"}
    BY FullRefreshKind
<1> HIDE DEF kind
<1>2. LET r == FullUpdate(s, kind)
      IN  Good(r) /\ r.on = s.on /\ Held(r, FALSE) /\ Calm(r)
          /\ r.baseline = s.baseline /\ r.partials = s.partials
    BY <1>1, FullUpdateGood
<1> QED BY <1>2 DEF kind

(* ... also one that keeps the red plane, whatever became of it.           *)
LEMMA KeepRedUpdateGood ==
    ASSUME NEW s, Good(s)
    PROVE  LET r == KeepRedUpdate(s)
           IN  Good(r) /\ Held(r, FALSE) /\ r.on = s.on /\ Calm(r)
<1> DEFINE i == InitPartial(s.hw)
           p == WriteBw(i, s.fb.bw)
           c == [s EXCEPT !.cut = s.on, !.hw = p]
           w == Wave(c, FullRefresh)
<1>1. s \in Driven /\ s.hw \in Board /\ Ready(s.hw) /\ s.fb.bw \in Known /\ s.unsound = {}
    BY PictureKnown DEF Good, Driven, Board, Buffers
<1>2. i \in Board /\ Ready(i) /\ Up(i) /\ i.red # Unknown
    BY <1>1, InitPartialReady
<1>3. p \in Board /\ Ready(p) /\ Up(p) /\ p.bw # Unknown /\ p.red # Unknown
    BY <1>1, <1>2, WriteBwReady DEF Known
<1>4. KeepRedUpdate(s) = [w EXCEPT !.staged = FALSE]
    <2>1. [Cut(s) EXCEPT !.hw = WriteBw(InitPartial(@), s.fb.bw)] = c
        BY <1>1 DEF Cut, Driven
    <2> QED BY <2>1 DEF KeepRedUpdate
<1>5. c \in Driven /\ c.hw = p /\ c.on = s.on /\ c.cut = s.on /\ c.unsound = {}
    <2> HIDE DEF p
    <2> QED BY <1>1, <1>3 DEF Driven, Board
<1> HIDE DEF c
<1>6. w \in Driven /\ Ready(w.hw) /\ w.unsound = {} /\ w.on = s.on /\ w.cut = s.on
      /\ ~w.hw.hv
    BY <1>3, <1>5, FullRefreshKind, WaveGood
<1> HIDE DEF w
<1> QED BY <1>4, <1>6 DEF Good, Driven, Streaming, Held, Calm

(* A panel woken for a partial frame.                                      *)
LEMMA WokenGood ==
    ASSUME NEW s, Good(s), ~s.on
    PROVE  LET r == Woken(s)
           IN  /\ Good(r) /\ ~r.on /\ (Calm(s) => Calm(r)) /\ r.cut = s.cut
               /\ Up(r.hw) /\ r.hw.red # Unknown /\ r.fb = s.fb
               /\ r.baseline = s.baseline /\ r.partials = s.partials
<1>1. s.hw \in Board /\ s \in Driven
    BY DEF Good, Driven, Board
<1>2. Woken(s) = [s EXCEPT !.hw = InitPartial(s.hw)]
    BY <1>1 DEF Woken, Driven
<1>3. /\ InitPartial(s.hw) \in Board /\ Ready(InitPartial(s.hw)) /\ Up(InitPartial(s.hw))
      /\ InitPartial(s.hw).red # Unknown /\ (~s.hw.hv => ~InitPartial(s.hw).hv)
    BY <1>1, InitPartialReady DEF Good
<1> QED BY <1>1, <1>2, <1>3, PanelSet DEF Good, Streaming, Calm

(* What a frame of a stream writes.                                        *)
LEMMA WriteStreamGood ==
    ASSUME NEW s, Good(s)
    PROVE  LET r == WriteStream(s)
           IN  /\ Good(r) /\ r.on = s.on /\ r.cut = s.cut
               /\ r.baseline = s.baseline /\ r.partials = s.partials
               /\ Up(s.hw) /\ s.hw.red # Unknown
                  => Up(r.hw) /\ r.hw.bw # Unknown /\ r.hw.red # Unknown
<1> DEFINE p == IF s.write_red THEN DisplayBuffer(s.hw, s.fb.bw, RedBuffer(s))
                ELSE WriteBw(s.hw, s.fb.bw)
<1>1. /\ s \in Driven /\ s.hw \in Board /\ Ready(s.hw)
      /\ s.fb.bw \in Known /\ RedBuffer(s) \in Known
    BY PictureKnown DEF Good, Driven, Board, Buffers, RedBuffer
<1>2. /\ p \in Board /\ Ready(p) /\ p.hv = s.hw.hv /\ p.lut = s.hw.lut
      /\ Up(s.hw) => Up(p) /\ p.bw # Unknown
      /\ Up(s.hw) /\ s.hw.red # Unknown => p.red # Unknown
    <2>1. CASE s.write_red
        <3>1. p = DisplayBuffer(s.hw, s.fb.bw, RedBuffer(s))
            BY <2>1
        <3> HIDE DEF p
        <3> QED BY <1>1, <3>1, DisplayBufferReady DEF Known
    <2>2. CASE ~s.write_red
        <3>1. p = WriteBw(s.hw, s.fb.bw)
            BY <2>2
        <3> HIDE DEF p
        <3> QED BY <1>1, <3>1, WriteBwReady DEF Known
    <2> QED BY <2>1, <2>2
<1>3. WriteStream(s) = [s EXCEPT !.hw = p]
    BY <1>1 DEF WriteStream, Driven
<1>4. Sound(s.hw, "stream") /\ ~s.hw.sleeping => Sound(p, "stream")
    BY <1>2 DEF Sound, Up
<1>5. Sound(s.hw, "stream") /\ s.hw.sleeping => Sound(p, "stream")
    BY <1>1 DEF Sound, WriteStream, DisplayBuffer, WriteBw, WriteRed, Known, Board, Panels
<1> HIDE DEF p
<1> QED BY <1>1, <1>2, <1>3, <1>4, <1>5, PanelSet DEF Good, Streaming

(* A frame of a stream, where the stream may be cut.                       *)
LEMMA StreamWaveGood ==
    ASSUME NEW s, Good(s), s.on
    PROVE  LET r == Wave(s, "stream")
           IN  Good(r) /\ r.on /\ r.baseline = s.baseline /\ r.partials = s.partials
<1>1. s \in Driven /\ Ready(s.hw) /\ s.unsound = {}
    BY DEF Good
<1>2. s.hw \in Board
    BY <1>1 DEF Driven, Board
<1>3. s.cut \/ (Sound(s.hw, "stream") /\ ~s.hw.sleeping) \/ (Sound(s.hw, "stream") /\ s.hw.sleeping)
    BY DEF Good, Streaming
<1>4. "stream" \in Refresh
    BY DEF Refresh
<1>5. Uploaded(s.hw, "stream") = s.hw /\ Refreshed(s.hw, "stream") = s.hw
    BY DEF Uploaded, Refreshed
<1>6. Wave(s, "stream") = [s EXCEPT !.hw = s.hw, !.unsound = {}]
    BY <1>1, <1>3, <1>5 DEF Wave, Driven
<1> QED BY <1>1, <1>2, <1>6 DEF Good, Streaming, Driven, Board

(* The rails go up on a panel that is up and filled.                       *)
LEMMA BegunGood ==
    ASSUME NEW s, Good(s), ~s.on, Up(s.hw), s.hw.bw # Unknown, s.hw.red # Unknown
    PROVE  LET r == Begun(s)
           IN  Good(r) /\ r.on /\ r.baseline = s.baseline /\ r.partials = s.partials
<1> DEFINE p == BeginStreaming(s.hw)
<1>1. s \in Driven /\ s.hw \in Board
    BY DEF Good, Driven, Board
<1>2. p \in Board /\ Ready(p) /\ Sound(p, "stream")
    BY <1>1, BeginStreamingReady DEF Good
<1>3. Begun(s) = [s EXCEPT !.hw = p, !.on = TRUE]
    BY <1>1 DEF Begun, Driven
<1> HIDE DEF p
<1> QED BY <1>1, <1>2, <1>3 DEF Good, Driven, Board, Streaming

(* The count of a stream's frames wraps.                                   *)
LEMMA CountWraps ==
    ASSUME NEW s, Good(s)
    PROVE  LET r == [s EXCEPT !.count = (@ + 1) % Interval]
           IN  Good(r) /\ r.on = s.on /\ r.cut = s.cut /\ r.hw = s.hw
               /\ r.baseline = s.baseline /\ r.partials = s.partials
<1> DEFINE c == (s.count + 1) % Interval
<1>1. s \in Driven
    BY DEF Good
<1>2. s.count \in Nat /\ Interval \in Nat /\ Interval > 0
    BY <1>1, DisplayAssumption DEF Driven
<1>3. c \in 0 .. Interval - 1
    BY <1>2
<1>4. [s EXCEPT !.count = (@ + 1) % Interval] = [s EXCEPT !.count = c]
    BY <1>1 DEF Driven
<1> HIDE DEF c
<1> QED BY <1>1, <1>3, <1>4 DEF Good, Streaming, Driven

(* A partial frame outside a stream cycles the rails.                      *)
LEMMA CycledGood ==
    ASSUME NEW s, Good(s)
    PROVE  LET r == Wave(WriteStream(Woken(StopStreaming(s))), "partial")
           IN  Good(r) /\ ~r.on /\ Calm(r) /\ r.baseline = s.baseline /\ r.partials = s.partials
<1> DEFINE stopped == StopStreaming(s)
           woken == Woken(stopped)
           full == WriteStream(woken)
<1>1. Good(stopped) /\ ~stopped.on /\ stopped.baseline = s.baseline /\ stopped.partials = s.partials
    BY StopStreamingGood
<1> HIDE DEF stopped
<1>2. /\ Good(woken) /\ ~woken.on /\ Up(woken.hw) /\ woken.hw.red # Unknown
      /\ woken.baseline = s.baseline /\ woken.partials = s.partials
    BY <1>1, WokenGood
<1> HIDE DEF woken
<1>3. /\ Good(full) /\ ~full.on /\ Up(full.hw) /\ full.hw.bw # Unknown /\ full.hw.red # Unknown
      /\ full.baseline = s.baseline /\ full.partials = s.partials
    BY <1>2, WriteStreamGood
<1>4. "partial" \in Refresh
    BY DEF Refresh
<1> HIDE DEF full
<1>5. LET r == Wave(full, "partial")
      IN  /\ r \in Driven /\ Ready(r.hw) /\ r.unsound = {} /\ ~r.on /\ ~r.hw.hv
          /\ r.baseline = s.baseline /\ r.partials = s.partials
    BY <1>3, <1>4, WaveGood DEF Good
<1> QED BY <1>5 DEF Good, Streaming, Calm, full, woken, stopped

(* display_manager_update_partial: it leaves a stream only where the panel *)
(* is to be kept on.                                                       *)
LEMMA PartialUpdateGood ==
    ASSUME NEW s, Good(s), keep_on \in BOOLEAN
    PROVE  LET r == PartialUpdate(s)
           IN  Good(r) /\ Held(r, keep_on) /\ Calm(r) /\ (r.on => keep_on)
               /\ r.baseline = s.baseline /\ r.partials = s.partials
<1> DEFINE n == [s EXCEPT !.count = (@ + 1) % Interval]
<1>1. Good(n) /\ n.on = s.on /\ n.hw = s.hw /\ n.baseline = s.baseline /\ n.partials = s.partials
    BY CountWraps
<1>2. CASE ~keep_on
    <2>1. PartialUpdate(s) = Wave(WriteStream(Woken(StopStreaming(s))), "partial")
        BY <1>2 DEF PartialUpdate
    <2> QED BY <2>1, CycledGood DEF Held
<1>3. CASE keep_on /\ n.on /\ n.count = 0
    <2>1. PartialUpdate(s) = Wave(WriteStream(Woken(StopStreaming(n))), "partial")
        BY <1>3 DEF PartialUpdate
    <2> HIDE DEF n
    <2> QED BY <1>1, <2>1, CycledGood DEF Held
<1>4. CASE keep_on /\ ~n.on
    <2> DEFINE woken == Woken(n)
               full == WriteStream(woken)
               begun == Begun(full)
    <2>1. PartialUpdate(s) = Wave(begun, "stream")
        BY <1>4 DEF PartialUpdate
    <2> HIDE DEF n
    <2>2. /\ Good(woken) /\ ~woken.on /\ Up(woken.hw) /\ woken.hw.red # Unknown
          /\ woken.baseline = s.baseline /\ woken.partials = s.partials
        BY <1>1, <1>4, WokenGood
    <2> HIDE DEF woken
    <2>3. /\ Good(full) /\ ~full.on /\ Up(full.hw) /\ full.hw.bw # Unknown /\ full.hw.red # Unknown
          /\ full.baseline = s.baseline /\ full.partials = s.partials
        BY <2>2, WriteStreamGood
    <2> HIDE DEF full
    <2>4. Good(begun) /\ begun.on /\ begun.baseline = s.baseline /\ begun.partials = s.partials
        BY <2>3, BegunGood
    <2> HIDE DEF begun
    <2> QED BY <1>4, <2>1, <2>4, StreamWaveGood DEF Held, Calm
<1>5. CASE keep_on /\ n.on /\ n.count # 0
    <2> DEFINE full == WriteStream(n)
    <2>1. PartialUpdate(s) = Wave(full, "stream")
        BY <1>5 DEF PartialUpdate
    <2> HIDE DEF n
    <2>2. Good(full) /\ full.on /\ full.baseline = s.baseline /\ full.partials = s.partials
        BY <1>1, <1>5, WriteStreamGood
    <2> HIDE DEF full
    <2> QED BY <1>5, <2>1, <2>2, StreamWaveGood DEF Held, Calm
<1> QED BY <1>2, <1>3, <1>4, <1>5

(* Charging the rails of a panel as it was found begins a stream already   *)
(* cut, or one that finds what it needs.                                   *)
LEMMA BegunAsFoundGood ==
    ASSUME NEW s, Good(s)
    PROVE  Good(BegunAsFound(s)) /\ BegunAsFound(s).on
<1>1. CASE s.on
    BY <1>1 DEF BegunAsFound
<1>2. CASE ~s.on
    <2> DEFINE p == BeginStreaming(s.hw)
               cut == ~Sound(p, "stream")
    <2>1. s \in Driven /\ s.hw \in Board
        BY DEF Good, Driven, Board
    <2>2. p \in Board /\ Ready(p)
        BY <2>1, BeginStreamingReady DEF Good
    <2>3. BegunAsFound(s) = [s EXCEPT !.hw = p, !.on = TRUE, !.cut = cut]
        BY <1>2, <2>1 DEF BegunAsFound, Begun, Driven
    <2>4. cut \in BOOLEAN
        OBVIOUS
    <2>5. cut \/ Sound(p, "stream")
        OBVIOUS
    <2> HIDE DEF p, cut
    <2> QED BY <2>1, <2>2, <2>3, <2>4, <2>5 DEF Good, Driven, Board, Streaming
<1> QED BY <1>1, <1>2

LEMMA StreamUpdateGood ==
    ASSUME NEW s, Good(s)
    PROVE  Good(StreamUpdate(s)) /\ StreamUpdate(s).on
BY BegunAsFoundGood, StreamWaveGood DEF StreamUpdate

(* Another picture in the frame buffers.                                   *)
LEMMA PaintedGood ==
    ASSUME NEW s, Good(s), NEW what \in Pictures
    PROVE  LET r == [s EXCEPT !.fb = Rendered(what)]
           IN  Good(r) /\ r.on = s.on /\ r.cut = s.cut /\ r.hw = s.hw
               /\ r.baseline = s.baseline /\ r.partials = s.partials
<1>1. Rendered(what) \in Buffers
    BY DEF Rendered, Buffers
<1> QED BY <1>1 DEF Good, Driven, Streaming

LEMMA RenderSceneGood ==
    ASSUME NEW s, Good(s), NEW what \in Pictures
    PROVE  LET r == RenderScene(s, what)
           IN  Good(r) /\ r.on = s.on /\ r.cut = s.cut /\ r.hw = s.hw
               /\ r.baseline = s.baseline /\ r.partials = s.partials
<1>1. Rendered(what) \in Buffers
    BY DEF Rendered, Buffers
<1>2. what \in Pictures \cup {None}
    OBVIOUS
<1> QED BY <1>1, <1>2 DEF RenderScene, Good, Driven, Streaming

(* update_lut_test.                                                        *)
LEMMA LutTestUpdateGood ==
    ASSUME NEW s, Good(s)
    PROVE  Good(LutTestUpdate(s)) /\ LutTestUpdate(s).on
<1> DEFINE f == [s EXCEPT !.fb = Rendered("ltest")]
           both(x) == [x EXCEPT !.hw = DisplayBuffer(@, x.fb.bw, RedBuffer(x))]
<1>1. Good(f) /\ f.on = s.on
    BY PaintedGood DEF Pictures
<1>2. ASSUME NEW x, Good(x)
      PROVE  /\ Good(both(x)) /\ both(x).on = x.on
             /\ Up(x.hw) => Up(both(x).hw) /\ both(x).hw.bw # Unknown /\ both(x).hw.red # Unknown
    <2> DEFINE p == DisplayBuffer(x.hw, x.fb.bw, RedBuffer(x))
    <2>1. /\ x \in Driven /\ x.hw \in Board /\ Ready(x.hw)
          /\ x.fb.bw \in Known /\ RedBuffer(x) \in Known
        BY <1>2, PictureKnown DEF Good, Driven, Board, Buffers, RedBuffer
    <2>2. /\ p \in Board /\ Ready(p) /\ p.hv = x.hw.hv /\ p.lut = x.hw.lut
          /\ Up(x.hw) => Up(p) /\ p.bw # Unknown /\ p.red # Unknown
        <3>1. x.hw \in Board /\ Ready(x.hw) /\ x.fb.bw \in Known /\ RedBuffer(x) \in Known
            BY <2>1
        <3>2. p = DisplayBuffer(x.hw, x.fb.bw, RedBuffer(x))
            OBVIOUS
        <3> HIDE DEF p
        <3> QED BY <3>1, <3>2, DisplayBufferReady DEF Known
    <2>3. Sound(x.hw, "stream") => Sound(p, "stream")
        BY <2>1 DEF Sound, DisplayBuffer, WriteBw, WriteRed, Known, Board, Panels
    <2>4. both(x) = [x EXCEPT !.hw = p]
        BY <2>1 DEF Driven
    <2> HIDE DEF p, both
    <2>5. /\ both(x) \in Driven /\ both(x).hw = p /\ both(x).on = x.on /\ both(x).cut = x.cut
          /\ both(x).unsound = x.unsound
        BY <2>1, <2>2, <2>4, PanelSet
    <2> QED BY <1>2, <2>2, <2>3, <2>5 DEF Good, Streaming
<1>3. CASE f.on
    <2>1. LutTestUpdate(s) = Wave(both(f), "stream")
        BY <1>3 DEF LutTestUpdate
    <2> HIDE DEF f
    <2>2. Good(both(f)) /\ both(f).on
        BY <1>1, <1>2, <1>3
    <2> HIDE DEF both
    <2> QED BY <2>1, <2>2, StreamWaveGood
<1>4. CASE ~f.on
    <2> DEFINE woken == Woken(f)
               full == both(woken)
               begun == Begun(full)
    <2>1. LutTestUpdate(s) = Wave(begun, "stream")
        BY <1>4 DEF LutTestUpdate
    <2> HIDE DEF f
    <2>2. Good(woken) /\ ~woken.on /\ Up(woken.hw)
        BY <1>1, <1>4, WokenGood
    <2> HIDE DEF woken
    <2>3. Good(full) /\ ~full.on /\ Up(full.hw) /\ full.hw.bw # Unknown /\ full.hw.red # Unknown
        BY <1>2, <2>2
    <2> HIDE DEF full, both
    <2>4. Good(begun) /\ begun.on
        BY <2>3, BegunGood
    <2> HIDE DEF begun
    <2> QED BY <2>1, <2>4, StreamWaveGood
<1> QED BY <1>3, <1>4

(* Every frame of every call.                                              *)
LEMMA StrokeGood ==
    ASSUME NEW s, Good(s), NEW kind \in Strokes \ {"hold", "release"}, keep_on \in BOOLEAN
    PROVE  LET r == Stroke(s, kind)
           IN  /\ Good(r) /\ Calm(r)
               /\ kind # "stream" => Held(r, keep_on) /\ (r.on => s.on \/ keep_on)
<1>1. CASE kind = "full"
    <2>1. Stroke(s, kind) = FullUpdate(s, FullRefresh)
        BY <1>1 DEF Stroke
    <2> QED BY <2>1, PlainUpdateGood DEF Held
<1>2. CASE kind = "clear"
    <2>1. Stroke(s, kind) = FullUpdate(RenderScene(s, "clear"), FullRefresh)
        BY <1>2 DEF Stroke
    <2>2. Good(RenderScene(s, "clear")) /\ RenderScene(s, "clear").on = s.on
        BY RenderSceneGood DEF Pictures
    <2> QED BY <2>1, <2>2, PlainUpdateGood DEF Held
<1>3. CASE kind = "clear_flush"
    <2>1. Stroke(s, kind) = FullUpdate(RenderScene(s, "clear"), "flush_red")
        BY <1>3 DEF Stroke
    <2>2. Good(RenderScene(s, "clear")) /\ RenderScene(s, "clear").on = s.on
        BY RenderSceneGood DEF Pictures
    <2> QED BY <2>1, <2>2, FullUpdateGood DEF Held
<1>4. CASE kind = "keep_red"
    <2>1. Stroke(s, kind) = KeepRedUpdate(s)
        BY <1>4 DEF Stroke
    <2> QED BY <2>1, KeepRedUpdateGood DEF Held
<1>5. CASE kind = "partial"
    <2>1. Stroke(s, kind) = PartialUpdate(s)
        BY <1>5 DEF Stroke
    <2> QED BY <2>1, PartialUpdateGood
<1>6. CASE kind = "stream"
    <2>1. Stroke(s, kind) = StreamUpdate(s)
        BY <1>6 DEF Stroke
    <2> QED BY <1>6, <2>1, StreamUpdateGood DEF Calm
<1> QED BY <1>1, <1>2, <1>3, <1>4, <1>5, <1>6 DEF Strokes

(* A frame of the static saver.                                            *)
LEMMA StaticUpdateGood ==
    ASSUME NEW s, Good(s), NEW full \in BOOLEAN, keep_on \in BOOLEAN
    PROVE  LET r == StaticUpdate(s, full)
           IN  /\ Good(r) /\ Held(r, keep_on) /\ Calm(r) /\ (r.on => s.on \/ keep_on)
               /\ full => r.baseline /\ r.partials = 0
<1>1. s \in Driven
    BY DEF Good
<1>2. CASE full
    <2> DEFINE f == [s EXCEPT !.baseline = TRUE, !.partials = 0]
    <2>1. Good(f) /\ f.baseline /\ f.partials = 0 /\ f.on = s.on
        BY <1>1 DEF Good, Driven, Streaming
    <2>2. StaticUpdate(s, full) = FullUpdate(f, FullRefresh)
        BY <1>2 DEF StaticUpdate
    <2> HIDE DEF f
    <2> QED BY <2>1, <2>2, PlainUpdateGood DEF Held
<1>3. CASE ~full
    <2> DEFINE f == [s EXCEPT !.partials = @ + 1]
    <2>1. Good(f)
        BY <1>1 DEF Good, Driven, Streaming
    <2>2. StaticUpdate(s, full) = PartialUpdate(f)
        BY <1>3 DEF StaticUpdate
    <2> HIDE DEF f
    <2> QED BY <1>3, <2>1, <2>2, PartialUpdateGood
<1> QED BY <1>2, <1>3

LEMMA CountReset ==
    ASSUME NEW s, Good(s)
    PROVE  Good([s EXCEPT !.count = 0])
<1>1. s \in Driven /\ 0 \in 0 .. Interval - 1
    BY DisplayAssumption DEF Good
<1> DEFINE r == [s EXCEPT !.count = 0]
<1>2. r \in Driven /\ r.hw = s.hw /\ r.on = s.on /\ r.cut = s.cut /\ r.unsound = s.unsound
    BY <1>1 DEF Driven
<1> HIDE DEF r
<1>3. Good(r)
    BY <1>2 DEF Good, Streaming
<1> QED BY <1>3 DEF r

(* The saver begins anew with a full frame.                                *)
LEMMA AnewGood ==
    ASSUME NEW s, Good(s)
    PROVE  LET r == [s EXCEPT !.partials = 0, !.baseline = FALSE]
           IN  Good(r) /\ r.on = s.on /\ r.cut = s.cut
<1>1. s \in Driven
    BY DEF Good
<1> DEFINE r == [s EXCEPT !.partials = 0, !.baseline = FALSE]
<1>2. r \in Driven /\ r.hw = s.hw /\ r.on = s.on /\ r.cut = s.cut /\ r.unsound = s.unsound
    BY <1>1 DEF Driven
<1> HIDE DEF r
<1>3. Good(r)
    BY <1>2 DEF Good, Streaming
<1> QED BY <1>2, <1>3 DEF r

(* display_manager_set_keep_on.                                            *)
LEMMA KeptOnGood ==
    ASSUME NEW s, Good(s), NEW on \in BOOLEAN
    PROVE  LET r == KeptOn(s, on)
           IN  Good(r) /\ (Calm(s) => Calm(r)) /\ (r.on => on /\ s.on)
<1> DEFINE stopped == IF on THEN s ELSE StopStreaming(s)
           may == ~on /\ (~saver \/ mode = "STATIC")
<1>1. Good(stopped) /\ (~on => ~stopped.on) /\ (on => stopped = s) /\ (Calm(s) => Calm(stopped))
    BY StopStreamingGood
<1>2. KeptOn(s, on) = PowerDownIf(stopped, may) /\ may \in BOOLEAN
    BY DEF KeptOn
<1>3. may => Held(stopped, FALSE)
    BY <1>1 DEF Held
<1> HIDE DEF stopped, may
<1>4. LET r == PowerDownIf(stopped, may)
      IN  Good(r) /\ r.on = stopped.on /\ (Calm(stopped) => Calm(r))
    BY <1>1, <1>2, <1>3, PowerDownGood
<1> QED BY <1>1, <1>2, <1>4

-----------------------------------------------------------------------------
(***************************************************************************)
(* The calls of handlers.                                                  *)
(***************************************************************************)
LEMMA CallsTyped ==
    /\ \A on \in BOOLEAN : Saver(on) \in Call /\ KeepOn(on) \in Call /\ WriteRedPlane(on) \in Call
    /\ \A m \in Modes : SaverMode(m) \in Call
    /\ \A what \in Pictures : Draw(what) \in Call /\ \A stops \in BOOLEAN : Show(what, stops) \in Call
    /\ \A name \in Names : Plain(name) \in Call
BY DEF Call, Saver, KeepOn, WriteRedPlane, SaverMode, Draw, Show, Plain

LEMMA Tuples ==
    ASSUME NEW S
    PROVE  /\ \A a \in S : <<a>> \in Seq(S)
           /\ \A a, b \in S : <<a, b>> \in Seq(S)
           /\ \A a, b, c \in S : <<a, b, c>> \in Seq(S)
           /\ \A a, b, c, e \in S : <<a, b, c, e>> \in Seq(S)
           /\ \A a, b, c, e, f \in S : <<a, b, c, e, f>> \in Seq(S)
           /\ \A a, b, c, e, f, g \in S : <<a, b, c, e, f, g>> \in Seq(S)
           /\ \A a, b, c, e, f, g, h \in S : <<a, b, c, e, f, g, h>> \in Seq(S)
OBVIOUS

(* Every handler but those of the animation and of the stream.             *)
LEMMA HandlersOver ==
    ASSUME NEW S, \A on \in BOOLEAN : Saver(on) \in S, \A m \in Modes : SaverMode(m) \in S,
           \A what \in Pictures : Draw(what) \in S /\ \A stops \in BOOLEAN : Show(what, stops) \in S,
           \A name \in Names \ {"begin", "stream"} : Plain(name) \in S
    PROVE  \A c \in Commands \ {"ANIM", "VSTREAM"} : Handler[c] \in Seq(S)
<1>1. Saver(FALSE) \in S /\ Saver(TRUE) \in S
    OBVIOUS
<1>2. \A m \in {"STATIC", "DYNAMIC", "LUT_TEST"} : SaverMode(m) \in S
    BY DEF Modes
<1>3. \A what \in {"clear", "text", "host", "dfu"} : Draw(what) \in S
    BY DEF Pictures
<1>4. Show("text", FALSE) \in S /\ Show("text", TRUE) \in S
    BY DEF Pictures
<1>5. \A name \in Names \ {"begin", "stream"} : Plain(name) \in S
    OBVIOUS
<1>6. cmd_cls \in Seq(S) /\ cmd_clean \in Seq(S) /\ cmd_nuke \in Seq(S)
    BY <1>1, <1>2, <1>3, <1>4, <1>5, Tuples DEF cmd_cls, cmd_clean, cmd_nuke, Names
<1>7. cmd_saver \in Seq(S) /\ cmd_update \in Seq(S) /\ cmd_fast \in Seq(S)
    BY <1>1, <1>2, <1>3, <1>4, <1>5, Tuples DEF cmd_saver, cmd_update, cmd_fast, Names
<1>8. cmd_lutset \in Seq(S) /\ cmd_mode \in Seq(S) /\ cmd_time \in Seq(S)
    BY <1>1, <1>2, <1>3, <1>4, <1>5, Tuples DEF cmd_lutset, cmd_mode, cmd_time, Names
<1>9. cmd_time_eq \in Seq(S) /\ cmd_rot \in Seq(S) /\ cmd_probe \in Seq(S)
    BY <1>1, <1>2, <1>3, <1>4, <1>5, Tuples DEF cmd_time_eq, cmd_rot, cmd_probe, Names
<1>10. cmd_text \in Seq(S) /\ cmd_paltest \in Seq(S) /\ cmd_ruler \in Seq(S)
    BY <1>1, <1>2, <1>3, <1>4, <1>5, Tuples DEF cmd_text, cmd_paltest, cmd_ruler, Names
<1>11. cmd_tonetest \in Seq(S) /\ cmd_test \in Seq(S)
    BY <1>1, <1>2, <1>3, <1>4, <1>5, Tuples DEF cmd_tonetest, cmd_test, Names
<1>12. cmd_dfu \in Seq(S)
    BY <1>1, <1>2, <1>3, <1>4, <1>5, Tuples DEF cmd_dfu, Names
<1>13. cmd_ss(FALSE) \in Seq(S) /\ cmd_ss(TRUE) \in Seq(S)
    BY <1>1, <1>2, <1>3, <1>4, <1>5, Tuples DEF cmd_ss, Names
<1>14. cmd_dsaver(TRUE) \in Seq(S) /\ cmd_dsaver(FALSE) \in Seq(S)
    BY <1>1, <1>2, <1>3, <1>4, <1>5, Tuples DEF cmd_dsaver, Names
<1>15. cmd_ltest(TRUE) \in Seq(S) /\ cmd_ltest(FALSE) \in Seq(S)
    BY <1>1, <1>2, <1>3, <1>4, <1>5, Tuples DEF cmd_ltest, Names
<1>16. cmd_fw \in Seq(S) /\ cmd_rw \in Seq(S)
    BY <1>1, <1>2, <1>3, <1>4, <1>5, Tuples DEF cmd_fw, cmd_rw, fb_write, Names
<1>17. cmd_fapply(TRUE) \in Seq(S) /\ cmd_fapply(FALSE) \in Seq(S)
    BY <1>1, <1>2, <1>3, <1>4, <1>5, Tuples DEF cmd_fapply, Names
<1>18. DOMAIN Handler =
       {"CLS", "CLEAN", "NUKE", "SAVER", "PICTURE", "UPDATE", "FAST", "LUTSET", "TEXT",
       "PALTEST", "TONETEST", "TIME", "DSAVER", "DSAVER0", "LTEST", "LTEST0", "ANIM", "TEST",
       "MODE", "ROT", "RULER", "TIME_EQ", "FW", "RW", "FAPPLY_RED", "FAPPLY", "PROBE", "DFU",
       "VSTREAM"}
    BY DEF Handler
<1>19. /\ Handler.CLS \in Seq(S) /\ Handler.CLEAN \in Seq(S)
       /\ Handler.NUKE \in Seq(S) /\ Handler.SAVER \in Seq(S)
       /\ Handler.PICTURE \in Seq(S) /\ Handler.UPDATE \in Seq(S)
       /\ Handler.FAST \in Seq(S) /\ Handler.LUTSET \in Seq(S)
       /\ Handler.TEXT \in Seq(S) /\ Handler.PALTEST \in Seq(S)
    BY <1>6, <1>7, <1>8, <1>9, <1>10, <1>11, <1>12, <1>13, <1>14, <1>15, <1>16, <1>17
       DEF Handler
<1>20. /\ Handler.TONETEST \in Seq(S) /\ Handler.TIME \in Seq(S)
       /\ Handler.DSAVER \in Seq(S) /\ Handler.DSAVER0 \in Seq(S)
       /\ Handler.LTEST \in Seq(S) /\ Handler.LTEST0 \in Seq(S)
       /\ Handler.TEST \in Seq(S)
       /\ Handler.MODE \in Seq(S) /\ Handler.ROT \in Seq(S)
    BY <1>6, <1>7, <1>8, <1>9, <1>10, <1>11, <1>12, <1>13, <1>14, <1>15, <1>16, <1>17
       DEF Handler
<1>21. /\ Handler.RULER \in Seq(S) /\ Handler.TIME_EQ \in Seq(S)
       /\ Handler.FW \in Seq(S) /\ Handler.RW \in Seq(S)
       /\ Handler.FAPPLY_RED \in Seq(S) /\ Handler.FAPPLY \in Seq(S)
       /\ Handler.PROBE \in Seq(S) /\ Handler.DFU \in Seq(S)
    BY <1>6, <1>7, <1>8, <1>9, <1>10, <1>11, <1>12, <1>13, <1>14, <1>15, <1>16, <1>17
       DEF Handler
<1>22. \A c \in DOMAIN Handler \ {"ANIM", "VSTREAM"} : Handler[c] \in Seq(S)
    BY <1>18, <1>19, <1>20, <1>21
<1> QED BY <1>22, CommandsAssumption

LEMMA HandlersTyped == \A c \in Commands : Handler[c] \in Seq(Call)
<1>1. /\ Saver(FALSE) \in Call /\ KeepOn(TRUE) \in Call /\ WriteRedPlane(FALSE) \in Call
      /\ Draw("clear") \in Call /\ \A name \in Names : Plain(name) \in Call
    BY CallsTyped DEF Pictures
<1>2. cmd_anim \in Seq(Call)
    BY <1>1, Tuples DEF cmd_anim, Names
<1>3. cmd_vstream \in Seq(Call)
    BY <1>1, Tuples DEF cmd_vstream, Names
<1>4. Handler.ANIM = cmd_anim /\ Handler.VSTREAM = cmd_vstream
    BY DEF Handler
<1>5. \A c \in Commands \ {"ANIM", "VSTREAM"} : Handler[c] \in Seq(Call)
    BY CallsTyped, HandlersOver
<1> QED BY <1>2, <1>3, <1>4, <1>5

(* The call a thread is about to make.                                     *)
LEMMA ArgTyped ==
    ASSUME ThreadsOK, NEW t \in Caller, prog[t] # <<>>
    PROVE  /\ Arg(t) \in Call
           /\ Arg(t).call \in {"saver", "keep_on", "write_red"} => Arg(t).on \in BOOLEAN
           /\ Arg(t).call = "saver_mode" => Arg(t).mode \in Modes
           /\ Arg(t).call \in {"draw", "show"} => Arg(t).what \in Pictures
<1>1. prog[t] \in Seq(Call)
    BY DEF ThreadsOK
<1>2. Arg(t) \in Call
    BY <1>1, HeadTailProperties DEF Arg
<1> QED BY <1>2 DEF Call, Names

LEMMA ThenTyped ==
    ASSUME ThreadsOK, NEW t \in Caller, prog[t] # <<>>, NEW calls \in Seq(Call), Then(t, calls)
    PROVE  prog' \in [Caller -> Seq(Call)] /\ \A u \in Caller : u # t => prog'[u] = prog[u]
<1>1. prog \in [Caller -> Seq(Call)] /\ prog[t] \in Seq(Call)
    BY DEF ThreadsOK
<1>2. Tail(prog[t]) \in Seq(Call)
    BY <1>1, HeadTailProperties
<1>3. calls \o Tail(prog[t]) \in Seq(Call)
    BY <1>2, ConcatProperties
<1> QED BY <1>1, <1>3 DEF Then

LEMMA ShortCalls ==
    /\ <<>> \in Seq(Call)
    /\ \A on \in BOOLEAN : <<KeepOn(on)>> \in Seq(Call)
    /\ \A name \in Names : <<Plain(name)>> \in Seq(Call)
    /\ <<Plain("ask_full"), Plain("force")>> \in Seq(Call)
<1>1. Plain("ask_full") \in Call /\ Plain("force") \in Call
    BY CallsTyped DEF Names
<1>2. <<Plain("ask_full"), Plain("force")>> \in Seq(Call)
    BY <1>1, Tuples
<1> QED BY <1>2, CallsTyped

-----------------------------------------------------------------------------
(***************************************************************************)
(* Steps.                                                                  *)
(***************************************************************************)
LEMMA FreeIsStill ==
    ASSUME ThreadsOK, LockInv, Free
    PROVE  /\ \A t \in Caller : ~wet[t] /\ strokes[t] = <<>>
           /\ pc \notin {"full", "part", "tested", "drawn", "framed"}
BY CommandsAssumption DEF LockInv, Free, Thread

(* A call without a frame leaves lock and frames alone; one that ends a    *)
(* stream or lets the panel power down waits for the lock.                 *)
LEMMA CallStep ==
    ASSUME IInv, NEW t \in Caller, lock # t, prog[t] # <<>>,
           NEW calls \in Seq(Call), Then(t, calls), UNCHANGED <<lock, strokes, wet, pc>>,
           mode' \in Modes, keep_on' \in BOOLEAN, saver' \in BOOLEAN,
           Good(d'), Free \/ (keep_on' = keep_on /\ d'.on = d.on /\ d'.cut = d.cut), StrayInv'
    PROVE  IInv'
<1>1. prog' \in [Caller -> Seq(Call)] /\ \A u \in Caller : u # t => prog'[u] = prog[u]
    BY ThenTyped DEF IInv
<1>2. strokes[t] = <<>>
    BY DEF IInv, LockInv
<1>3. ThreadsOK'
    BY <1>1 DEF IInv, ThreadsOK
<1>4. LockInv'
    BY <1>1, <1>2 DEF IInv, LockInv
<1>5. HeldInv'
    <2>1. CASE Free
        BY <2>1, FreeIsStill DEF IInv, HeldInv
    <2>2. CASE keep_on' = keep_on /\ d'.on = d.on /\ d'.cut = d.cut
        BY <2>2 DEF IInv, HeldInv, Held
    <2> QED BY <2>1, <2>2
<1> QED BY <1>3, <1>4, <1>5 DEF IInv

LEMMA StepFlags ==
    ASSUME IInv, NEW t \in Caller,
           \/ EnableScreensaver(t) \/ Paints(t) \/ Redraws(t) \/ Rotates(t) \/ RequestsFull(t)
           \/ AsksFull(t) \/ Forces(t) \/ RequestsFrame(t) \/ StreamStarts(t) \/ SetsWriteRed(t)
    PROVE  IInv'
<1> USE DEF flags, threads, saverThread
<1>0. /\ ThreadsOK /\ LockInv /\ Good(d) /\ HeldInv /\ StrayInv /\ d \in Driven
      /\ mode \in Modes /\ keep_on \in BOOLEAN /\ saver \in BOOLEAN
    BY DEF IInv, ThreadsOK, Good
<1>1. CASE EnableScreensaver(t)
    <2> DEFINE calls == IF ReleasesPanel(Arg(t).on) THEN <<KeepOn(FALSE)>> ELSE <<>>
    <2>1. lock # t /\ prog[t] # <<>> /\ Arg(t).call = "saver"
        BY <1>1 DEF EnableScreensaver, Calls, Arg
    <2>2. Arg(t).on \in BOOLEAN
        BY <1>0, <2>1, ArgTyped
    <2>3. saver' = Arg(t).on /\ strays' = (IF Arg(t).on THEN 0 ELSE strays) /\ Then(t, calls)
          /\ d' \in {d, [d EXCEPT !.partials = 0, !.baseline = FALSE]}
          /\ UNCHANGED <<lock, strokes, wet, pc, mode, keep_on>>
        BY <1>1 DEF EnableScreensaver
    <2>4. calls \in Seq(Call)
        BY ShortCalls
    <2>5. Good(d') /\ d'.on = d.on /\ d'.cut = d.cut
        BY <1>0, <2>3, AnewGood
    <2>6. StrayInv'
        BY <1>0, <2>2, <2>3 DEF StrayInv
    <2> HIDE DEF calls
    <2> QED BY <1>0, <2>1, <2>2, <2>3, <2>4, <2>5, <2>6, CallStep
<1>2. CASE Paints(t)
    <2>1. lock # t /\ prog[t] # <<>> /\ Arg(t).call = "draw"
        BY <1>2 DEF Paints, Calls, Arg
    <2>2. Arg(t).what \in Pictures
        BY <1>0, <2>1, ArgTyped
    <2>3. d' = [d EXCEPT !.fb = Rendered(Arg(t).what)] /\ Then(t, <<>>)
          /\ UNCHANGED <<lock, strokes, wet, pc, mode, keep_on, saver, strays>>
        BY <1>2 DEF Paints
    <2>4. Good(d') /\ d'.on = d.on /\ d'.cut = d.cut
        BY <1>0, <2>2, <2>3, PaintedGood
    <2>5. StrayInv'
        BY <1>0, <2>3 DEF StrayInv
    <2> QED BY <1>0, <2>1, <2>3, <2>4, <2>5, CallStep, ShortCalls
<1>3. CASE Rotates(t) \/ AsksFull(t) \/ RequestsFrame(t) \/ StreamStarts(t)
    <2>1. lock # t /\ prog[t] # <<>> /\ Then(t, <<>>)
          /\ UNCHANGED <<d, lock, strokes, wet, pc, mode, keep_on, saver, strays>>
        BY <1>3 DEF Rotates, AsksFull, RequestsFrame, StreamStarts, Calls
    <2>2. StrayInv' /\ Good(d')
        BY <1>0, <2>1 DEF StrayInv
    <2> QED BY <1>0, <2>1, <2>2, CallStep, ShortCalls
<1>4. CASE RequestsFull(t) \/ Redraws(t)
    <2>1. PICK calls \in {<<>>, <<Plain("force")>>, <<Plain("ask_full"), Plain("force")>>} :
              /\ lock # t /\ prog[t] # <<>> /\ Then(t, calls)
              /\ UNCHANGED <<d, lock, strokes, wet, pc, mode, keep_on, saver, strays>>
        BY <1>4 DEF RequestsFull, Redraws, Calls
    <2>2. StrayInv' /\ Good(d')
        BY <1>0, <2>1 DEF StrayInv
    <2>3. calls \in Seq(Call)
        BY <2>1, ShortCalls DEF Names
    <2> QED BY <1>0, <2>1, <2>2, <2>3, CallStep
<1>5. CASE Forces(t)
    <2> DEFINE calls == IF saver THEN <<>> ELSE <<Plain(IF d.staged THEN "keep_red" ELSE "perform")>>
    <2>1. lock # t /\ prog[t] # <<>> /\ Then(t, calls) /\ d' \in {d, [d EXCEPT !.scene = None]}
          /\ UNCHANGED <<lock, strokes, wet, pc, mode, keep_on, saver, strays>>
        BY <1>5 DEF Forces, Calls
    <2>2. StrayInv'
        BY <1>0, <2>1 DEF StrayInv
    <2>3. calls \in Seq(Call)
        BY ShortCalls DEF Names
    <2>4. Good(d') /\ d'.on = d.on /\ d'.cut = d.cut
        BY <1>0, <2>1 DEF Good, Driven, Streaming
    <2> HIDE DEF calls
    <2> QED BY <1>0, <2>1, <2>2, <2>3, <2>4, CallStep
<1>6. CASE SetsWriteRed(t)
    <2>1. lock # t /\ prog[t] # <<>> /\ Arg(t).call = "write_red"
        BY <1>6 DEF SetsWriteRed, Calls, Arg
    <2>2. Arg(t).on \in BOOLEAN
        BY <1>0, <2>1, ArgTyped
    <2>3. d' = [d EXCEPT !.write_red = Arg(t).on] /\ Then(t, <<>>)
          /\ UNCHANGED <<lock, strokes, wet, pc, mode, keep_on, saver, strays>>
        BY <1>6 DEF SetsWriteRed
    <2>4. Good(d') /\ d'.on = d.on /\ d'.cut = d.cut
        BY <1>0, <2>2, <2>3 DEF Good, Driven, Streaming
    <2>5. StrayInv'
        BY <1>0, <2>3 DEF StrayInv
    <2> QED BY <1>0, <2>1, <2>3, <2>4, <2>5, CallStep, ShortCalls
<1> QED BY <1>1, <1>2, <1>3, <1>4, <1>5, <1>6

LEMMA StepLocked ==
    ASSUME IInv, NEW t \in Caller,
           \/ SetsKeepOn(t) \/ SetsPartialMode(t) \/ Begins(t) \/ Stages(t) \/ Probes(t)
           \/ SetsSaverMode(t) \/ DrawsNowait(t)
    PROVE  IInv'
<1> USE DEF flags, threads, saverThread
<1>0. /\ ThreadsOK /\ LockInv /\ Good(d) /\ HeldInv /\ StrayInv /\ d \in Driven
      /\ mode \in Modes /\ keep_on \in BOOLEAN /\ saver \in BOOLEAN
    BY DEF IInv, ThreadsOK, Good
<1>1. /\ lock # t /\ prog[t] # <<>> /\ Free
      /\ UNCHANGED <<lock, strokes, wet, pc, saver, strays>>
    BY DEF SetsKeepOn, SetsPartialMode, Begins, Stages, Probes, SetsSaverMode, DrawsNowait, Locked, Calls
<1>2. StrayInv'
    BY <1>0, <1>1 DEF StrayInv
<1>3. LET s == Woken(StopStreaming(d))
      IN  Good(s) /\ ~s.on /\ s.hw \in Board /\ Ready(s.hw) /\ s.fb.bw \in Known
          /\ RedBuffer(s) \in Known /\ s \in Driven
    <2> DEFINE stopped == StopStreaming(d)
               s == Woken(stopped)
    <2>1. Good(stopped) /\ ~stopped.on
        BY <1>0, StopStreamingGood
    <2> HIDE DEF stopped
    <2>2. Good(s) /\ ~s.on
        BY <2>1, WokenGood
    <2> HIDE DEF s
    <2>3. s.hw \in Board /\ Ready(s.hw) /\ s.fb.bw \in Known /\ RedBuffer(s) \in Known /\ s \in Driven
        BY <2>2, PictureKnown DEF Good, Driven, Board, Buffers, RedBuffer
    <2> QED BY <2>2, <2>3 DEF s, stopped
<1>4. CASE SetsKeepOn(t)
    <2>1. Arg(t).on \in BOOLEAN
        BY <1>0, <1>1, <1>4, ArgTyped DEF SetsKeepOn, Locked, Calls, Arg
    <2>2. keep_on' = Arg(t).on /\ d' = KeptOn(d, Arg(t).on) /\ Then(t, <<>>) /\ UNCHANGED mode
        BY <1>4 DEF SetsKeepOn
    <2>3. Good(d')
        BY <1>0, <2>1, <2>2, KeptOnGood
    <2> QED BY <1>0, <1>1, <1>2, <2>1, <2>2, <2>3, CallStep, ShortCalls
<1>5. CASE SetsPartialMode(t)
    <2>1. d' = StopStreaming(d) /\ Then(t, <<>>) /\ UNCHANGED <<mode, keep_on>>
        BY <1>5 DEF SetsPartialMode
    <2>2. Good(d')
        BY <1>0, <2>1, StopStreamingGood
    <2> QED BY <1>0, <1>1, <1>2, <2>1, <2>2, CallStep, ShortCalls
<1>6. CASE Begins(t)
    <2>1. d' = BegunAsFound(d) /\ Then(t, <<>>) /\ UNCHANGED <<mode, keep_on>>
        BY <1>6 DEF Begins
    <2>2. Good(d')
        BY <1>0, <2>1, BegunAsFoundGood
    <2> QED BY <1>0, <1>1, <1>2, <2>1, <2>2, CallStep, ShortCalls
<1>7. CASE Stages(t)
    <2> DEFINE s == Woken(StopStreaming(d))
               p == WriteRed(s.hw, s.fb.bw)
    <2>1. Then(t, <<>>) /\ UNCHANGED <<mode, keep_on>>
          /\ d' = IF HasRed THEN d ELSE [s EXCEPT !.hw = p, !.staged = TRUE]
        <3>1. [s EXCEPT !.hw = WriteRed(@, s.fb.bw), !.staged = TRUE] = [s EXCEPT !.hw = p, !.staged = TRUE]
            BY <1>3 DEF Driven
        <3> QED BY <1>7, <3>1 DEF Stages
    <2>2. /\ Good(s) /\ ~s.on /\ s.hw \in Board /\ Ready(s.hw) /\ s.fb.bw \in Known /\ s \in Driven
        BY <1>3
    <2> HIDE DEF s
    <2>3. p \in Board /\ Ready(p)
        BY <2>2, WriteRedReady
    <2> HIDE DEF p
    <2>4. Good(d')
        BY <1>0, <2>1, <2>2, <2>3 DEF Good, Driven, Board, Streaming
    <2> QED BY <1>0, <1>1, <1>2, <2>1, <2>4, CallStep, ShortCalls
<1>8. CASE Probes(t)
    <2> DEFINE s == Woken(StopStreaming(d))
               q == ProbeRam(s.hw)
               p == DisplayBuffer(q, s.fb.bw, RedBuffer(s))
               r == [s EXCEPT !.hw = p]
    <2>1. Then(t, <<>>) /\ UNCHANGED <<mode, keep_on>> /\ d' = PowerDownIf(r, ShouldPowerDown)
        <3>1. [s EXCEPT !.hw = DisplayBuffer(ProbeRam(@), s.fb.bw, RedBuffer(s))] = r
            BY <1>3 DEF Driven
        <3> QED BY <1>8, <3>1 DEF Probes
    <2>2. /\ Good(s) /\ ~s.on /\ s.hw \in Board /\ Ready(s.hw) /\ s.fb.bw \in Known /\ s \in Driven
          /\ RedBuffer(s) \in Known
        BY <1>3
    <2> HIDE DEF s
    <2>3. q \in Board /\ Ready(q)
        BY <2>2, ProbeRamReady
    <2> HIDE DEF q
    <2>4. p \in Board /\ Ready(p)
        BY <2>2, <2>3, DisplayBufferReady
    <2> HIDE DEF p
    <2>5. Good(r) /\ ~r.on
        BY <2>2, <2>4, PanelSet DEF Good, Streaming
    <2>6. ShouldPowerDown \in BOOLEAN
        BY DEF ShouldPowerDown
    <2> HIDE DEF r
    <2>7. Good(d')
        BY <2>1, <2>5, <2>6, PowerDownGood DEF Held
    <2> QED BY <1>0, <1>1, <1>2, <2>1, <2>7, CallStep, ShortCalls
<1>9. CASE SetsSaverMode(t)
    <2> DEFINE s == StopStreaming(d)
               r == PowerDownIf(s, TRUE)
    <2>1. Arg(t).mode \in Modes
        BY <1>0, <1>1, <1>9, ArgTyped DEF SetsSaverMode, Locked, Calls, Arg
    <2>2. Then(t, <<>>) /\ mode' = Arg(t).mode /\ keep_on' \in BOOLEAN
          /\ d' \in {d, s, [r EXCEPT !.partials = 0, !.baseline = FALSE]}
        BY <1>9 DEF SetsSaverMode
    <2>3. Good(s) /\ ~s.on
        BY <1>0, StopStreamingGood
    <2> HIDE DEF s
    <2>4. Good(r)
        BY <2>3, PowerDownGood DEF Held
    <2> HIDE DEF r
    <2>5. Good(d')
        BY <1>0, <2>2, <2>3, <2>4, AnewGood
    <2> QED BY <1>0, <1>1, <1>2, <2>1, <2>2, <2>5, CallStep, ShortCalls
<1>10. CASE DrawsNowait(t)
    <2> DEFINE calls == IF keep_on THEN <<>> ELSE <<Plain("partial")>>
    <2>1. Then(t, calls) /\ d' = (IF keep_on THEN PartialUpdate(d) ELSE d) /\ UNCHANGED <<mode, keep_on>>
        BY <1>10 DEF DrawsNowait
    <2>2. Good(d')
        BY <1>0, <2>1, PartialUpdateGood
    <2>3. calls \in Seq(Call)
        BY ShortCalls DEF Names
    <2> HIDE DEF calls
    <2> QED BY <1>0, <1>1, <1>2, <2>1, <2>2, <2>3, CallStep
<1> QED BY <1>4, <1>5, <1>6, <1>7, <1>8, <1>9, <1>10

LEMMA FramesTyped ==
    ASSUME NEW call \in Drawing
    PROVE  Frames(call) \in Seq(Strokes) /\ Frames(call) # <<>>
<1>1. /\ "full" \in Strokes /\ "clear" \in Strokes /\ "clear_flush" \in Strokes
      /\ "partial" \in Strokes /\ "hold" \in Strokes /\ "release" \in Strokes
    BY DEF Strokes
<1>2. CASE call \in {"show", "perform"}
    <2>1. Frames(call) = <<"full">>
        BY <1>2 DEF Frames
    <2> QED BY <1>1, <2>1, Tuples
<1>3. CASE call = "clean"
    <2>1. Frames(call) = <<"clear", "clear_flush">>
        BY <1>3 DEF Frames
    <2> QED BY <1>1, <2>1, Tuples
<1>4. CASE call = "deep_clean"
    <2>1. Frames(call) = <<"clear", "clear", "clear_flush">>
        BY <1>4 DEF Frames
    <2> QED BY <1>1, <2>1, Tuples
<1>5. CASE call = "tone_test"
    <2>1. Frames(call) = <<"clear", "hold", "partial", "partial", "release">>
        BY <1>5 DEF Frames
    <2>2. Frames(call) \in Seq(Strokes)
        BY <1>1, <2>1, Tuples
    <2>3. Frames(call) # <<>>
        BY <2>1
    <2> QED BY <2>2, <2>3
<1>6. CASE call = "test"
    <2>1. Frames(call) = <<"partial">>
        BY <1>6 DEF Frames
    <2> QED BY <1>1, <2>1, Tuples
<1>7. CASE call \in {"keep_red", "partial", "stream"}
    <2>1. Frames(call) = <<call>> /\ call \in Strokes
        BY <1>7 DEF Frames, Strokes
    <2> QED BY <2>1, Tuples
<1> QED BY <1>2, <1>3, <1>4, <1>5, <1>6, <1>7 DEF Drawing, Endless, Long

(* After a frame its thread goes on to the next, or lets the lock go.      *)
LEMMA LeavesKeeps ==
    ASSUME ThreadsOK, LockInv, NEW t \in Caller, strokes[t] # <<>>, Leaves(t),
           strokes' = [strokes EXCEPT ![t] = Tail(@)], wet' \in {wet, [wet EXCEPT ![t] = FALSE]},
           ~wet'[t], UNCHANGED <<pc, mode, saver>>, keep_on' \in BOOLEAN
    PROVE  /\ ThreadsOK' /\ LockInv'
           /\ pc' \notin {"full", "part", "tested", "drawn", "framed"} /\ \A u \in Caller : ~wet'[u]
<1>1. /\ lock = t /\ prog[t] # <<>> /\ pc \notin {"full", "part", "tested", "drawn", "framed"}
      /\ \A u \in Caller : u # t => ~wet[u] /\ strokes[u] = <<>>
    BY DEF LockInv, Caller
<1>2. /\ strokes \in [Caller -> Seq(Strokes)] /\ wet \in [Caller -> BOOLEAN]
      /\ strokes[t] \in Seq(Strokes)
    BY DEF ThreadsOK
<1>3. Tail(strokes[t]) \in Seq(Strokes)
    BY <1>2, HeadTailProperties
<1>4. strokes' \in [Caller -> Seq(Strokes)] /\ wet' \in [Caller -> BOOLEAN]
      /\ \A u \in Caller : u # t => strokes'[u] = <<>> /\ ~wet'[u]
    BY <1>1, <1>2, <1>3
<1>5. strokes'[t] = Tail(strokes[t]) /\ ~wet'[t]
    BY <1>2
<1>6. prog' \in [Caller -> Seq(Call)] /\ lock' \in {t, None}
      /\ (lock' = t => prog'[t] # <<>> /\ strokes'[t] # <<>>) /\ (strokes'[t] # <<>> => lock' = t)
    <2>1. CASE Tail(strokes[t]) # <<>>
        BY <1>1, <1>5, <2>1 DEF Leaves, ThreadsOK
    <2>2. CASE Tail(strokes[t]) = <<>>
        <3>1. lock' = None /\ (prog' = prog \/ Then(t, <<>>))
            BY <2>2 DEF Leaves
        <3>2. None # t
            BY CommandsAssumption DEF Thread
        <3>3. prog' \in [Caller -> Seq(Call)]
            BY <1>1, <3>1, ShortCalls, ThenTyped DEF ThreadsOK
        <3> QED BY <1>5, <2>2, <3>1, <3>2, <3>3
    <2> QED BY <2>1, <2>2
<1>7. ThreadsOK'
    BY <1>4, <1>6 DEF ThreadsOK, Thread
<1>8. LockInv'
    BY <1>1, <1>4, <1>5, <1>6, CommandsAssumption DEF LockInv, Thread
<1> QED BY <1>1, <1>4, <1>5, <1>7, <1>8

LEMMA StepDraws ==
    ASSUME IInv, NEW t \in Caller, Enters(t) \/ Draws(t) \/ Holds(t) \/ Releases(t) \/ Settles(t)
    PROVE  IInv'
<1> USE DEF flags, threads, saverThread
<1>0. /\ ThreadsOK /\ LockInv /\ Good(d) /\ HeldInv /\ StrayInv /\ d \in Driven
      /\ mode \in Modes /\ keep_on \in BOOLEAN /\ saver \in BOOLEAN
      /\ strokes \in [Caller -> Seq(Strokes)] /\ wet \in [Caller -> BOOLEAN]
    BY DEF IInv, ThreadsOK, Good
<1>1. StrayInv'
    <2>1. CASE Enters(t)
        BY <1>0, <2>1 DEF StrayInv, Enters
    <2>2. CASE Draws(t)
        BY <1>0, <2>2 DEF StrayInv, Draws
    <2>3. CASE Holds(t)
        BY <1>0, <2>3 DEF StrayInv, Holds
    <2>4. CASE Releases(t)
        BY <1>0, <2>4 DEF StrayInv, Releases
    <2>5. CASE Settles(t)
        BY <1>0, <2>5 DEF StrayInv, Settles
    <2> QED BY <2>1, <2>2, <2>3, <2>4, <2>5
<1>2. CASE Enters(t)
    <2> DEFINE call == Arg(t).call
               stopped == IF call \in Long \/ (call = "show" /\ Arg(t).stops) THEN StopStreaming(d) ELSE d
    <2>1. /\ Free /\ lock # t /\ prog[t] # <<>> /\ call \in Drawing
          /\ lock' = t /\ strokes' = [strokes EXCEPT ![t] = Frames(call)]
          /\ call = "show" => d' = RenderScene(stopped, Arg(t).what)
          /\ call \in Long => d' = [stopped EXCEPT !.count = 0]
          /\ call # "show" /\ call \notin Long => d' = stopped
          /\ UNCHANGED <<prog, wet, pc, mode, keep_on, saver>>
        BY <1>2 DEF Enters, Locked, Calls, Arg, Long
    <2>2. Frames(call) \in Seq(Strokes) /\ Frames(call) # <<>>
        BY <2>1, FramesTyped
    <2>3. \A u \in Caller : ~wet[u] /\ strokes[u] = <<>>
        BY <1>0, <2>1, FreeIsStill
    <2>4. pc \notin {"full", "part", "tested", "drawn", "framed"}
        BY <1>0, <2>1, FreeIsStill
    <2>5. call = "show" => Arg(t).what \in Pictures
        BY <1>0, <2>1, ArgTyped
    <2>6. Good(stopped)
        BY <1>0, StopStreamingGood
    <2>7. Good([stopped EXCEPT !.count = 0])
        BY <2>6, CountReset
    <2> HIDE DEF stopped, call
    <2>8. Good(d')
        <3>1. CASE call = "show"
            <4>1. d' = RenderScene(stopped, Arg(t).what) /\ Arg(t).what \in Pictures
                BY <2>1, <2>5, <3>1
            <4> QED BY <2>6, <4>1, RenderSceneGood
        <3>2. CASE call # "show" /\ call \in Long
            BY <2>1, <2>7, <3>2
        <3>3. CASE call # "show" /\ call \notin Long
            BY <2>1, <2>6, <3>3
        <3> QED BY <3>1, <3>2, <3>3
    <2>9. ThreadsOK'
        BY <1>0, <2>1, <2>2 DEF ThreadsOK, Thread
    <2>10. LockInv'
        BY <1>0, <2>1, <2>2, <2>3, <2>4 DEF LockInv
    <2>11. HeldInv'
        BY <2>1, <2>3, <2>4 DEF HeldInv
    <2> QED BY <1>1, <2>8, <2>9, <2>10, <2>11 DEF IInv
<1>3. CASE Draws(t)
    <2> DEFINE kind == Head(strokes[t])
    <2>1. /\ strokes[t] # <<>> /\ kind \notin {"hold", "release"} /\ wet' = [wet EXCEPT ![t] = TRUE]
          /\ d' = Stroke(d, kind)
          /\ UNCHANGED <<lock, prog, strokes, pc, mode, keep_on, saver>>
        BY <1>3 DEF Draws
    <2>2. kind \in Strokes
        BY <1>0, <2>1, HeadTailProperties
    <2>3. lock = t /\ pc \notin {"full", "part", "tested", "drawn", "framed"} /\ \A u \in Caller : u # t => ~wet[u]
        BY <1>0, <2>1 DEF LockInv, Caller
    <2>4. Good(d') /\ (kind # "stream" => Held(d', keep_on))
        BY <1>0, <2>1, <2>2, StrokeGood
    <2>5. ThreadsOK' /\ LockInv'
        BY <1>0, <2>1, <2>3 DEF ThreadsOK, LockInv
    <2>6. HeldInv'
        BY <1>0, <2>1, <2>3, <2>4 DEF HeldInv, Held
    <2> QED BY <1>1, <2>4, <2>5, <2>6 DEF IInv
<1>4. CASE Holds(t)
    <2>1. /\ strokes[t] # <<>> /\ Head(strokes[t]) = "hold" /\ keep_on' = TRUE
          /\ strokes' = [strokes EXCEPT ![t] = Tail(@)] /\ Leaves(t)
          /\ UNCHANGED <<d, pc, mode, saver, wet>>
        BY <1>4 DEF Holds
    <2>2. ~wet[t]
        BY <1>0, <2>1 DEF LockInv
    <2>3. /\ ThreadsOK' /\ LockInv'
          /\ pc' \notin {"full", "part", "tested", "drawn", "framed"} /\ \A u \in Caller : ~wet'[u]
        BY <1>0, <2>1, <2>2, LeavesKeeps
    <2> QED BY <1>0, <1>1, <2>1, <2>3 DEF IInv, HeldInv
<1>5. CASE Releases(t)
    <2> DEFINE k == KeptOn(d, FALSE)
    <2>1. /\ strokes[t] # <<>> /\ Head(strokes[t]) = "release" /\ keep_on' = FALSE
          /\ strokes' = [strokes EXCEPT ![t] = Tail(@)] /\ Leaves(t)
          /\ d' = [k EXCEPT !.count = 0]
          /\ UNCHANGED <<pc, mode, saver, wet>>
        BY <1>5 DEF Releases
    <2>2. ~wet[t]
        BY <1>0, <2>1 DEF LockInv
    <2>3. /\ ThreadsOK' /\ LockInv'
          /\ pc' \notin {"full", "part", "tested", "drawn", "framed"} /\ \A u \in Caller : ~wet'[u]
        BY <1>0, <2>1, <2>2, LeavesKeeps
    <2>4. Good(k)
        BY <1>0, KeptOnGood
    <2> HIDE DEF k
    <2>5. Good(d')
        BY <2>1, <2>4, CountReset
    <2> QED BY <1>1, <2>3, <2>5 DEF IInv, HeldInv
<1>6. CASE Settles(t)
    <2> DEFINE may == ShouldPowerDown /\ Head(strokes[t]) # "stream"
    <2>1. /\ wet[t] /\ wet' = [wet EXCEPT ![t] = FALSE]
          /\ strokes' = [strokes EXCEPT ![t] = Tail(@)] /\ Leaves(t)
          /\ d' = PowerDownIf(d, may)
          /\ UNCHANGED <<pc, mode, saver, keep_on>>
        BY <1>6 DEF Settles
    <2>2. strokes[t] # <<>> /\ ~wet'[t]
        BY <1>0, <2>1 DEF LockInv
    <2>3. /\ ThreadsOK' /\ LockInv'
          /\ pc' \notin {"full", "part", "tested", "drawn", "framed"} /\ \A u \in Caller : ~wet'[u]
        BY <1>0, <2>1, <2>2, LeavesKeeps
    <2>4. may \in BOOLEAN /\ (may => Held(d, FALSE))
        BY <1>0, <2>1 DEF HeldInv, ShouldPowerDown, Held
    <2> HIDE DEF may
    <2>5. Good(d')
        BY <1>0, <2>1, <2>4, PowerDownGood
    <2> QED BY <1>1, <2>3, <2>5 DEF IInv, HeldInv
<1> QED BY <1>2, <1>3, <1>4, <1>5, <1>6

LEMMA StepSends ==
    ASSUME IInv,
           \/ \E c \in Commands : Host(c) \/ Flood(c)
           \/ (\E dual \in BOOLEAN : Frame(dual)) \/ WatchdogFires
    PROVE  IInv'
<1> USE DEF flags, threads, saverThread
<1>0. /\ ThreadsOK /\ LockInv /\ Good(d) /\ HeldInv /\ StrayInv
      /\ prog \in [Caller -> Seq(Call)]
    BY DEF IInv, ThreadsOK
<1>1. PICK t \in Caller, calls \in Seq(Call) :
          /\ prog[t] = <<>> /\ prog' = [prog EXCEPT ![t] = calls]
          /\ UNCHANGED <<d, lock, flags, strokes, wet, pc, strays>>
    <2>1. /\ \A on \in BOOLEAN : Saver(on) \in Call /\ KeepOn(on) \in Call /\ WriteRedPlane(on) \in Call
          /\ Plain("nowait") \in Call
        BY CallsTyped DEF Names
    <2>2. CASE \E c \in Commands : Host(c) \/ Flood(c)
        <3>1. PICK c \in Commands : Host(c) \/ Flood(c)
            BY <2>2
        <3>2. Handler[c] \in Seq(Call)
            BY HandlersTyped
        <3>3. CASE Host(c)
            <4>1. "cmd" \in Caller
                BY DEF Caller
            <4> QED BY <3>2, <3>3, <4>1 DEF Host, Sends
        <3>4. CASE Flood(c)
            <4>1. "mesh" \in Caller
                BY DEF Caller
            <4> QED BY <3>2, <3>4, <4>1 DEF Flood, Sends
        <3> QED BY <3>1, <3>3, <3>4
    <2>3. CASE \E dual \in BOOLEAN : Frame(dual)
        <3>1. PICK dual \in BOOLEAN : Frame(dual)
            BY <2>3
        <3> DEFINE calls == <<KeepOn(TRUE), WriteRedPlane(dual), Plain("nowait")>>
        <3>2. calls \in Seq(Call) /\ "rx" \in Caller
            BY <2>1, Tuples DEF Caller
        <3>3. Sends("rx", calls)
            BY <3>1 DEF Frame
        <3> HIDE DEF calls
        <3> QED BY <3>2, <3>3 DEF Sends
    <2>4. CASE WatchdogFires
        <3> DEFINE calls == <<WriteRedPlane(FALSE), KeepOn(FALSE), Saver(TRUE)>>
        <3>1. calls \in Seq(Call) /\ "wq" \in Caller
            BY <2>1, Tuples DEF Caller
        <3>2. /\ prog["wq"] = <<>> /\ prog' = [prog EXCEPT !["wq"] = calls]
              /\ UNCHANGED <<d, lock, flags, strokes, wet, pc, strays>>
            BY <2>4 DEF WatchdogFires
        <3> HIDE DEF calls
        <3> QED BY <3>1, <3>2
    <2> QED BY <2>2, <2>3, <2>4
<1>2. strokes[t] = <<>>
    BY <1>0, <1>1 DEF LockInv
<1>3. ThreadsOK'
    BY <1>0, <1>1 DEF ThreadsOK
<1>4. LockInv'
    <2>1. \A u \in Caller : u # t => prog'[u] = prog[u]
        BY <1>0, <1>1
    <2> QED BY <1>0, <1>1, <1>2, <2>1 DEF LockInv
<1>5. HeldInv' /\ StrayInv' /\ Good(d')
    BY <1>0, <1>1 DEF HeldInv, StrayInv, Held
<1> QED BY <1>3, <1>4, <1>5 DEF IInv

(* The screensaver thread ends a stream or powers the panel down only with *)
(* nobody's frame under way, or cuts the stream.                           *)
LEMMA SaverStep ==
    ASSUME IInv, UNCHANGED <<prog, strokes, wet, mode, keep_on>>, saver' \in BOOLEAN,
           pc' \in Places, lock' \in Thread \cup {None}, \A u \in Caller : lock' = u <=> lock = u,
           pc' \in {"full", "part", "tested", "drawn", "framed"} => lock' = "saver",
           pc' = "drawn" => Held(d', keep_on), pc' = "framed" => Held(d', FALSE),
           (\A u \in Caller : ~wet[u]) \/ (d'.on => d'.cut \/ (d.on /\ ~d.cut)),
           Good(d'), StrayInv'
    PROVE  IInv'
<1>0. ThreadsOK /\ LockInv /\ HeldInv
    BY DEF IInv
<1>1. ThreadsOK'
    BY <1>0 DEF ThreadsOK
<1>2. LockInv'
    BY <1>0 DEF LockInv
<1>3. \A t \in Caller : wet[t] /\ Head(strokes[t]) # "stream" => Held(d', keep_on)
    BY <1>0 DEF HeldInv, Held
<1>4. HeldInv'
    BY <1>3 DEF HeldInv
<1> QED BY <1>1, <1>2, <1>4 DEF IInv

(* What every step of the screensaver thread has.                          *)
LEMMA Alone ==
    ASSUME IInv
    PROVE  /\ Good(d) /\ d \in Driven /\ StrayInv /\ mode \in Modes /\ keep_on \in BOOLEAN
           /\ saver \in BOOLEAN /\ lock \in Thread \cup {None}
           /\ "saver" \notin Caller /\ "saver" \in Thread /\ None \notin Caller
           /\ Free \/ lock = "saver" => \A u \in Caller : ~wet[u]
           /\ pc \in {"full", "part", "tested", "drawn", "framed"} => lock = "saver"
<1>1. "saver" \notin Caller /\ "saver" \in Thread /\ None \notin Caller
    BY CommandsAssumption DEF Caller, Thread
<1> QED BY <1>1 DEF IInv, Good, ThreadsOK, LockInv, Free

LEMMA StepLast ==
    ASSUME IInv, Maintains \/ FinalDraws \/ FinalEnds
    PROVE  IInv'
<1> USE DEF saverRest, flags, threads, Places
<1>0. /\ Good(d) /\ d \in Driven /\ StrayInv /\ mode \in Modes /\ keep_on \in BOOLEAN
      /\ saver \in BOOLEAN /\ lock \in Thread \cup {None}
      /\ "saver" \notin Caller /\ "saver" \in Thread /\ None \notin Caller
      /\ (Free \/ lock = "saver" => \A u \in Caller : ~wet[u])
    BY Alone
<1>1. CASE Maintains
    <2>1. /\ pc = "top" /\ pc' \in {"final", "nap", "pick"}
          /\ UNCHANGED <<lock, prog, strokes, wet, mode, keep_on>>
          /\ d' \in {d, RenderScene(d, "final")}
          /\ (saver' = TRUE /\ strays' = 0) \/ UNCHANGED <<saver, strays>>
        BY <1>1 DEF Maintains
    <2>2. Good(d') /\ d'.on = d.on /\ d'.cut = d.cut
        BY <1>0, <2>1, RenderSceneGood DEF Pictures
    <2>3. StrayInv'
        BY <1>0, <2>1 DEF StrayInv
    <2> QED BY <1>0, <2>1, <2>2, <2>3, SaverStep DEF Good, Driven
<1>2. CASE FinalDraws
    <2> DEFINE s == StopStreaming(d)
               r == FullUpdate(s, FullRefresh)
    <2>1. /\ pc = "final" /\ pc' = "farewell" /\ lock' = (IF Free THEN "saver" ELSE lock) /\ d' = r
          /\ UNCHANGED <<prog, strokes, wet, mode, keep_on, saver, strays>>
        BY <1>2 DEF FinalDraws
    <2>2. Good(s) /\ ~s.on
        BY <1>0, StopStreamingGood
    <2> HIDE DEF s
    <2>3. Good(r) /\ ~r.on
        BY <2>2, PlainUpdateGood
    <2> HIDE DEF r
    <2>4. StrayInv'
        BY <1>0, <2>1 DEF StrayInv
    <2>5. \A u \in Caller : lock' = u <=> lock = u
        BY <1>0, <2>1 DEF Free
    <2> QED BY <1>0, <2>1, <2>3, <2>4, <2>5, SaverStep
<1>3. CASE FinalEnds
    <2> DEFINE s == Cut(d)
               r == PowerDownIf(s, TRUE)
    <2>1. /\ pc = "farewell" /\ pc' \in {"off", "nap"} /\ lock' = (IF lock = "saver" THEN None ELSE lock)
          /\ d' = r /\ saver' \in BOOLEAN /\ (saver' => saver)
          /\ UNCHANGED <<prog, strokes, wet, mode, keep_on, strays>>
        BY <1>0, <1>3 DEF FinalEnds
    <2>2. s \in Driven /\ s.hw = d.hw /\ s.on = d.on /\ s.cut = d.on /\ s.unsound = d.unsound
        BY <1>0 DEF Cut, Driven
    <2> HIDE DEF s
    <2>3. Good(s) /\ Held(s, FALSE)
        BY <1>0, <2>2 DEF Good, Streaming, Held
    <2>4. Good(r) /\ (r.on => r.cut)
        BY <2>2, <2>3, PowerDownGood
    <2> HIDE DEF r
    <2>5. StrayInv'
        BY <1>0, <2>1 DEF StrayInv
    <2>6. \A u \in Caller : lock' = u <=> lock = u
        BY <1>0, <2>1
    <2> QED BY <1>0, <2>1, <2>4, <2>5, <2>6, SaverStep
<1> QED BY <1>1, <1>2, <1>3

LEMMA StepTurns ==
    ASSUME IInv, Naps \/ Picks \/ Skips \/ TakesRequest \/ \E due \in BOOLEAN : Waits(due)
    PROVE  IInv'
<1> USE DEF saverRest, flags, threads, Places
<1>0. /\ Good(d) /\ d \in Driven /\ StrayInv /\ saver \in BOOLEAN /\ lock \in Thread \cup {None}
    BY Alone
<1>1. UNCHANGED <<lock, prog, strokes, wet, mode, keep_on, saver, strays>>
    BY DEF Naps, Picks, Skips, TakesRequest, Waits
<1>2. pc' \in {"top", "frames", "ltest", "status", "frame", "wait"} /\ (pc' \in {"ltest", "status"} => saver)
    BY DEF Naps, Picks, Skips, TakesRequest, Waits, WantsFrame
<1>3. d' \in {d, [d EXCEPT !.scene = None]}
    BY DEF Naps, Picks, Skips, TakesRequest, Waits
<1>4. Good(d') /\ d'.on = d.on /\ d'.cut = d.cut
    BY <1>0, <1>3 DEF Good, Driven, Streaming
<1>5. StrayInv'
    BY <1>0, <1>1, <1>2 DEF StrayInv
<1> QED BY <1>0, <1>1, <1>2, <1>4, <1>5, SaverStep DEF Good, Driven

LEMMA StepFrames ==
    ASSUME IInv, \/ TestDraws \/ DynamicDraws \/ StaticLooks \/ StaticDraws \/ DrawEnds
                 \/ FrameDraws \/ FrameEnds
    PROVE  IInv'
<1> USE DEF saverRest, flags, threads, Places
<1>0. /\ Good(d) /\ d \in Driven /\ StrayInv /\ mode \in Modes /\ keep_on \in BOOLEAN
      /\ saver \in BOOLEAN /\ lock \in Thread \cup {None}
      /\ "saver" \notin Caller /\ "saver" \in Thread /\ None \notin Caller
      /\ (Free \/ lock = "saver" => \A u \in Caller : ~wet[u])
      /\ (pc \in {"full", "part", "tested", "drawn", "framed"} => lock = "saver")
    BY Alone
<1>1. UNCHANGED <<prog, strokes, wet, mode, keep_on, saver>>
    BY DEF TestDraws, DynamicDraws, StaticLooks, StaticDraws, DrawEnds, FrameDraws, FrameEnds
<1>2. /\ Free \/ lock = "saver"
      /\ lock' \in {"saver", None}
    BY <1>0 DEF TestDraws, DynamicDraws, StaticLooks, StaticDraws, DrawEnds, FrameDraws, FrameEnds
<1>3. /\ \A u \in Caller : lock' = u <=> lock = u
      /\ \A u \in Caller : ~wet[u]
    BY <1>0, <1>2 DEF Free
<1>4. CASE TestDraws
    <2>1. pc = "ltest" /\ pc' = "tested" /\ lock' = "saver" /\ d' = LutTestUpdate(d) /\ Stray
        BY <1>4 DEF TestDraws
    <2>2. Good(d')
        BY <1>0, <2>1, LutTestUpdateGood
    <2>3. StrayInv'
        BY <1>0, <1>1, <2>1 DEF StrayInv, Stray
    <2> QED BY <1>0, <1>1, <1>3, <2>1, <2>2, <2>3, SaverStep
<1>5. CASE DynamicDraws
    <2> DEFINE s == [d EXCEPT !.fb = Rendered("saver")]
    <2>1. pc = "status" /\ pc' = "drawn" /\ lock' = "saver" /\ d' = PartialUpdate(s) /\ Stray
        BY <1>5 DEF DynamicDraws
    <2>2. Good(s)
        BY <1>0, PaintedGood DEF Pictures
    <2> HIDE DEF s
    <2>3. Good(d') /\ Held(d', keep_on)
        BY <1>0, <2>1, <2>2, PartialUpdateGood
    <2>4. StrayInv'
        BY <1>0, <1>1, <2>1 DEF StrayInv, Stray
    <2> QED BY <1>0, <1>1, <1>3, <2>1, <2>3, <2>4, SaverStep
<1>6. CASE StaticDraws
    <2> DEFINE s == StopStreaming(d)
               full == pc = "full"
    <2>1. pc \in {"full", "part"} /\ pc' = "drawn" /\ lock' = "saver" /\ Stray /\ d' = StaticUpdate(s, full)
        BY <1>0, <1>6 DEF StaticDraws
    <2>2. Good(s)
        BY <1>0, StopStreamingGood
    <2>3. full \in BOOLEAN
        OBVIOUS
    <2> HIDE DEF s, full
    <2>4. Good(d') /\ Held(d', keep_on)
        BY <1>0, <2>1, <2>2, <2>3, StaticUpdateGood
    <2>5. StrayInv'
        BY <1>0, <1>1, <2>1 DEF StrayInv, Stray
    <2> QED BY <1>0, <1>1, <1>3, <2>1, <2>4, <2>5, SaverStep
<1>7. CASE DrawEnds
    <2> DEFINE may == pc = "drawn" /\ ShouldPowerDown
               s == PowerDownIf(d, may)
               r == IF mode = "DYNAMIC" THEN s ELSE StopStreaming(s)
    <2>1. /\ pc \in {"tested", "drawn"} /\ pc' = "frames" /\ lock' = None /\ UNCHANGED strays
          /\ d' = IF pc = "tested" THEN s ELSE [r EXCEPT !.scene = None]
        BY <1>7 DEF DrawEnds
    <2>2. may \in BOOLEAN /\ (may => Held(d, FALSE))
        BY <1>0 DEF IInv, HeldInv, ShouldPowerDown, Held
    <2> HIDE DEF may
    <2>3. Good(s)
        BY <1>0, <2>2, PowerDownGood
    <2> HIDE DEF s
    <2>4. Good(r) /\ r \in Driven
        BY <2>3, StopStreamingGood DEF Good
    <2> HIDE DEF r
    <2>5. Good(d')
        BY <2>1, <2>3, <2>4 DEF Good, Driven, Streaming
    <2>6. StrayInv'
        BY <1>0, <1>1, <2>1 DEF StrayInv
    <2> QED BY <1>0, <1>1, <1>3, <2>1, <2>5, <2>6, SaverStep
<1>8. CASE FrameDraws
    <2>1. pc = "frame" /\ pc' = "framed" /\ lock' = "saver" /\ d' = FullUpdate(d, FullRefresh) /\ UNCHANGED strays
        BY <1>8 DEF FrameDraws
    <2>2. Good(d') /\ Held(d', FALSE)
        BY <1>0, <2>1, PlainUpdateGood
    <2>3. StrayInv'
        BY <1>0, <1>1, <2>1 DEF StrayInv
    <2> QED BY <1>0, <1>1, <1>3, <2>1, <2>2, <2>3, SaverStep
<1>9. CASE FrameEnds
    <2>1. /\ pc = "framed" /\ pc' = "wait" /\ lock' = None /\ UNCHANGED strays
          /\ d' = PowerDownIf(d, ShouldPowerDown)
        BY <1>9 DEF FrameEnds
    <2>2. ShouldPowerDown \in BOOLEAN /\ Held(d, FALSE)
        BY <2>1 DEF IInv, HeldInv, ShouldPowerDown
    <2>3. Good(d')
        BY <1>0, <2>1, <2>2, PowerDownGood
    <2>4. StrayInv'
        BY <1>0, <1>1, <2>1 DEF StrayInv
    <2> QED BY <1>0, <1>1, <1>3, <2>1, <2>3, <2>4, SaverStep
<1>10. CASE StaticLooks
    <2>1. /\ pc = "status" /\ pc' \in {"full", "part"} /\ lock' = "saver"
          /\ d' = RenderScene(d, "saver") /\ UNCHANGED strays
        BY <1>10 DEF StaticLooks
    <2>2. Good(d')
        BY <1>0, <2>1, RenderSceneGood DEF Pictures
    <2>3. StrayInv'
        BY <1>0, <1>1, <2>1 DEF StrayInv
    <2> QED BY <1>0, <1>1, <1>3, <2>1, <2>2, <2>3, SaverStep
<1> QED BY <1>4, <1>5, <1>6, <1>7, <1>8, <1>9, <1>10

-----------------------------------------------------------------------------
LEMMA InitInv == Init => IInv
<1> SUFFICES ASSUME Init PROVE IInv
    OBVIOUS
<1>1. DetectPanel \in Board /\ Ready(DetectPanel)
    BY PoweredOffReady DEF DetectPanel
<1>2. Rendered("clear") \in Buffers
    BY DEF Rendered, Buffers, Pictures
<1>3. 0 \in 0 .. Interval - 1
    BY DisplayAssumption
<1>4. Good(d)
    BY <1>1, <1>2, <1>3 DEF Init, Good, Driven, Streaming, Board
<1>5. ThreadsOK /\ LockInv
    <2>1. <<>> \in Seq(Call) /\ <<>> \in Seq(Strokes)
        OBVIOUS
    <2>2. ThreadsOK
        BY <2>1 DEF Init, ThreadsOK, Places, Modes
    <2>3. LockInv
        BY CommandsAssumption DEF Init, LockInv, Caller, Thread
    <2> QED BY <2>2, <2>3
<1>6. HeldInv /\ StrayInv
    BY DEF Init, HeldInv, StrayInv
<1> QED BY <1>4, <1>5, <1>6 DEF IInv

LEMMA StepInv == IInv /\ [Next]_vars => IInv'
<1> SUFFICES ASSUME IInv, [Next]_vars PROVE IInv'
    OBVIOUS
<1>1. CASE \E t \in Caller : CallOf(t)
    <2>1. PICK t \in Caller : CallOf(t)
        BY <1>1
    <2> QED BY <2>1, StepFlags, StepLocked, StepDraws DEF CallOf
<1>2. CASE \/ \E c \in Commands : Host(c)
           \/ \E c \in Flooded : Flood(c)
           \/ (\E dual \in BOOLEAN : Frame(dual)) \/ WatchdogFires
    BY <1>2, StepSends, DisplayAssumption
<1>3. CASE SaverThread
    BY <1>3, StepLast, StepTurns, StepFrames DEF SaverThread
<1>4. CASE UNCHANGED vars
    BY <1>4 DEF vars, flags, threads, saverThread, IInv, ThreadsOK, LockInv, HeldInv, StrayInv, Held
<1> QED BY <1>1, <1>2, <1>3, <1>4 DEF Next

(* Nobody's calls, in any order, take the invariant away.                  *)
THEOREM Invariance == Spec => []IInv
<1> QED BY InitInv, StepInv, PTL DEF Spec

(* Every refresh finds a panel that is powered, awake, set up and written, *)
(* and every frame of a stream its rails and its waveform, unless the      *)
(* stream was cut by another's full frame: write_plane, ssd1675a_update_*. *)
THEOREM WavesAreSound == Spec => []WavesSound
<1>1. IInv => WavesSound
    BY DEF IInv, Good, WavesSound
<1> QED BY Invariance, <1>1, PTL

(* Switching the saver off lets at most the frame already decided on reach *)
(* the panel: display_manager_enable_screensaver, screensaver_thread.      *)
THEOREM OnlyOneStray == Spec => []OneStray
<1>1. IInv => OneStray
    BY DEF IInv, StrayInv, OneStray
<1> QED BY Invariance, <1>1, PTL

(* A partial frame is decided on with no request made; one made since is   *)
(* remembered as missed.                                                   *)
PartInv == missed \in BOOLEAN /\ (pc = "part" /\ full_req => missed)

LEMMA PartInductive == Spec => []PartInv
<1>1. Init => PartInv
    BY DEF Init, PartInv
<1>2. PartInv /\ [Next]_vars => PartInv'
    <2> SUFFICES ASSUME PartInv, [Next]_vars PROVE PartInv'
        OBVIOUS
    <2> USE DEF flags, threads, saverThread, saverRest
    <2>1. CASE UNCHANGED <<pc, full_req, missed>>
        BY <2>1 DEF PartInv
    <2>2. ASSUME NEW t \in Caller, CallOf(t) PROVE PartInv'
        <3>1. CASE AsksFull(t)
            <4>1. missed' = (missed \/ pc = "part") /\ UNCHANGED pc
                BY <3>1 DEF AsksFull
            <4> QED BY <4>1 DEF PartInv
        <3>2. CASE ~AsksFull(t)
            BY <2>1, <2>2, <3>2 DEF CallOf, EnableScreensaver, Paints, Redraws, Rotates, RequestsFull,
               Forces, RequestsFrame, StreamStarts, SetsWriteRed, DrawsNowait, SetsKeepOn, SetsPartialMode,
               Begins, Stages, Probes, SetsSaverMode, Enters, Draws, Holds, Releases, Settles
        <3> QED BY <3>1, <3>2
    <2>3. CASE \/ \E c \in Commands : Host(c)
               \/ \E c \in Flooded : Flood(c)
               \/ (\E dual \in BOOLEAN : Frame(dual)) \/ WatchdogFires
        BY <2>1, <2>3 DEF Host, Flood, Frame, Sends, WatchdogFires
    <2>4. CASE StaticLooks
        <3>1. full_req => pc' = "full"
            BY <2>4 DEF StaticLooks, FullDue
        <3>2. UNCHANGED <<full_req, missed>>
            BY <2>4 DEF StaticLooks
        <3> QED BY <3>1, <3>2 DEF PartInv
    <2>5. CASE SaverThread /\ ~StaticLooks
        <3>1. pc' # "part" /\ missed' \in {missed, FALSE}
            BY <2>5 DEF SaverThread, Maintains, FinalDraws, FinalEnds, Naps, Picks, Skips, TestDraws,
               DynamicDraws, StaticDraws, DrawEnds, TakesRequest, FrameDraws, FrameEnds, Waits
        <3> QED BY <3>1 DEF PartInv
    <2>6. CASE UNCHANGED vars
        BY <2>1, <2>6 DEF vars
    <2> QED BY <2>2, <2>3, <2>4, <2>5, <2>6 DEF Next
<1> QED BY <1>1, <1>2, PTL DEF Spec

(* A request for a full frame is used up by the frame that answers it, and *)
(* a static one is full; only a request made after a partial frame was     *)
(* decided on, and before it is begun, is lost:                            *)
(* display_manager_request_full_update, display_manager_update_status.     *)
THEOREM RequestIsDrawn == Spec => RequestDrawn
<1> DEFINE Kept == full_req /\ ~full_req' =>
                      \/ lock' = "saver" /\ (mode = "DYNAMIC" \/ (d'.baseline /\ d'.partials = 0))
                      \/ missed
<1>1. ASSUME IInv, PartInv, [Next]_vars PROVE [Kept]_vars
    <2> SUFFICES ASSUME full_req, ~full_req'
                 PROVE  \/ lock' = "saver" /\ (mode = "DYNAMIC" \/ (d'.baseline /\ d'.partials = 0))
                        \/ missed
        OBVIOUS
    <2>1. DynamicDraws \/ StaticDraws
        <3>1. ~UNCHANGED full_req
            OBVIOUS
        <3>2. ASSUME NEW t \in Caller PROVE ~CallOf(t)
            BY <3>1 DEF CallOf, EnableScreensaver, Paints, Redraws, Rotates, RequestsFull, AsksFull, Forces,
               RequestsFrame, StreamStarts, SetsWriteRed, DrawsNowait, SetsKeepOn, SetsPartialMode, Begins,
               Stages, Probes, SetsSaverMode, Enters, Draws, Holds, Releases, Settles, flags
        <3>3. ~WatchdogFires /\ \A t \in Caller : \A c : ~Sends(t, c)
            BY <3>1 DEF WatchdogFires, Sends, flags
        <3>4. /\ \A c \in Commands : ~Host(c)
              /\ \A c \in Flooded : ~Flood(c)
              /\ \A dual \in BOOLEAN : ~Frame(dual)
            BY <3>3 DEF Host, Flood, Frame, Caller
        <3>5. SaverThread
            <4>1. ~UNCHANGED vars
                BY <3>1 DEF vars, flags
            <4>2. Next
                BY <1>1, <4>1
            <4> QED BY <3>2, <3>3, <3>4, <4>2 DEF Next
        <3> QED BY <3>1, <3>5 DEF SaverThread, Maintains, FinalDraws, FinalEnds, Naps, Picks, Skips,
                TestDraws, StaticLooks, DrawEnds, TakesRequest, FrameDraws, FrameEnds, Waits, saverRest
    <2>2. CASE DynamicDraws
        BY <2>2 DEF DynamicDraws
    <2>3. CASE StaticDraws /\ pc = "part"
        BY <1>1, <2>3 DEF PartInv
    <2>4. CASE StaticDraws /\ pc = "full"
        <3> DEFINE s == StopStreaming(d)
        <3>1. d' = StaticUpdate(s, TRUE) /\ lock' = "saver"
            BY <1>1, <2>4, Alone DEF StaticDraws
        <3>2. Good(s) /\ keep_on \in BOOLEAN
            BY <1>1, Alone, StopStreamingGood
        <3> HIDE DEF s
        <3>3. d'.baseline /\ d'.partials = 0
            BY <3>1, <3>2, StaticUpdateGood
        <3> QED BY <3>1, <3>3
    <2> QED BY <2>1, <2>2, <2>3, <2>4 DEF StaticDraws
<1> QED BY Invariance, PartInductive, <1>1, PTL DEF Spec, RequestDrawn

-----------------------------------------------------------------------------
(***************************************************************************)
(* Who is to let go of the panel.                                          *)
(***************************************************************************)
(* A list has an element of a set, and one after each of another.          *)
Has(p, C) == \E i \in DOMAIN p : p[i] \in C

Followed(p, A, C) == \A i \in DOMAIN p : p[i] \in A => \E j \in DOMAIN p : i < j /\ p[j] \in C

(* The calls after which a stream or an animation keeps the panel.         *)
Holders == {Plain("streaming"), Plain("stream")}

Enders == {KeepOn(FALSE)} \cup Holders

(* A low battery's warning is the one thing that switches the saver off    *)
(* and releases nothing; it is over before the thread rests.               *)
LowInv ==
    /\ batt \in {"OK", "LOW", "CRITICAL", "SHUTDOWN"}
    /\ low_shown => pc \in {"nap", "top", "final", "farewell", "off"}

(* A handler that holds the panel starts a stream after it, and one that   *)
(* begins a session shows frames for ever.  Only the frames of a stream    *)
(* hold the panel on the stream's account.                                 *)
ListsInv ==
    \A t \in Caller :
        /\ Followed(prog[t], {Plain("begin")}, {Plain("stream")})
        /\ t # "rx" => Followed(prog[t], {KeepOn(TRUE)}, Holders)

StrokesInv ==
    \A t \in Caller :
        /\ strokes[t] # <<>> => Arg(t).call \in Drawing
        /\ Has(strokes[t], {"stream"}) => Arg(t) = Plain("stream")
        /\ Followed(strokes[t], {"hold"}, {"release"})

(* A panel held in picture mode is one somebody is about to let go, or to  *)
(* make a stream of.                                                       *)
HoldInv ==
    ~saver /\ keep_on /\ ~vstream /\ ~loose /\ ~low_shown =>
        \E t \in Caller : Has(prog[t], Enders) \/ Has(strokes[t], {"release"})

(* A session without a hold is the animation's.                            *)
SessionInv == d.on /\ ~keep_on => loose \/ \E t \in Caller : Has(prog[t], {Plain("stream")})

RailsInv == Calm(d) /\ LowInv /\ ListsInv /\ StrokesInv /\ HoldInv /\ SessionInv

LEMMA TailHas ==
    ASSUME NEW S, NEW p \in Seq(S), p # <<>>, NEW C
    PROVE  Has(p, C) <=> Head(p) \in C \/ Has(Tail(p), C)
<1>1. /\ Len(p) \in Nat /\ Len(p) > 0 /\ DOMAIN p = 1 .. Len(p) /\ Head(p) = p[1]
      /\ DOMAIN Tail(p) = 1 .. Len(p) - 1
      /\ \A i \in 1 .. Len(p) - 1 : Tail(p)[i] = p[i + 1]
    BY HeadTailProperties, EmptySeq, LenProperties
<1>2. ASSUME NEW i \in DOMAIN p, p[i] \in C PROVE Head(p) \in C \/ Has(Tail(p), C)
    <2>1. CASE i = 1
        BY <1>1, <1>2, <2>1
    <2>2. CASE i # 1
        <3>1. i - 1 \in 1 .. Len(p) - 1 /\ (i - 1) + 1 = i
            BY <1>1, <2>2
        <3> QED BY <1>1, <1>2, <3>1 DEF Has
    <2> QED BY <2>1, <2>2
<1>3. Has(Tail(p), C) => Has(p, C)
    <2>1. ASSUME NEW i \in DOMAIN Tail(p), Tail(p)[i] \in C PROVE Has(p, C)
        <3>1. i + 1 \in DOMAIN p /\ p[i + 1] \in C
            BY <1>1, <2>1
        <3> QED BY <3>1 DEF Has
    <2> QED BY <2>1 DEF Has
<1>4. Head(p) \in C => Has(p, C)
    BY <1>1 DEF Has
<1> QED BY <1>2, <1>3, <1>4 DEF Has

LEMMA TailFollowed ==
    ASSUME NEW S, NEW p \in Seq(S), p # <<>>, NEW A, NEW C, Followed(p, A, C)
    PROVE  Followed(Tail(p), A, C) /\ (Head(p) \in A => Has(Tail(p), C))
<1>1. /\ Len(p) \in Nat /\ Len(p) > 0 /\ DOMAIN p = 1 .. Len(p) /\ Head(p) = p[1]
      /\ DOMAIN Tail(p) = 1 .. Len(p) - 1
      /\ \A i \in 1 .. Len(p) - 1 : Tail(p)[i] = p[i + 1]
    BY HeadTailProperties, EmptySeq, LenProperties
<1>2. ASSUME NEW i \in DOMAIN p, p[i] \in A
      PROVE  \E j \in DOMAIN Tail(p) : i <= j /\ Tail(p)[j] \in C
    <2>1. PICK j \in DOMAIN p : i < j /\ p[j] \in C
        BY <1>2 DEF Followed
    <2>2. j - 1 \in 1 .. Len(p) - 1 /\ i <= j - 1 /\ (j - 1) + 1 = j
        BY <1>1, <2>1
    <2> QED BY <1>1, <2>1, <2>2
<1>3. ASSUME NEW i \in DOMAIN Tail(p), Tail(p)[i] \in A
      PROVE  \E j \in DOMAIN Tail(p) : i < j /\ Tail(p)[j] \in C
    <2>1. i + 1 \in DOMAIN p /\ p[i + 1] \in A
        BY <1>1, <1>3
    <2>2. PICK j \in DOMAIN Tail(p) : i + 1 <= j /\ Tail(p)[j] \in C
        BY <1>2, <2>1
    <2> QED BY <1>1, <2>2
<1>4. Head(p) \in A => Has(Tail(p), C)
    BY <1>1, <1>2 DEF Has
<1> QED BY <1>3, <1>4 DEF Followed

LEMMA JoinHas ==
    ASSUME NEW S, NEW p \in Seq(S), NEW q \in Seq(S), NEW C
    PROVE  Has(p \o q, C) <=> Has(p, C) \/ Has(q, C)
<1> DEFINE r == p \o q
<1>1. /\ Len(p) \in Nat /\ Len(q) \in Nat /\ DOMAIN p = 1 .. Len(p) /\ DOMAIN q = 1 .. Len(q)
      /\ DOMAIN r = 1 .. Len(p) + Len(q)
      /\ \A i \in 1 .. Len(p) + Len(q) : r[i] = IF i <= Len(p) THEN p[i] ELSE q[i - Len(p)]
    BY ConcatProperties, LenProperties
<1> HIDE DEF r
<1>2. ASSUME NEW i \in DOMAIN r, r[i] \in C PROVE Has(p, C) \/ Has(q, C)
    <2>1. CASE i <= Len(p)
        <3>1. i \in DOMAIN p /\ p[i] \in C
            BY <1>1, <1>2, <2>1
        <3> QED BY <3>1 DEF Has
    <2>2. CASE ~(i <= Len(p))
        <3>1. i - Len(p) \in DOMAIN q /\ q[i - Len(p)] \in C
            BY <1>1, <1>2, <2>2
        <3> QED BY <3>1 DEF Has
    <2> QED BY <2>1, <2>2
<1>3. ASSUME NEW i \in DOMAIN p, p[i] \in C PROVE Has(r, C)
    <2>1. i \in DOMAIN r /\ r[i] \in C
        BY <1>1, <1>3
    <2> QED BY <2>1 DEF Has
<1>4. ASSUME NEW i \in DOMAIN q, q[i] \in C PROVE Has(r, C)
    <2>1. i + Len(p) \in DOMAIN r /\ ~(i + Len(p) <= Len(p)) /\ (i + Len(p)) - Len(p) = i
        BY <1>1
    <2>2. r[i + Len(p)] \in C
        BY <1>1, <1>4, <2>1
    <2> QED BY <2>1, <2>2 DEF Has
<1>5. Has(r, C) => Has(p, C) \/ Has(q, C)
    BY <1>2 DEF Has
<1>6. Has(p, C) \/ Has(q, C) => Has(r, C)
    BY <1>3, <1>4 DEF Has
<1> QED BY <1>5, <1>6 DEF r

LEMMA JoinFollowed ==
    ASSUME NEW S, NEW p \in Seq(S), NEW q \in Seq(S), NEW A, NEW C, ~Has(p, A), Followed(q, A, C)
    PROVE  Followed(p \o q, A, C)
<1> DEFINE r == p \o q
<1>1. /\ Len(p) \in Nat /\ Len(q) \in Nat /\ DOMAIN p = 1 .. Len(p) /\ DOMAIN q = 1 .. Len(q)
      /\ DOMAIN r = 1 .. Len(p) + Len(q)
      /\ \A i \in 1 .. Len(p) + Len(q) : r[i] = IF i <= Len(p) THEN p[i] ELSE q[i - Len(p)]
    BY ConcatProperties, LenProperties
<1> HIDE DEF r
<1>2. ASSUME NEW i \in DOMAIN r, r[i] \in A PROVE \E j \in DOMAIN r : i < j /\ r[j] \in C
    <2>1. ~(i <= Len(p))
        <3>1. SUFFICES ASSUME i <= Len(p) PROVE FALSE
            OBVIOUS
        <3>2. i \in DOMAIN p /\ p[i] \in A
            BY <1>1, <1>2, <3>1
        <3> QED BY <3>2 DEF Has
    <2>2. i - Len(p) \in DOMAIN q /\ q[i - Len(p)] \in A
        BY <1>1, <1>2, <2>1
    <2>3. PICK j \in DOMAIN q : i - Len(p) < j /\ q[j] \in C
        BY <2>2 DEF Followed
    <2>4. j + Len(p) \in DOMAIN r /\ ~(j + Len(p) <= Len(p)) /\ (j + Len(p)) - Len(p) = j /\ i < j + Len(p)
        BY <1>1, <2>2, <2>3
    <2>5. r[j + Len(p)] \in C
        BY <1>1, <2>3, <2>4
    <2> QED BY <2>4, <2>5
<1> QED BY <1>2 DEF Followed, r

LEMMA ShortHas ==
    ASSUME NEW C
    PROVE  ~Has(<<>>, C) /\ \A e : Has(<<e>>, C) <=> e \in C
BY DEF Has

LEMMA NoneFollowed ==
    ASSUME NEW p, NEW A, NEW C, ~Has(p, A)
    PROVE  Followed(p, A, C)
BY DEF Has, Followed

LEMMA OneFollows ==
    ASSUME NEW p, NEW A, NEW C, NEW j \in DOMAIN p, p[j] \in C, \A i \in DOMAIN p : p[i] \in A => i < j
    PROVE  Followed(p, A, C)
BY DEF Followed

(* Calls after which nothing is owed.                                      *)
Idle == {e \in Call : e.call \notin {"keep_on", "begin", "stream"}}

Settling(p) ==
    Followed(p, {Plain("begin")}, {Plain("stream")}) /\ Followed(p, {KeepOn(TRUE)}, Holders)

LEMMA IdleFollowed ==
    ASSUME NEW p \in Seq(Idle)
    PROVE  Settling(p)
<1>1. \A i \in DOMAIN p : p[i] \in Idle
    OBVIOUS
<1>2. Plain("begin") \notin Idle /\ KeepOn(TRUE) \notin Idle
    BY DEF Idle, Plain, KeepOn
<1>3. ~Has(p, {Plain("begin")}) /\ ~Has(p, {KeepOn(TRUE)})
    BY <1>1, <1>2 DEF Has
<1> QED BY <1>3, NoneFollowed DEF Settling

LEMMA HandlersFollow == \A c \in Commands : Settling(Handler[c])
<1>1. \A c \in Commands \ {"ANIM", "VSTREAM"} : Handler[c] \in Seq(Idle)
    <2>1. /\ \A on \in BOOLEAN : Saver(on) \in Idle
          /\ \A m \in Modes : SaverMode(m) \in Idle
        BY CallsTyped DEF Saver, SaverMode, Idle
    <2>2. \A what \in Pictures : Draw(what) \in Idle /\ \A stops \in BOOLEAN : Show(what, stops) \in Idle
        BY CallsTyped DEF Draw, Show, Idle
    <2>3. \A name \in Names \ {"begin", "stream"} : Plain(name) \in Idle
        BY CallsTyped DEF Names, Plain, Idle
    <2> QED BY <2>1, <2>2, <2>3, HandlersOver
<1>2. Settling(cmd_anim)
    <2>1. /\ DOMAIN cmd_anim = 1 .. 6
          /\ cmd_anim[1] = Saver(FALSE) /\ cmd_anim[2] = KeepOn(TRUE) /\ cmd_anim[3] = Draw("clear")
          /\ cmd_anim[4] = Plain("force") /\ cmd_anim[5] = Plain("begin") /\ cmd_anim[6] = Plain("stream")
        BY DEF cmd_anim
    <2>2. /\ Plain("begin") \notin {Saver(FALSE), KeepOn(TRUE), Draw("clear"), Plain("force"), Plain("stream")}
          /\ KeepOn(TRUE) \notin {Saver(FALSE), Draw("clear"), Plain("force"), Plain("begin"), Plain("stream")}
        BY DEF Plain, KeepOn, Saver, Draw
    <2>3. \A i \in DOMAIN cmd_anim : i \in {1, 2, 3, 4, 5, 6}
        BY <2>1
    <2>4. \A i \in DOMAIN cmd_anim : /\ cmd_anim[i] = Plain("begin") => i = 5
                                     /\ cmd_anim[i] = KeepOn(TRUE) => i = 2
        BY <2>1, <2>2, <2>3
    <2>5. 6 \in DOMAIN cmd_anim /\ cmd_anim[6] \in {Plain("stream")} /\ cmd_anim[6] \in Holders
        BY <2>1 DEF Holders
    <2>6. 5 < 6 /\ 2 < 6
        OBVIOUS
    <2>7. \A i \in DOMAIN cmd_anim : /\ cmd_anim[i] \in {Plain("begin")} => i < 6
                                     /\ cmd_anim[i] \in {KeepOn(TRUE)} => i < 6
        BY <2>4, <2>6, Zenon
    <2> QED BY <2>5, <2>7, OneFollows DEF Settling
<1>3. Settling(cmd_vstream)
    <2>1. /\ DOMAIN cmd_vstream = 1 .. 7
          /\ cmd_vstream[1] = Saver(FALSE) /\ cmd_vstream[2] = Draw("clear") /\ cmd_vstream[3] = KeepOn(TRUE)
          /\ cmd_vstream[4] = WriteRedPlane(FALSE) /\ cmd_vstream[5] = Plain("set_mode")
          /\ cmd_vstream[6] = Plain("partial") /\ cmd_vstream[7] = Plain("streaming")
        BY DEF cmd_vstream
    <2>2. Plain("begin") \notin {Saver(FALSE), Draw("clear"), KeepOn(TRUE), WriteRedPlane(FALSE),
                                 Plain("set_mode"), Plain("partial"), Plain("streaming")}
        BY DEF Plain, KeepOn, Saver, Draw, WriteRedPlane
    <2>3. KeepOn(TRUE) \notin {Saver(FALSE), Draw("clear"), WriteRedPlane(FALSE),
                               Plain("set_mode"), Plain("partial"), Plain("streaming")}
        BY DEF Plain, KeepOn, Saver, Draw, WriteRedPlane
    <2>4. \A i \in DOMAIN cmd_vstream : i \in {1, 2, 3, 4, 5, 6, 7}
        BY <2>1
    <2>5. \A i \in DOMAIN cmd_vstream : /\ cmd_vstream[i] # Plain("begin")
                                        /\ cmd_vstream[i] = KeepOn(TRUE) => i = 3
        BY <2>1, <2>2, <2>3, <2>4
    <2>6. 7 \in DOMAIN cmd_vstream /\ cmd_vstream[7] \in Holders
        BY <2>1 DEF Holders
    <2>7. ~Has(cmd_vstream, {Plain("begin")})
        BY <2>5 DEF Has
    <2>8. 3 < 7
        OBVIOUS
    <2>9. \A i \in DOMAIN cmd_vstream : cmd_vstream[i] \in {KeepOn(TRUE)} => i < 7
        BY <2>5, <2>8, Zenon
    <2> QED BY <2>6, <2>7, <2>9, OneFollows, NoneFollowed DEF Settling
<1>4. Handler.ANIM = cmd_anim /\ Handler.VSTREAM = cmd_vstream
    BY DEF Handler
<1> QED BY <1>1, <1>2, <1>3, <1>4, IdleFollowed

(* A call made, and those it makes in its turn put before the rest.        *)
LEMMA ThenLists ==
    ASSUME ThreadsOK, ListsInv, NEW t \in Caller, prog[t] # <<>>, NEW calls \in Seq(Call), Then(t, calls),
           ~Has(calls, {Plain("begin")}), ~Has(calls, {KeepOn(TRUE)})
    PROVE  /\ ListsInv'
           /\ \A C : \A u \in Caller : Has(prog[u], C) /\ ~(u = t /\ Arg(t) \in C) => Has(prog'[u], C)
           /\ \A C : Has(calls, C) => Has(prog'[t], C)
           /\ Arg(t) = Plain("begin") => Has(prog'[t], {Plain("stream")})
           /\ t # "rx" /\ Arg(t) = KeepOn(TRUE) => Has(prog'[t], Holders)
<1>1. /\ prog \in [Caller -> Seq(Call)] /\ prog[t] \in Seq(Call) /\ Tail(prog[t]) \in Seq(Call)
      /\ Arg(t) = Head(prog[t])
    BY HeadTailProperties DEF ThreadsOK, Arg
<1>2. prog'[t] = calls \o Tail(prog[t]) /\ \A u \in Caller : u # t => prog'[u] = prog[u]
    BY <1>1 DEF Then
<1>3. \A C : Has(prog'[t], C) <=> Has(calls, C) \/ Has(Tail(prog[t]), C)
    <2> TAKE C
    <2>1. Has(calls \o Tail(prog[t]), C) <=> Has(calls, C) \/ Has(Tail(prog[t]), C)
        BY <1>1, JoinHas
    <2> QED BY <1>2, <2>1
<1>4. \A C : Has(prog[t], C) <=> Arg(t) \in C \/ Has(Tail(prog[t]), C)
    BY <1>1, TailHas
<1>5. /\ Followed(Tail(prog[t]), {Plain("begin")}, {Plain("stream")})
      /\ Arg(t) \in {Plain("begin")} => Has(Tail(prog[t]), {Plain("stream")})
    BY <1>1, TailFollowed DEF ListsInv
<1>6. ASSUME t # "rx"
      PROVE  /\ Followed(Tail(prog[t]), {KeepOn(TRUE)}, Holders)
             /\ Arg(t) \in {KeepOn(TRUE)} => Has(Tail(prog[t]), Holders)
    BY <1>1, <1>6, TailFollowed DEF ListsInv
<1>7. Followed(prog'[t], {Plain("begin")}, {Plain("stream")})
    BY <1>1, <1>2, <1>5, JoinFollowed
<1>8. t # "rx" => Followed(prog'[t], {KeepOn(TRUE)}, Holders)
    BY <1>1, <1>2, <1>6, JoinFollowed
<1>9. ListsInv'
    BY <1>2, <1>7, <1>8 DEF ListsInv
<1> QED BY <1>2, <1>3, <1>4, <1>5, <1>6, <1>9

(* A call that draws no frame.  What it leaves held somebody releases.     *)
LEMMA CallRails ==
    ASSUME IInv, RailsInv, NEW t \in Caller, strokes[t] = <<>>, prog[t] # <<>>,
           NEW calls \in Seq(Call), Then(t, calls),
           ~Has(calls, {Plain("begin")}), ~Has(calls, {KeepOn(TRUE)}),
           UNCHANGED <<strokes, pc, batt, low_shown>>, Calm(d'),
           ~saver' /\ keep_on' /\ ~vstream' /\ ~loose' =>
               \/ ~saver /\ keep_on /\ ~vstream /\ ~loose /\ Arg(t) \notin Enders
               \/ Has(prog'[t], Enders),
           d'.on /\ ~keep_on' =>
               \/ loose' \/ (d.on /\ ~keep_on /\ ~loose /\ Arg(t) # Plain("stream"))
               \/ Has(prog'[t], {Plain("stream")})
    PROVE  RailsInv'
<1>0. ThreadsOK /\ LockInv
    BY DEF IInv
<1>1. LowInv'
    BY DEF RailsInv, LowInv
<1>2. /\ ListsInv'
      /\ \A C : \A u \in Caller : Has(prog[u], C) /\ ~(u = t /\ Arg(t) \in C) => Has(prog'[u], C)
    BY <1>0, ThenLists DEF RailsInv
<1>3. StrokesInv'
    <2>1. \A u \in Caller : u # t => Arg(u)' = Arg(u)
        BY <1>0 DEF Arg, Then, ThreadsOK
    <2>2. ~Has(strokes'[t], {"stream"})
        BY ShortHas
    <2> QED BY <2>1, <2>2 DEF RailsInv, StrokesInv
<1>4. HoldInv'
    <2> SUFFICES ASSUME ~saver' /\ keep_on' /\ ~vstream' /\ ~loose' /\ ~low_shown'
                 PROVE  \E u \in Caller : Has(prog'[u], Enders) \/ Has(strokes'[u], {"release"})
        BY DEF HoldInv
    <2>1. CASE ~saver /\ keep_on /\ ~vstream /\ ~loose /\ Arg(t) \notin Enders
        <3>1. PICK u \in Caller : Has(prog[u], Enders) \/ Has(strokes[u], {"release"})
            BY <2>1 DEF RailsInv, HoldInv
        <3> QED BY <1>2, <2>1, <3>1
    <2> QED BY <2>1
<1>5. SessionInv'
    <2> SUFFICES ASSUME d'.on /\ ~keep_on' /\ ~loose'
                 PROVE  \E u \in Caller : Has(prog'[u], {Plain("stream")})
        BY DEF SessionInv
    <2>1. CASE d.on /\ ~keep_on /\ ~loose /\ Arg(t) # Plain("stream")
        <3>1. PICK u \in Caller : Has(prog[u], {Plain("stream")})
            BY <2>1 DEF RailsInv, SessionInv
        <3> QED BY <1>2, <2>1, <3>1
    <2> QED BY <2>1
<1> QED BY <1>1, <1>2, <1>3, <1>4, <1>5 DEF RailsInv

(* What a call adds before the rest owes nothing.                          *)
LEMMA ShortOwes ==
    /\ ~Has(<<>>, {Plain("begin")}) /\ ~Has(<<>>, {KeepOn(TRUE)})
    /\ ~Has(<<KeepOn(FALSE)>>, {Plain("begin")}) /\ ~Has(<<KeepOn(FALSE)>>, {KeepOn(TRUE)})
    /\ \A name \in Names \ {"begin"} :
           ~Has(<<Plain(name)>>, {Plain("begin")}) /\ ~Has(<<Plain(name)>>, {KeepOn(TRUE)})
    /\ LET asks == <<Plain("ask_full"), Plain("force")>>
       IN ~Has(asks, {Plain("begin")}) /\ ~Has(asks, {KeepOn(TRUE)})
<1>1. Plain("begin") # KeepOn(FALSE) /\ KeepOn(TRUE) # KeepOn(FALSE)
    BY DEF Plain, KeepOn
<1>2. \A name \in Names \ {"begin"} : Plain(name) # Plain("begin") /\ Plain(name) # KeepOn(TRUE)
    BY DEF Plain, KeepOn, Names
<1>3. LET asks == <<Plain("ask_full"), Plain("force")>>
      IN ~Has(asks, {Plain("begin")}) /\ ~Has(asks, {KeepOn(TRUE)})
    BY DEF Has, Plain, KeepOn
<1> QED BY <1>1, <1>2, <1>3, ShortHas

(* A call by any other name.                                               *)
LEMMA OtherCall ==
    ASSUME NEW t \in Caller, Arg(t).call \notin {"keep_on", "streaming", "stream"}
    PROVE  Arg(t) \notin Enders /\ Arg(t) # Plain("stream")
BY DEF Enders, Holders, KeepOn, Plain

LEMMA FlagsRails ==
    ASSUME IInv, RailsInv, NEW t \in Caller,
           \/ EnableScreensaver(t) \/ Paints(t) \/ Redraws(t) \/ Rotates(t) \/ RequestsFull(t)
           \/ AsksFull(t) \/ Forces(t) \/ RequestsFrame(t) \/ StreamStarts(t) \/ SetsWriteRed(t)
    PROVE  RailsInv'
<1> USE DEF flags, threads, saverThread
<1>0. /\ ThreadsOK /\ LockInv /\ d \in Driven /\ Calm(d) /\ saver \in BOOLEAN
    BY DEF IInv, ThreadsOK, Good, RailsInv
<1>1. /\ prog[t] # <<>> /\ strokes[t] = <<>>
      /\ UNCHANGED <<strokes, pc, batt, low_shown, keep_on, loose>>
    BY <1>0 DEF EnableScreensaver, Paints, Redraws, Rotates, RequestsFull, AsksFull, Forces, RequestsFrame,
                StreamStarts, SetsWriteRed, Calls, LockInv
<1>2. d'.hw = d.hw /\ d'.on = d.on
    BY <1>0 DEF EnableScreensaver, Paints, Redraws, Rotates, RequestsFull, AsksFull, Forces, RequestsFrame,
                StreamStarts, SetsWriteRed, Driven
<1>3. Calm(d')
    BY <1>0, <1>2 DEF Calm
<1>4. CASE EnableScreensaver(t)
    <2> DEFINE calls == IF ReleasesPanel(Arg(t).on) THEN <<KeepOn(FALSE)>> ELSE <<>>
    <2>1. Arg(t).call = "saver" /\ saver' = Arg(t).on /\ Then(t, calls) /\ UNCHANGED vstream
        BY <1>4 DEF EnableScreensaver, Calls, Arg
    <2>2. calls \in Seq(Call) /\ ~Has(calls, {Plain("begin")}) /\ ~Has(calls, {KeepOn(TRUE)})
        BY ShortCalls, ShortOwes
    <2>3. ASSUME ~saver', keep_on' PROVE Has(prog'[t], Enders)
        <3>1. calls = <<KeepOn(FALSE)>>
            BY <1>1, <2>1, <2>3 DEF ReleasesPanel
        <3>2. Has(calls, Enders)
            BY <3>1, ShortHas DEF Enders
        <3> HIDE DEF calls
        <3> QED BY <1>0, <1>1, <2>1, <2>2, <3>2, ThenLists DEF RailsInv
    <2>4. Arg(t) # Plain("stream")
        BY <2>1, OtherCall
    <2> HIDE DEF calls
    <2> QED BY <1>1, <1>2, <1>3, <2>1, <2>2, <2>3, <2>4, CallRails
<1>5. CASE \/ Paints(t) \/ Redraws(t) \/ Rotates(t) \/ RequestsFull(t) \/ AsksFull(t) \/ Forces(t)
           \/ RequestsFrame(t) \/ SetsWriteRed(t)
    <2>1. Arg(t).call \in {"draw", "redraw", "rotate", "request_full", "ask_full", "force",
                           "request_frame", "write_red"}
        BY <1>5 DEF Paints, Redraws, Rotates, RequestsFull, AsksFull, Forces, RequestsFrame, SetsWriteRed,
                    Calls, Arg
    <2>2. UNCHANGED <<saver, vstream>>
        BY <1>5 DEF Paints, Redraws, Rotates, RequestsFull, AsksFull, Forces, RequestsFrame, SetsWriteRed
    <2>3. \/ \E name \in {"force", "keep_red", "perform"} : Then(t, <<>>) \/ Then(t, <<Plain(name)>>)
          \/ Then(t, <<Plain("ask_full"), Plain("force")>>)
        BY <1>5 DEF Paints, Redraws, Rotates, RequestsFull, AsksFull, Forces, RequestsFrame, SetsWriteRed
    <2>4. PICK calls \in Seq(Call) : /\ ~Has(calls, {Plain("begin")}) /\ ~Has(calls, {KeepOn(TRUE)})
                                     /\ Then(t, calls)
        BY <2>3, ShortCalls, ShortOwes DEF Names
    <2>5. Arg(t) \notin Enders /\ Arg(t) # Plain("stream")
        BY <2>1, OtherCall
    <2> QED BY <1>1, <1>2, <1>3, <2>2, <2>4, <2>5, CallRails
<1>6. CASE StreamStarts(t)
    <2>1. Arg(t) = Plain("streaming") /\ Then(t, <<>>) /\ vstream' = TRUE /\ UNCHANGED saver
        <3>1. Arg(t) \in Call /\ Arg(t).call = "streaming"
            BY <1>0, <1>1, <1>6, ArgTyped DEF StreamStarts, Calls, Arg
        <3>2. Arg(t) = Plain("streaming")
            BY <3>1 DEF Call, Plain
        <3> QED BY <1>6, <3>2 DEF StreamStarts
    <2>2. Arg(t) # Plain("stream")
        BY <2>1 DEF Plain
    <2> QED BY <1>1, <1>2, <1>3, <2>1, <2>2, ShortCalls, ShortOwes, CallRails
<1> QED BY <1>4, <1>5, <1>6

LEMMA LockedRails ==
    ASSUME IInv, RailsInv, NEW t \in Caller,
           \/ SetsKeepOn(t) \/ SetsPartialMode(t) \/ Begins(t) \/ Stages(t) \/ Probes(t)
           \/ SetsSaverMode(t) \/ DrawsNowait(t)
    PROVE  RailsInv'
<1> USE DEF flags, threads, saverThread
<1>0. /\ ThreadsOK /\ LockInv /\ Good(d) /\ d \in Driven /\ Calm(d)
      /\ mode \in Modes /\ keep_on \in BOOLEAN /\ saver \in BOOLEAN
    BY DEF IInv, ThreadsOK, Good, RailsInv
<1>1. /\ prog[t] # <<>> /\ strokes[t] = <<>> /\ Arg(t) \in Call
      /\ UNCHANGED <<strokes, pc, batt, low_shown, saver, vstream>>
    <2>1. /\ prog[t] # <<>> /\ lock # t
          /\ UNCHANGED <<strokes, pc, batt, low_shown, saver, vstream>>
        BY DEF SetsKeepOn, SetsPartialMode, Begins, Stages, Probes, SetsSaverMode, DrawsNowait, Locked, Calls
    <2> QED BY <1>0, <2>1, ArgTyped DEF LockInv
<1> DEFINE s == StopStreaming(d)
<1>2. Good(s) /\ ~s.on /\ Calm(s) /\ s \in Driven
    BY <1>0, StopStreamingGood DEF Good
<1> HIDE DEF s
<1>3. CASE SetsKeepOn(t)
    <2>1. /\ Arg(t).call = "keep_on" /\ keep_on' = Arg(t).on /\ d' = KeptOn(d, Arg(t).on) /\ Then(t, <<>>)
          /\ loose' = (Arg(t).on /\ (loose \/ (t = "rx" /\ ~saver /\ ~vstream)))
        BY <1>3 DEF SetsKeepOn, Locked, Calls, Arg
    <2>2. Arg(t).on \in BOOLEAN
        BY <1>0, <1>1, <2>1, ArgTyped
    <2>3. Arg(t) = KeepOn(Arg(t).on) /\ Arg(t) # Plain("stream")
        BY <1>1, <2>1, <2>2 DEF Call, KeepOn, Plain, Names
    <2>4. Calm(d') /\ (d'.on => keep_on')
        BY <1>0, <2>1, <2>2, KeptOnGood
    <2>5. ASSUME ~saver', keep_on', ~vstream', ~loose' PROVE Has(prog'[t], Enders)
        <3>1. t # "rx" /\ Arg(t) = KeepOn(TRUE)
            BY <1>1, <2>1, <2>2, <2>3, <2>5
        <3>2. Has(prog'[t], Holders)
            BY <1>0, <1>1, <2>1, <3>1, ShortCalls, ShortOwes, ThenLists DEF RailsInv
        <3> QED BY <3>2 DEF Has, Enders
    <2> QED BY <1>1, <2>1, <2>4, <2>5, ShortCalls, ShortOwes, CallRails
<1>4. CASE Begins(t)
    <2>1. /\ Arg(t).call = "begin" /\ d' = BegunAsFound(d) /\ Then(t, <<>>)
          /\ UNCHANGED <<keep_on, loose>>
        BY <1>4 DEF Begins, Locked, Calls, Arg
    <2>2. Arg(t) = Plain("begin")
        BY <1>1, <2>1 DEF Call, Plain
    <2>3. Calm(d')
        BY <1>0, <2>1, BegunAsFoundGood DEF Calm
    <2>4. Has(prog'[t], {Plain("stream")})
        BY <1>0, <1>1, <2>1, <2>2, ShortCalls, ShortOwes, ThenLists DEF RailsInv
    <2>5. Arg(t) \notin Enders
        BY <2>1, OtherCall
    <2> QED BY <1>1, <2>1, <2>3, <2>4, <2>5, ShortCalls, ShortOwes, CallRails
<1>5. CASE SetsSaverMode(t)
    <2>1. /\ Arg(t).call = "saver_mode" /\ Then(t, <<>>)
          /\ \/ /\ keep_on' = FALSE
                /\ d' = [PowerDownIf(s, TRUE) EXCEPT !.partials = 0, !.baseline = FALSE]
             \/ keep_on' = TRUE /\ loose' = (loose \/ ~saver) /\ d' \in {s, d}
        BY <1>5 DEF SetsSaverMode, Locked, Calls, Arg, s
    <2>2. Arg(t) \notin Enders /\ Arg(t) # Plain("stream")
        BY <2>1, OtherCall
    <2>3. CASE keep_on' = FALSE /\ d' = [PowerDownIf(s, TRUE) EXCEPT !.partials = 0, !.baseline = FALSE]
        <3> DEFINE r == PowerDownIf(s, TRUE)
        <3>1. Good(r) /\ ~r.on /\ Calm(r)
            BY <1>2, PowerDownGood DEF Held
        <3> HIDE DEF r
        <3>2. Calm(d') /\ ~d'.on
            BY <2>3, <3>1 DEF Calm, r, Good, Driven
        <3> QED BY <1>1, <2>1, <2>3, <3>2, ShortCalls, ShortOwes, CallRails
    <2>4. CASE keep_on' = TRUE /\ loose' = (loose \/ ~saver) /\ d' \in {s, d}
        <3>1. Calm(d')
            BY <1>0, <1>2, <2>4
        <3> QED BY <1>1, <2>1, <2>4, <3>1, ShortCalls, ShortOwes, CallRails
    <2> QED BY <2>1, <2>3, <2>4
<1>6. CASE SetsPartialMode(t) \/ Stages(t) \/ Probes(t) \/ DrawsNowait(t)
    <2>1. /\ Arg(t).call \in {"set_mode", "stage", "probe", "nowait"}
          /\ UNCHANGED <<keep_on, loose>>
          /\ Then(t, <<>>) \/ Then(t, <<Plain("partial")>>)
        BY <1>6 DEF SetsPartialMode, Stages, Probes, DrawsNowait, Locked, Calls, Arg
    <2>2. Arg(t) \notin Enders /\ Arg(t) # Plain("stream")
        BY <2>1, OtherCall
    <2>3. Calm(d') /\ (d'.on => d.on \/ keep_on)
        <3> DEFINE w == Woken(s)
        <3>1. Good(w) /\ ~w.on /\ Calm(w) /\ w \in Driven
            BY <1>2, WokenGood DEF Good
        <3> HIDE DEF w
        <3>2. CASE SetsPartialMode(t)
            BY <1>2, <3>2 DEF SetsPartialMode, s
        <3>3. CASE Stages(t)
            <4>1. d' = d \/ d' = [w EXCEPT !.hw = WriteRed(@, w.fb.bw), !.staged = TRUE]
                BY <3>3 DEF Stages, w, s
            <4>2. ~WriteRed(w.hw, w.fb.bw).hv
                BY <3>1, PictureKnown, WriteRedReady DEF Good, Driven, Board, Buffers, Calm
            <4> QED BY <1>0, <3>1, <4>1, <4>2 DEF Calm, Driven
        <3>4. CASE Probes(t)
            <4> DEFINE q == ProbeRam(w.hw)
                       p == DisplayBuffer(q, w.fb.bw, RedBuffer(w))
                       r == [w EXCEPT !.hw = p]
            <4>1. d' = PowerDownIf(r, ShouldPowerDown)
                <5>1. [w EXCEPT !.hw = DisplayBuffer(ProbeRam(@), w.fb.bw, RedBuffer(w))] = r
                    BY <3>1 DEF Driven
                <5> QED BY <3>4, <5>1 DEF Probes, w, s
            <4>2. /\ w.hw \in Board /\ Ready(w.hw) /\ w.fb.bw \in Known /\ RedBuffer(w) \in Known
                  /\ ~w.hw.hv
                BY <3>1, PictureKnown DEF Good, Driven, Board, Buffers, RedBuffer, Calm
            <4>3. q \in Board /\ Ready(q) /\ ~q.hv
                BY <4>2, ProbeRamReady
            <4> HIDE DEF q
            <4>4. p \in Board /\ Ready(p) /\ ~p.hv
                BY <4>2, <4>3, DisplayBufferReady
            <4> HIDE DEF p
            <4>5. Good(r) /\ ~r.on /\ Calm(r)
                BY <3>1, <4>4, PanelSet DEF Good, Streaming, Calm
            <4>6. ShouldPowerDown \in BOOLEAN
                BY DEF ShouldPowerDown
            <4> HIDE DEF r
            <4> QED BY <4>1, <4>5, <4>6, PowerDownGood DEF Held
        <3>5. CASE DrawsNowait(t)
            BY <1>0, <3>5, PartialUpdateGood DEF DrawsNowait
        <3> QED BY <1>6, <3>2, <3>3, <3>4, <3>5
    <2>4. PICK calls \in Seq(Call) : /\ ~Has(calls, {Plain("begin")}) /\ ~Has(calls, {KeepOn(TRUE)})
                                     /\ Then(t, calls)
        BY <2>1, ShortCalls, ShortOwes DEF Names
    <2>5. d'.on /\ ~keep_on' => loose' \/ (d.on /\ ~keep_on /\ ~loose)
        BY <2>1, <2>3
    <2> QED BY <1>1, <2>1, <2>2, <2>3, <2>4, <2>5, CallRails
<1> QED BY <1>3, <1>4, <1>5, <1>6

(* Which frames of a call are a stream's, and what is held is released.    *)
LEMMA FramesOwe ==
    ASSUME NEW call \in Drawing
    PROVE  /\ Has(Frames(call), {"stream"}) => call = "stream"
           /\ Followed(Frames(call), {"hold"}, {"release"})
<1>1. CASE call = "tone_test"
    <2> DEFINE p == <<"clear", "hold", "partial", "partial", "release">>
    <2>1. Frames(call) = p
        BY <1>1 DEF Frames
    <2>2. /\ DOMAIN p = 1 .. 5 /\ p[1] = "clear" /\ p[2] = "hold" /\ p[3] = "partial"
          /\ p[4] = "partial" /\ p[5] = "release"
        OBVIOUS
    <2> HIDE DEF p
    <2>3. \A i \in DOMAIN p : p[i] # "stream" /\ (p[i] = "hold" => i = 2)
        <3>1. \A i \in DOMAIN p : i \in {1, 2, 3, 4, 5}
            BY <2>2
        <3> QED BY <2>2, <3>1
    <2>4. 5 \in DOMAIN p /\ p[5] \in {"release"} /\ 2 < 5
        BY <2>2
    <2>5. \A i \in DOMAIN p : p[i] \in {"hold"} => i < 5
        BY <2>3, <2>4, Zenon
    <2> QED BY <2>1, <2>3, <2>4, <2>5, OneFollows DEF Has
<1>2. CASE call # "tone_test"
    <2>1. \A i \in DOMAIN Frames(call) : /\ Frames(call)[i] # "hold"
                                         /\ Frames(call)[i] = "stream" => call = "stream"
        BY <1>2 DEF Frames, Drawing, Endless, Long
    <2>2. ~Has(Frames(call), {"hold"})
        BY <2>1 DEF Has
    <2> QED BY <2>1, <2>2, NoneFollowed DEF Has
<1> QED BY <1>1, <1>2

(* A frame done, and with the last of them the call.                       *)
LEMMA LeavesRails ==
    ASSUME IInv, RailsInv, NEW t \in Caller, strokes[t] # <<>>, Leaves(t),
           strokes' = [strokes EXCEPT ![t] = Tail(@)]
    PROVE  /\ ListsInv' /\ StrokesInv'
           /\ \A u \in Caller : /\ Has(prog[u], Enders) => Has(prog'[u], Enders)
                                /\ Has(prog[u], {Plain("stream")}) => Has(prog'[u], {Plain("stream")})
                                /\ Has(strokes[u], {"release"}) /\ ~(u = t /\ Head(strokes[t]) = "release")
                                   => Has(strokes'[u], {"release"})
           /\ Head(strokes[t]) = "hold" => Has(strokes'[t], {"release"})
<1>1. /\ ThreadsOK /\ prog[t] # <<>> /\ Arg(t) = Head(prog[t])
      /\ strokes \in [Caller -> Seq(Strokes)] /\ strokes[t] \in Seq(Strokes)
      /\ Arg(t) \in Call /\ Arg(t).call \in Drawing
      /\ prog \in [Caller -> Seq(Call)]
    BY ArgTyped DEF IInv, ThreadsOK, LockInv, RailsInv, StrokesInv, Arg
<1>2. strokes'[t] = Tail(strokes[t]) /\ \A u \in Caller : u # t => strokes'[u] = strokes[u]
    BY <1>1
<1>3. \A C : Has(strokes[t], C) <=> Head(strokes[t]) \in C \/ Has(Tail(strokes[t]), C)
    BY <1>1, TailHas
<1>4. /\ Followed(Tail(strokes[t]), {"hold"}, {"release"})
      /\ Head(strokes[t]) \in {"hold"} => Has(Tail(strokes[t]), {"release"})
    BY <1>1, TailFollowed DEF RailsInv, StrokesInv
<1>5. CASE Tail(strokes[t]) # <<>>
    <2>1. UNCHANGED prog
        BY <1>5 DEF Leaves
    <2>2. \A u \in Caller : Arg(u)' = Arg(u)
        BY <2>1 DEF Arg
    <2>3. ListsInv'
        BY <2>1 DEF RailsInv, ListsInv
    <2>4. StrokesInv'
        BY <1>1, <1>2, <1>3, <1>4, <2>2 DEF RailsInv, StrokesInv
    <2> QED BY <1>2, <1>3, <1>4, <2>1, <2>3, <2>4
<1>6. CASE Tail(strokes[t]) = <<>>
    <2>1. UNCHANGED prog \/ (Arg(t).call \notin Endless /\ Then(t, <<>>))
        BY <1>1, <1>6 DEF Leaves
    <2>2. /\ ListsInv'
          /\ \A u \in Caller : /\ Has(prog[u], Enders) => Has(prog'[u], Enders)
                               /\ Has(prog[u], {Plain("stream")}) => Has(prog'[u], {Plain("stream")})
                               /\ u # t => prog'[u] = prog[u]
        <3>1. CASE UNCHANGED prog
            BY <3>1 DEF RailsInv, ListsInv
        <3>2. CASE Arg(t).call \notin Endless /\ Then(t, <<>>)
            <4>1. Arg(t) \notin Enders /\ Arg(t) # Plain("stream")
                BY <1>1, <3>2, OtherCall DEF Drawing, Endless, Long
            <4>2. \A u \in Caller : u # t => prog'[u] = prog[u]
                BY <1>1, <3>2 DEF Then
            <4> QED BY <1>1, <3>2, <4>1, <4>2, ShortCalls, ShortOwes, ThenLists DEF RailsInv
        <3> QED BY <2>1, <3>1, <3>2
    <2>3. \A u \in Caller : u # t => Arg(u)' = Arg(u)
        BY <2>2 DEF Arg
    <2>4. StrokesInv'
        <3>1. ASSUME NEW u \in Caller, u # t
              PROVE  /\ strokes'[u] # <<>> => (Arg(u)').call \in Drawing
                     /\ Has(strokes'[u], {"stream"}) => Arg(u)' = Plain("stream")
                     /\ Followed(strokes'[u], {"hold"}, {"release"})
            BY <1>2, <2>3, <3>1 DEF RailsInv, StrokesInv
        <3>2. strokes'[t] = <<>> /\ ~Has(strokes'[t], {"stream"})
            BY <1>2, <1>6, ShortHas
        <3> QED BY <1>2, <1>4, <3>1, <3>2 DEF StrokesInv
    <2> QED BY <1>2, <1>3, <1>4, <2>2, <2>4
<1> QED BY <1>5, <1>6

LEMMA DrawsRails ==
    ASSUME IInv, RailsInv, NEW t \in Caller, Enters(t) \/ Draws(t) \/ Holds(t) \/ Releases(t) \/ Settles(t)
    PROVE  RailsInv'
<1> USE DEF flags, threads, saverThread
<1>0. /\ ThreadsOK /\ LockInv /\ Good(d) /\ d \in Driven /\ Calm(d) /\ keep_on \in BOOLEAN
      /\ strokes \in [Caller -> Seq(Strokes)]
    BY DEF IInv, ThreadsOK, Good, RailsInv
<1>1. LowInv' /\ UNCHANGED <<saver, vstream, low_shown>>
    <2>1. UNCHANGED <<pc, batt, saver, vstream, low_shown>>
        BY DEF Enters, Draws, Holds, Releases, Settles
    <2> QED BY <2>1 DEF RailsInv, LowInv
<1>2. CASE Enters(t)
    <2> DEFINE call == Arg(t).call
               stopped == IF call \in Long \/ (call = "show" /\ Arg(t).stops) THEN StopStreaming(d) ELSE d
    <2>1. /\ prog[t] # <<>> /\ call \in Drawing
          /\ strokes' = [strokes EXCEPT ![t] = Frames(call)]
          /\ d' \in {RenderScene(stopped, Arg(t).what), [stopped EXCEPT !.count = 0], stopped}
          /\ strokes[t] = <<>> /\ UNCHANGED <<prog, keep_on, loose>>
        BY <1>0, <1>2 DEF Enters, Locked, Calls, Arg, LockInv
    <2>2. Arg(t) \in Call /\ (call = "stream" => Arg(t) = Plain("stream"))
        BY <1>0, <2>1, ArgTyped DEF Call, Plain, Arg
    <2>3. Good(stopped) /\ Calm(stopped) /\ (stopped.on => d.on) /\ stopped \in Driven
        BY <1>0, StopStreamingGood DEF Good
    <2> HIDE DEF stopped
    <2>4. Calm(d') /\ (d'.on => d.on)
        BY <2>1, <2>3 DEF RenderScene, Driven, Calm
    <2>5. /\ \A u \in Caller : u # t => strokes'[u] = strokes[u]
          /\ strokes'[t] = Frames(call)
        BY <1>0, <2>1
    <2>6. \A u \in Caller : Arg(u)' = Arg(u)
        BY <2>1 DEF Arg
    <2>7. /\ Has(Frames(call), {"stream"}) => call = "stream"
          /\ Followed(Frames(call), {"hold"}, {"release"})
        BY <2>1, FramesOwe
    <2>8. StrokesInv'
        BY <2>1, <2>2, <2>5, <2>6, <2>7 DEF RailsInv, StrokesInv
    <2>9. \A u \in Caller : Has(strokes[u], {"release"}) => Has(strokes'[u], {"release"})
        BY <2>1, <2>5, ShortHas
    <2>10. HoldInv' /\ SessionInv' /\ ListsInv'
        BY <1>1, <2>1, <2>4, <2>9 DEF RailsInv, HoldInv, SessionInv, ListsInv
    <2> QED BY <1>1, <2>4, <2>8, <2>10 DEF RailsInv
<1>3. CASE Draws(t)
    <2> DEFINE kind == Head(strokes[t])
    <2>1. /\ strokes[t] # <<>> /\ kind \notin {"hold", "release"} /\ d' = Stroke(d, kind)
          /\ UNCHANGED <<prog, strokes, keep_on, loose>>
        BY <1>3 DEF Draws
    <2>2. kind \in Strokes /\ strokes[t] \in Seq(Strokes)
        BY <1>0, <2>1, HeadTailProperties
    <2>3. Calm(d') /\ (kind # "stream" => (d'.on => d.on \/ keep_on))
        BY <1>0, <2>1, <2>2, StrokeGood
    <2>4. kind = "stream" => Has(prog[t], {Plain("stream")})
        <3>1. ASSUME kind = "stream" PROVE Arg(t) = Plain("stream")
            <4>1. Has(strokes[t], {"stream"})
                BY <2>1, <2>2, <3>1, TailHas
            <4> QED BY <4>1 DEF RailsInv, StrokesInv
        <3>2. prog[t] \in Seq(Call) /\ prog[t] # <<>>
            BY <1>0, <2>1 DEF ThreadsOK, LockInv
        <3> QED BY <3>1, <3>2, TailHas DEF Arg
    <2>5. SessionInv'
        BY <2>1, <2>3, <2>4 DEF RailsInv, SessionInv
    <2>6. HoldInv' /\ ListsInv' /\ StrokesInv'
        BY <1>1, <2>1 DEF RailsInv, HoldInv, ListsInv, StrokesInv, Arg
    <2> QED BY <1>1, <2>3, <2>5, <2>6 DEF RailsInv
<1>4. CASE Holds(t) \/ Releases(t) \/ Settles(t)
    <2>1. /\ strokes[t] # <<>> /\ Leaves(t) /\ strokes' = [strokes EXCEPT ![t] = Tail(@)]
        BY <1>0, <1>4 DEF Holds, Releases, Settles, LockInv
    <2>2. /\ ListsInv' /\ StrokesInv'
          /\ \A u \in Caller : /\ Has(prog[u], Enders) => Has(prog'[u], Enders)
                               /\ Has(prog[u], {Plain("stream")}) => Has(prog'[u], {Plain("stream")})
                               /\ Has(strokes[u], {"release"}) /\ ~(u = t /\ Head(strokes[t]) = "release")
                                  => Has(strokes'[u], {"release"})
          /\ Head(strokes[t]) = "hold" => Has(strokes'[t], {"release"})
        BY <2>1, LeavesRails
    <2>3. CASE Holds(t)
        <3>1. Head(strokes[t]) = "hold" /\ keep_on' = TRUE /\ UNCHANGED d
            BY <2>3 DEF Holds
        <3>2. HoldInv' /\ SessionInv'
            BY <2>2, <3>1 DEF HoldInv, SessionInv
        <3> QED BY <1>0, <1>1, <2>2, <3>1, <3>2 DEF RailsInv
    <2>4. CASE Releases(t)
        <3> DEFINE k == KeptOn(d, FALSE)
        <3>1. keep_on' = FALSE /\ d' = [k EXCEPT !.count = 0]
            BY <2>4 DEF Releases
        <3>2. Good(k) /\ Calm(k) /\ ~k.on
            BY <1>0, KeptOnGood
        <3> HIDE DEF k
        <3>3. Calm(d') /\ ~d'.on
            BY <3>1, <3>2 DEF Calm, Good, Driven
        <3>4. HoldInv' /\ SessionInv'
            BY <3>1, <3>3 DEF HoldInv, SessionInv
        <3> QED BY <1>1, <2>2, <3>3, <3>4 DEF RailsInv
    <2>5. CASE Settles(t)
        <3> DEFINE may == ShouldPowerDown /\ Head(strokes[t]) # "stream"
        <3>1. /\ wet[t] /\ d' = PowerDownIf(d, may) /\ UNCHANGED <<keep_on, loose>>
            BY <2>5 DEF Settles
        <3>2. may \in BOOLEAN /\ (may => Held(d, FALSE))
            BY <3>1 DEF IInv, HeldInv, ShouldPowerDown, Held
        <3> HIDE DEF may
        <3>3. Calm(d') /\ d'.on = d.on
            BY <1>0, <3>1, <3>2, PowerDownGood
        <3>4. Head(strokes[t]) # "release"
            BY <1>0, <3>1 DEF LockInv
        <3>5. HoldInv' /\ SessionInv'
            BY <1>1, <2>2, <3>1, <3>3, <3>4 DEF RailsInv, HoldInv, SessionInv
        <3> QED BY <1>1, <2>2, <3>3, <3>5 DEF RailsInv
    <2> QED BY <1>4, <2>3, <2>4, <2>5
<1> QED BY <1>2, <1>3, <1>4

LEMMA SendsRails ==
    ASSUME IInv, RailsInv,
           \/ \E c \in Commands : Host(c) \/ Flood(c)
           \/ (\E dual \in BOOLEAN : Frame(dual)) \/ WatchdogFires
    PROVE  RailsInv'
<1> USE DEF flags, threads, saverThread
<1>0. ThreadsOK /\ LockInv /\ prog \in [Caller -> Seq(Call)]
    BY DEF IInv, ThreadsOK
<1> DEFINE Sent(t, calls) ==
          /\ prog[t] = <<>> /\ prog' = [prog EXCEPT ![t] = calls]
          /\ Followed(calls, {Plain("begin")}, {Plain("stream")})
          /\ t # "rx" => Followed(calls, {KeepOn(TRUE)}, Holders)
          /\ vstream' = vstream \/ Has(calls, Enders)
<1>11. PICK t \in Caller : \E calls : Sent(t, calls)
    <2>1. ASSUME NEW c \in Commands, Host(c) \/ Flood(c)
          PROVE  \E t \in {"cmd", "mesh"} : /\ prog[t] = <<>> /\ prog' = [prog EXCEPT ![t] = Handler[c]]
                                            /\ vstream' = vstream
        BY <2>1 DEF Host, Flood, Sends
    <2>2. ASSUME NEW dual \in BOOLEAN, Frame(dual)
          PROVE  /\ prog["rx"] = <<>> /\ vstream' = vstream
                 /\ prog' = [prog EXCEPT !["rx"] = <<KeepOn(TRUE), WriteRedPlane(dual), Plain("nowait")>>]
                 /\ Followed(<<KeepOn(TRUE), WriteRedPlane(dual), Plain("nowait")>>,
                             {Plain("begin")}, {Plain("stream")})
        <3>1. ~Has(<<KeepOn(TRUE), WriteRedPlane(dual), Plain("nowait")>>, {Plain("begin")})
            BY DEF Has, KeepOn, WriteRedPlane, Plain
        <3> QED BY <2>2, <3>1, NoneFollowed DEF Frame, Sends
    <2>3. ASSUME WatchdogFires
          PROVE  LET calls == <<WriteRedPlane(FALSE), KeepOn(FALSE), Saver(TRUE)>>
                 IN  /\ prog["wq"] = <<>> /\ prog' = [prog EXCEPT !["wq"] = calls]
                     /\ Followed(calls, {Plain("begin")}, {Plain("stream")})
                     /\ Followed(calls, {KeepOn(TRUE)}, Holders)
                     /\ Has(calls, Enders)
        <3> DEFINE calls == <<WriteRedPlane(FALSE), KeepOn(FALSE), Saver(TRUE)>>
        <3>1. ~Has(calls, {Plain("begin")}) /\ ~Has(calls, {KeepOn(TRUE)})
            BY DEF Has, KeepOn, WriteRedPlane, Plain, Saver
        <3>2. 2 \in DOMAIN calls /\ calls[2] \in Enders
            BY DEF Enders
        <3>3. Has(calls, Enders)
            BY <3>2 DEF Has
        <3>4. prog["wq"] = <<>> /\ prog' = [prog EXCEPT !["wq"] = calls]
            BY <2>3 DEF WatchdogFires
        <3> HIDE DEF calls
        <3>5. Followed(calls, {Plain("begin")}, {Plain("stream")}) /\ Followed(calls, {KeepOn(TRUE)}, Holders)
            BY <3>1, NoneFollowed
        <3> QED BY <3>3, <3>4, <3>5 DEF calls
    <2>4. \A c \in Commands : /\ Followed(Handler[c], {Plain("begin")}, {Plain("stream")})
                              /\ Followed(Handler[c], {KeepOn(TRUE)}, Holders)
        BY HandlersFollow DEF Settling
    <2>5. {"cmd", "mesh"} \subseteq Caller /\ "rx" \in Caller /\ "wq" \in Caller
        BY DEF Caller
    <2>6. CASE \E c \in Commands : Host(c) \/ Flood(c)
        <3>1. PICK c \in Commands : Host(c) \/ Flood(c)
            BY <2>6
        <3>2. PICK t \in {"cmd", "mesh"} : /\ prog[t] = <<>> /\ prog' = [prog EXCEPT ![t] = Handler[c]]
                                           /\ vstream' = vstream
            BY <2>1, <3>1
        <3> QED BY <2>4, <2>5, <3>2
    <2>7. CASE \E dual \in BOOLEAN : Frame(dual)
        BY <2>2, <2>5, <2>7
    <2>8. CASE WatchdogFires
        BY <2>3, <2>5, <2>8
    <2> QED BY <2>6, <2>7, <2>8
<1>1. PICK calls : Sent(t, calls)
    BY <1>11
<1>2. UNCHANGED <<d, strokes, pc, batt, low_shown, saver, keep_on, loose>>
    BY DEF Host, Flood, Frame, Sends, WatchdogFires
<1>3. strokes[t] = <<>>
    BY <1>0, <1>1 DEF LockInv
<1>4. prog'[t] = calls /\ \A u \in Caller : u # t => prog'[u] = prog[u] /\ Arg(u)' = Arg(u)
    BY <1>0, <1>1 DEF Arg
<1>5. \A C : \A u \in Caller : Has(prog[u], C) => Has(prog'[u], C)
    <2>1. \A C : ~Has(prog[t], C)
        BY <1>1, ShortHas
    <2> QED BY <1>4, <2>1
<1>6. Calm(d)' /\ LowInv'
    BY <1>2 DEF RailsInv, Calm, LowInv
<1>7. ListsInv'
    BY <1>1, <1>4 DEF RailsInv, ListsInv
<1>8. StrokesInv'
    <2>1. ~Has(strokes[t], {"stream"})
        BY <1>3, ShortHas
    <2> QED BY <1>2, <1>3, <1>4, <2>1 DEF RailsInv, StrokesInv
<1>9. HoldInv'
    <2> SUFFICES ASSUME ~saver /\ keep_on /\ ~vstream' /\ ~loose /\ ~low_shown
                 PROVE  \E u \in Caller : Has(prog'[u], Enders) \/ Has(strokes'[u], {"release"})
        BY <1>2 DEF HoldInv
    <2>1. CASE Has(calls, Enders)
        BY <1>4, <2>1
    <2>2. CASE ~vstream
        <3>1. PICK u \in Caller : Has(prog[u], Enders) \/ Has(strokes[u], {"release"})
            BY <2>2 DEF RailsInv, HoldInv
        <3> QED BY <1>2, <1>5, <3>1
    <2> QED BY <1>1, <2>1, <2>2
<1>10. SessionInv'
    <2> SUFFICES ASSUME d.on /\ ~keep_on /\ ~loose
                 PROVE  \E u \in Caller : Has(prog'[u], {Plain("stream")})
        BY <1>2 DEF SessionInv
    <2>1. PICK u \in Caller : Has(prog[u], {Plain("stream")})
        BY DEF RailsInv, SessionInv
    <2> QED BY <1>5, <2>1
<1> QED BY <1>6, <1>7, <1>8, <1>9, <1>10 DEF RailsInv

(* The screensaver thread begins a session only where the panel is held,   *)
(* or where nobody is to end it.                                           *)
LEMMA ThreadRails ==
    ASSUME IInv, RailsInv, SaverThread
    PROVE  RailsInv'
<1> USE DEF saverRest, flags, threads
<1>0. Good(d) /\ Calm(d) /\ keep_on \in BOOLEAN /\ mode \in Modes
    BY DEF IInv, ThreadsOK, RailsInv
<1>1. UNCHANGED <<prog, strokes, keep_on, vstream>> /\ (UNCHANGED loose \/ TestDraws)
    BY DEF SaverThread, Maintains, FinalDraws, FinalEnds, Naps, Picks, Skips, TestDraws, DynamicDraws,
           StaticLooks, StaticDraws, DrawEnds, TakesRequest, FrameDraws, FrameEnds, Waits
<1>2. ListsInv' /\ StrokesInv'
    BY <1>1 DEF RailsInv, ListsInv, StrokesInv, Arg
<1>3. LowInv' /\ (~saver' /\ ~low_shown' => ~saver /\ ~low_shown)
    <2>1. CASE Maintains
        <3>1. PICK b \in Readings(batt) :
                 LET last == b \in Dying \/ (b = "LOW" /\ ~low_shown)
                 IN  /\ batt' = b
                     /\ pc' = IF last THEN "final" ELSE IF b = "LOW" THEN "nap" ELSE "pick"
                     /\ IF low_shown /\ b = "OK" THEN low_shown' = FALSE /\ saver' = TRUE
                        ELSE UNCHANGED <<low_shown, saver>>
            BY <2>1 DEF Maintains
        <3>2. b \in {"OK", "LOW", "CRITICAL", "SHUTDOWN"}
            BY DEF RailsInv, LowInv, Readings
        <3> QED BY <3>1, <3>2 DEF LowInv, Dying
    <2>2. CASE FinalDraws \/ FinalEnds \/ Naps
        <3>1. /\ UNCHANGED batt /\ pc' \in {"farewell", "off", "nap", "top"}
              /\ UNCHANGED <<saver, low_shown>> \/ low_shown'
            BY <2>2 DEF FinalDraws, FinalEnds, Naps
        <3> QED BY <3>1 DEF RailsInv, LowInv
    <2>3. CASE \/ Picks \/ Skips \/ TestDraws \/ DynamicDraws \/ StaticLooks \/ StaticDraws \/ DrawEnds
               \/ TakesRequest \/ FrameDraws \/ FrameEnds \/ \E due \in BOOLEAN : Waits(due)
        <3>1. UNCHANGED <<batt, low_shown, saver>> /\ pc \notin {"nap", "top", "final", "farewell", "off"}
            BY <2>3 DEF Picks, Skips, TestDraws, DynamicDraws, StaticLooks, StaticDraws, DrawEnds,
                        TakesRequest, FrameDraws, FrameEnds, Waits
        <3> QED BY <3>1 DEF RailsInv, LowInv
    <2> QED BY <2>1, <2>2, <2>3 DEF SaverThread
<1>4. loose => loose'
    BY <1>1 DEF TestDraws
<1>5. HoldInv'
    BY <1>1, <1>3, <1>4 DEF RailsInv, HoldInv
<1>6. Calm(d') /\ (d'.on /\ ~keep_on => d.on \/ loose')
    <2>1. CASE \/ Maintains \/ Naps \/ Picks \/ Skips \/ StaticLooks \/ TakesRequest
               \/ \E due \in BOOLEAN : Waits(due)
        <3>1. d' \in {d, RenderScene(d, "final"), RenderScene(d, "saver"), [d EXCEPT !.scene = None]}
            BY <2>1 DEF Maintains, Naps, Picks, Skips, StaticLooks, TakesRequest, Waits
        <3> QED BY <1>0, <3>1 DEF RenderScene, Good, Driven, Calm
    <2>2. CASE FinalDraws
        <3> DEFINE s == StopStreaming(d)
        <3>1. Good(s) /\ ~s.on
            BY <1>0, StopStreamingGood
        <3>2. d' = FullUpdate(s, FullRefresh)
            BY <2>2 DEF FinalDraws
        <3> HIDE DEF s
        <3> QED BY <3>1, <3>2, PlainUpdateGood
    <2>3. CASE FinalEnds
        <3> DEFINE s == Cut(d)
        <3>1. d' = PowerDownIf(s, TRUE)
            BY <2>3 DEF FinalEnds
        <3>2. Good(s) /\ Calm(s) /\ s.on = d.on /\ Held(s, FALSE)
            BY <1>0 DEF Cut, Good, Driven, Streaming, Held, Calm
        <3> HIDE DEF s
        <3> QED BY <3>1, <3>2, PowerDownGood
    <2>4. CASE TestDraws
        BY <1>0, <2>4, LutTestUpdateGood DEF TestDraws, Calm
    <2>5. CASE DynamicDraws
        <3> DEFINE s == [d EXCEPT !.fb = Rendered("saver")]
        <3>1. Good(s)
            BY <1>0, PaintedGood DEF Pictures
        <3>2. d' = PartialUpdate(s)
            BY <2>5 DEF DynamicDraws
        <3> HIDE DEF s
        <3> QED BY <1>0, <3>1, <3>2, PartialUpdateGood
    <2>6. CASE StaticDraws
        <3> DEFINE s == StopStreaming(d)
                   full == pc = "full"
        <3>1. d' = StaticUpdate(s, full)
            BY <2>6 DEF StaticDraws
        <3>2. Good(s) /\ ~s.on
            BY <1>0, StopStreamingGood
        <3>3. full \in BOOLEAN
            OBVIOUS
        <3> HIDE DEF s, full
        <3> QED BY <1>0, <3>1, <3>2, <3>3, StaticUpdateGood
    <2>7. CASE DrawEnds
        <3> DEFINE may == pc = "drawn" /\ ShouldPowerDown
                   s == PowerDownIf(d, may)
                   r == IF mode = "DYNAMIC" THEN s ELSE StopStreaming(s)
        <3>1. d' = IF pc = "tested" THEN s ELSE [r EXCEPT !.scene = None]
            BY <2>7 DEF DrawEnds
        <3>2. may \in BOOLEAN /\ (may => Held(d, FALSE))
            BY DEF IInv, HeldInv, ShouldPowerDown, Held
        <3> HIDE DEF may
        <3>3. Good(s) /\ Calm(s) /\ s.on = d.on
            BY <1>0, <3>2, PowerDownGood
        <3> HIDE DEF s
        <3>4. Good(r) /\ Calm(r) /\ (r.on => d.on)
            BY <3>3, StopStreamingGood
        <3> HIDE DEF r
        <3> QED BY <3>1, <3>3, <3>4 DEF Good, Driven, Calm
    <2>8. CASE FrameDraws
        BY <1>0, <2>8, PlainUpdateGood DEF FrameDraws
    <2>9. CASE FrameEnds
        <3>1. pc = "framed" /\ d' = PowerDownIf(d, ShouldPowerDown)
            BY <2>9 DEF FrameEnds
        <3>2. ShouldPowerDown \in BOOLEAN /\ Held(d, FALSE)
            BY <3>1 DEF IInv, HeldInv, ShouldPowerDown
        <3> QED BY <1>0, <3>1, <3>2, PowerDownGood
    <2> QED BY <2>1, <2>2, <2>3, <2>4, <2>5, <2>6, <2>7, <2>8, <2>9 DEF SaverThread
<1>7. SessionInv'
    BY <1>1, <1>4, <1>6 DEF RailsInv, SessionInv
<1> QED BY <1>2, <1>3, <1>5, <1>6, <1>7 DEF RailsInv

LEMMA RailsInductive == Spec => []RailsInv
<1>1. Init => RailsInv
    <2> SUFFICES ASSUME Init PROVE RailsInv
        OBVIOUS
    <2>1. ~d.hw.hv /\ ~d.on
        BY PoweredOffReady DEF Init, DetectPanel
    <2>2. ListsInv /\ StrokesInv
        <3>1. \A t \in Caller : prog[t] = <<>> /\ strokes[t] = <<>>
            BY DEF Init
        <3>2. \A A, C : Followed(<<>>, A, C)
            BY ShortHas, NoneFollowed
        <3>3. ~Has(<<>>, {"stream"})
            BY ShortHas
        <3> QED BY <3>1, <3>2, <3>3 DEF ListsInv, StrokesInv
    <2> QED BY <2>1, <2>2 DEF Init, RailsInv, Calm, LowInv, HoldInv, SessionInv
<1>2. IInv /\ RailsInv /\ [Next]_vars => RailsInv'
    <2> SUFFICES ASSUME IInv, RailsInv, [Next]_vars PROVE RailsInv'
        OBVIOUS
    <2>1. CASE \E t \in Caller : CallOf(t)
        BY <2>1, FlagsRails, LockedRails, DrawsRails DEF CallOf
    <2>2. CASE \/ \E c \in Commands : Host(c)
               \/ \E c \in Flooded : Flood(c)
               \/ (\E dual \in BOOLEAN : Frame(dual)) \/ WatchdogFires
        BY <2>2, SendsRails, DisplayAssumption
    <2>3. CASE SaverThread
        BY <2>3, ThreadRails
    <2>4. CASE UNCHANGED vars
        BY <2>4 DEF vars, flags, threads, saverThread, RailsInv, Calm, LowInv, ListsInv, StrokesInv,
           HoldInv, SessionInv, Arg
    <2> QED BY <2>1, <2>2, <2>3, <2>4 DEF Next
<1> QED BY Invariance, <1>1, <1>2, PTL DEF Spec

(* In picture mode the rails come down once everybody has done with the    *)
(* panel, unless it was held or lit by what is never released:             *)
(* display_manager_enable_screensaver, display_manager_set_keep_on.        *)
THEOREM RailsComeDown == Spec => []RailsDown
<1>1. IInv /\ RailsInv => RailsDown
    <2> SUFFICES ASSUME IInv, RailsInv, AtRest, ~saver, ~vstream, ~loose, d.hw.hv PROVE FALSE
        BY DEF RailsDown
    <2>1. \A t \in Caller : prog[t] = <<>> /\ strokes[t] = <<>>
        BY DEF IInv, LockInv, AtRest
    <2>2. \A C : \A t \in Caller : ~Has(prog[t], C) /\ ~Has(strokes[t], C)
        BY <2>1, ShortHas
    <2>3. ~low_shown
        BY DEF RailsInv, LowInv, AtRest
    <2>4. ~keep_on
        BY <2>2, <2>3 DEF RailsInv, HoldInv
    <2>5. ~d.on
        BY <2>2, <2>4 DEF RailsInv, SessionInv
    <2> QED BY <2>5 DEF RailsInv, Calm
<1> QED BY Invariance, RailsInductive, <1>1, PTL
=============================================================================
