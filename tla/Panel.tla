-------------------------------- MODULE Panel --------------------------------
(***************************************************************************)
(* The panel driver (lib/eink/ssd1675a.c) and what it knows of the         *)
(* controller behind it: whether it is powered and awake, which registers  *)
(* and waveform it was given, whether its HV rails are charged, and what   *)
(* its two RAM planes hold.  Every driver call is a function on the panel. *)
(*                                                                         *)
(* A plane holds the name of what was written to it.                       *)
(***************************************************************************)
EXTENDS Naturals

(* What the planes may hold: nothing known, the pattern of a probe, zeros, *)
(* and the pictures.                                                       *)
Unknown == "unknown"
Pattern == "pattern"
Zero == "zero"

Waveform == {"reset", "table", "factory", "partial", "flush_red"}

(* `sleeping' and `undefined' are what the driver believes.                *)
Panels(Content) ==
    [power : BOOLEAN, awake : BOOLEAN, hv : BOOLEAN, regs : BOOLEAN, lut : Waveform,
     bw : Content, red : Content, sleeping : BOOLEAN, undefined : BOOLEAN]

Off == [power |-> FALSE, awake |-> FALSE, hv |-> FALSE, regs |-> FALSE, lut |-> "reset",
        bw |-> Unknown, red |-> Unknown, sleeping |-> TRUE, undefined |-> TRUE]

(* ssd1675a_power_on: the rail alone does not wake the controller.         *)
PowerOn(p) == [p EXCEPT !.power = TRUE]

(* ssd1675a_power_off.                                                     *)
PowerOff(p) == Off

(* reset_controller.  It ends an operation the controller was stuck in.    *)
ResetController(p) ==
    [p EXCEPT !.awake = p.power, !.hv = FALSE, !.regs = FALSE, !.lut = "reset",
              !.bw = Unknown, !.red = Unknown, !.sleeping = FALSE, !.undefined = TRUE]

(* configure_registers: the addressing window, the voltages, the table.    *)
Configure(p) == IF p.awake THEN [p EXCEPT !.regs = TRUE, !.lut = "table"] ELSE p

UploadLut(p, lut) == IF p.awake THEN [p EXCEPT !.lut = lut] ELSE p

(* write_plane, through which ssd1675a_display_buffer, _fast, buffers_fast,*)
(* load_plane and clear_red_ram all go.                                    *)
WriteBw(p, content) == IF p.awake THEN [p EXCEPT !.bw = content] ELSE p

WriteRed(p, content) ==
    [(IF p.awake THEN [p EXCEPT !.red = content] ELSE p) EXCEPT !.undefined = FALSE]

ClearRedRam(p) == WriteRed(p, Zero)

DisplayBuffer(p, bw, red) == WriteRed(WriteBw(p, bw), red)

(* ssd1675a_init.                                                          *)
InitPanel(p) == Configure(ResetController(PowerOn(p)))

(* Slip: the red plane stays as the wake-up left it.                       *)
InitPartialBare(p) ==
    LET on == PowerOn(p)
        up == Configure(IF on.sleeping THEN ResetController(on) ELSE on)
    IN [up EXCEPT !.sleeping = FALSE]

(* ssd1675a_init_partial of a panel that is not busy.                      *)
InitPartial(p) ==
    LET on == PowerOn(p)
        up == Configure(IF on.sleeping THEN ResetController(on) ELSE on)
        clean == IF up.undefined THEN ClearRedRam(up) ELSE up
    IN [clean EXCEPT !.sleeping = FALSE]

(* ssd1675a_sleep.                                                         *)
Sleep(p) == [p EXCEPT !.awake = FALSE, !.hv = FALSE, !.sleeping = TRUE]

(* begin_streaming and end_streaming: the HV rails.                        *)
BeginStreaming(p) == [UploadLut(p, "partial") EXCEPT !.hv = p.awake]

EndStreaming(p) == [p EXCEPT !.hv = FALSE]

(* ssd1675a_probe_ram scribbles over the plane and configures again.       *)
ProbeRam(p) == Configure(WriteBw(p, Pattern))

(***************************************************************************)
(* The refreshes, each with the waveform it uploads first.                 *)
(* 0xC7 charges the rails, drives a frame and discharges them; 0x04 of a   *)
(* stream only drives one.                                                 *)
(***************************************************************************)
Refresh == {"full", "factory", "flush_red", "partial", "stream"}

Uploaded(p, kind) ==
    CASE kind = "full" -> UploadLut(p, "table")
      [] kind = "factory" -> UploadLut(p, "factory")
      [] kind = "flush_red" -> UploadLut(p, "flush_red")
      [] kind = "partial" -> UploadLut(p, "partial")
      [] kind = "stream" -> p

(* Does the refresh find what it needs?                                    *)
Sound(p, kind) ==
    /\ p.power /\ p.awake /\ p.regs /\ p.bw # Unknown /\ p.red # Unknown
    /\ kind = "stream" => p.hv /\ p.lut = "partial"

(* update_display_flush_red puts the working table back.                   *)
Refreshed(p, kind) ==
    CASE kind = "stream" -> p
      [] kind = "flush_red" -> [UploadLut(p, "table") EXCEPT !.hv = FALSE]
      [] OTHER -> [p EXCEPT !.hv = FALSE]
=============================================================================
