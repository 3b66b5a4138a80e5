---------------------------- MODULE CommandQueue ----------------------------
(***************************************************************************)
(* The command path of src/app/commands.c.  The BLE receive thread builds  *)
(* text lines and opcode frames straight into slots taken from cmd_free    *)
(* and passes them on through cmd_ready; the command thread runs them and  *)
(* puts the slots back.  Meanwhile the link comes and goes, a firmware     *)
(* transfer opens and closes its window, and a video stream takes over the *)
(* receive path.                                                           *)
(*                                                                         *)
(* Bytes are abstracted to the first and the last of a line or a frame.    *)
(* The receive thread's callbacks do not overlap; the command thread runs  *)
(* between any two of its own steps named here.                            *)
(***************************************************************************)
EXTENDS Sequences, Functions

CONSTANTS
    Slot,      \* cmd_slots
    None,      \* no slot, no command
    Commands,  \* the commands hosts send
    MaxLinks   \* bound: connections made

(* What a slot is filled with (struct cmd_slot).                           *)
Content == [cmd : Commands, text : BOOLEAN, link : 0 .. MaxLinks]

ASSUME CommandQueueAssumption ==
    /\ Slot # {} /\ None \notin Slot \cup Commands \cup Content
    /\ Commands \subseteq {"REBOOT", "DFU:START", "DFU:DONE", "VSTREAM:start", "VSTREAM:stop",
                           "UPDATE"}
    /\ MaxLinks \in Nat

VARIABLES
    free,        \* cmd_free
    ready,       \* cmd_ready
    holds,       \* what a waiting or running slot was filled with: the command,
                 \* as text or as a frame, and the connection it came over
    rx_slot, rx_line, rx_discard,   \* the text line being received
    opc_slot, opc_busy,             \* the opcode frame being received, and
                                    \* opc_state # OPC_NONE
    running,     \* the slot the command thread executes
    stage,       \* how far it is: "idle", "gate", "run", "timer", "end"
    dfu_busy, dfu_timer,            \* the window, and dfu_busy_timeout pending
    vstream_active, vs_watchdog,    \* the stream, and its watchdog pending
    link,        \* the number of the connection
    state        \* "up", "closing" inside commands_on_disconnect, or "down"

slotVars == <<free, ready, holds>>
rxVars == <<rx_slot, rx_line, rx_discard, opc_slot, opc_busy>>
runVars == <<running, stage>>
dfuVars == <<dfu_busy, dfu_timer>>
streamVars == <<vstream_active, vs_watchdog>>
linkVars == <<link, state>>
vars == <<slotVars, rxVars, runVars, dfuVars, streamVars, linkVars>>

(* inline_on_rx_thread, allowed_while_dfu (SYSINFO goes with REBOOT, HOST: *)
(* with DFU:).                                                             *)
Inline == {"REBOOT"}

AllowedWhileDfu == {"REBOOT", "DFU:START", "DFU:DONE"}

Init ==
    /\ free = Slot /\ ready = <<>> /\ holds = [s \in Slot |-> None]
    /\ rx_slot = None /\ rx_line = None /\ rx_discard = FALSE
    /\ opc_slot = None /\ opc_busy = FALSE
    /\ running = None /\ stage = "idle"
    /\ dfu_busy = FALSE /\ dfu_timer = FALSE
    /\ vstream_active = FALSE /\ vs_watchdog = FALSE
    /\ link = 0 /\ state = "down"

(* cmd_reboot: everything is in RAM.                                       *)
Restart ==
    /\ free' = Slot /\ ready' = <<>> /\ holds' = [s \in Slot |-> None]
    /\ rx_slot' = None /\ rx_line' = None /\ rx_discard' = FALSE
    /\ opc_slot' = None /\ opc_busy' = FALSE
    /\ running' = None /\ stage' = "idle"
    /\ dfu_busy' = FALSE /\ dfu_timer' = FALSE
    /\ vstream_active' = FALSE /\ vs_watchdog' = FALSE
    /\ state' = "down" /\ UNCHANGED link

(***************************************************************************)
(* commands_process, on the receive thread.                                *)
(***************************************************************************)
Receiving == state = "up" /\ ~vstream_active

(* The first byte of a line takes a slot; without one the line is refused  *)
(* with BUSY:cmd and eaten to its end.                                     *)
LineStarts(c) ==
    /\ Receiving /\ ~opc_busy /\ rx_line = None
    /\ rx_line' = c
    /\ \/ /\ free = {} /\ rx_discard' = TRUE
          /\ UNCHANGED <<free, rx_slot>>
       \/ \E s \in free : /\ rx_slot' = s /\ free' = free \ {s}
                          /\ UNCHANGED rx_discard
    /\ UNCHANGED <<ready, holds, opc_slot, opc_busy, runVars, dfuVars, streamVars, linkVars>>

LineEnded == Receiving /\ ~opc_busy /\ rx_line # None

LineEaten ==
    /\ LineEnded /\ rx_discard
    /\ rx_discard' = FALSE /\ rx_line' = None
    /\ UNCHANGED <<slotVars, rx_slot, opc_slot, opc_busy, runVars, dfuVars, streamVars, linkVars>>

(* enqueue_line.                                                           *)
LineQueued ==
    /\ LineEnded /\ ~rx_discard /\ rx_line \notin Inline
    /\ ready' = Append(ready, rx_slot)
    /\ holds' = [holds EXCEPT ![rx_slot] = [cmd |-> rx_line, text |-> TRUE, link |-> link]]
    /\ rx_slot' = None /\ rx_line' = None
    /\ UNCHANGED <<free, rx_discard, opc_slot, opc_busy, runVars, dfuVars, streamVars, linkVars>>

(* A REBOOT line is executed by the receive thread itself, unless the      *)
(* access gate refuses it.                                                 *)
LineRunsInline ==
    /\ LineEnded /\ ~rx_discard /\ rx_line \in Inline
    /\ \/ Restart
       \/ /\ free' = free \cup {rx_slot} /\ rx_slot' = None /\ rx_line' = None
          /\ UNCHANGED <<ready, holds, rx_discard, opc_slot, opc_busy, runVars, dfuVars,
                         streamVars, linkVars>>

(* The sentinel and the opcode: a frame takes a slot of its own, or is     *)
(* counted out without one.  rx_len is 0 at a line boundary, and also      *)
(* inside a line that is being eaten.                                      *)
FrameStarts ==
    /\ Receiving /\ ~opc_busy /\ rx_slot = None
    /\ opc_busy' = TRUE
    /\ \/ free = {} /\ UNCHANGED <<free, opc_slot>>
       \/ \E s \in free : opc_slot' = s /\ free' = free \ {s}
    /\ UNCHANGED <<ready, holds, rx_slot, rx_line, rx_discard, runVars, dfuVars, streamVars, linkVars>>

(* Slip: opc_finish does not look whether the frame had a slot.            *)
FrameEndsUnchecked(c) ==
    /\ Receiving /\ opc_busy /\ opc_busy' = FALSE
    /\ ready' = Append(ready, opc_slot) /\ opc_slot' = None
    /\ holds' = [s \in Slot |-> IF s = opc_slot THEN [cmd |-> c, text |-> FALSE, link |-> link]
                                ELSE holds[s]]
    /\ UNCHANGED <<free, rx_slot, rx_line, rx_discard, runVars, dfuVars, streamVars, linkVars>>

(* opc_finish.                                                             *)
FrameEnds(c) ==
    /\ Receiving /\ opc_busy /\ opc_busy' = FALSE
    /\ IF opc_slot = None
       THEN UNCHANGED <<ready, holds, opc_slot>>
       ELSE /\ ready' = Append(ready, opc_slot)
            /\ holds' = [holds EXCEPT ![opc_slot] =
                            [cmd |-> c, text |-> FALSE, link |-> link]]
            /\ opc_slot' = None
    /\ UNCHANGED <<free, rx_slot, rx_line, rx_discard, runVars, dfuVars, streamVars, linkVars>>

(* The stream's own stop sequence, and its end by vs_exit_streaming.       *)
StreamStops ==
    /\ state = "up" /\ vstream_active
    /\ vstream_active' = FALSE /\ vs_watchdog' = FALSE
    /\ UNCHANGED <<slotVars, rxVars, runVars, dfuVars, linkVars>>

(***************************************************************************)
(* cmd_thread.                                                             *)
(***************************************************************************)
Take ==
    /\ stage = "idle" /\ ready # <<>>
    /\ running' = Head(ready) /\ ready' = Tail(ready) /\ stage' = "gate"
    /\ UNCHANGED <<free, holds, rxVars, dfuVars, streamVars, linkVars>>

Job == holds[running]

GatedByDfu(job) == job.text /\ dfu_busy /\ job.cmd \notin AllowedWhileDfu

(* dispatch_line, cmd_dispatch_opcode, run_command: the transfer gate is   *)
(* for text only; the access gate (secauth.c) may refuse any command.      *)
Gate ==
    /\ stage = "gate"
    /\ \/ stage' = "end"
       \/ stage' = "run" /\ ~GatedByDfu(Job)
    /\ UNCHANGED <<slotVars, rxVars, running, dfuVars, streamVars, linkVars>>

(* The handlers, up to the point where they change what is shared here.    *)
RunPlain ==
    /\ stage = "run" /\ Job.cmd = "UPDATE" /\ stage' = "end"
    /\ UNCHANGED <<slotVars, rxVars, running, dfuVars, streamVars, linkVars>>

RunReboot == stage = "run" /\ Job.cmd = "REBOOT" /\ Restart

(* dfu_set_busy in its two steps: the flag, then the timer.                *)
RunDfu ==
    /\ stage = "run" /\ Job.cmd \in {"DFU:START", "DFU:DONE"}
    /\ dfu_busy' = (Job.cmd = "DFU:START") /\ stage' = "timer"
    /\ UNCHANGED <<slotVars, rxVars, running, dfu_timer, streamVars, linkVars>>

(* Slip: a window without its timeout.                                     *)
SetDfuTimerNever ==
    /\ stage = "timer" /\ stage' = "end" /\ dfu_timer' = FALSE
    /\ UNCHANGED <<slotVars, rxVars, running, dfu_busy, streamVars, linkVars>>

SetDfuTimer ==
    /\ stage = "timer" /\ stage' = "end"
    /\ dfu_timer' = (Job.cmd = "DFU:START")
    /\ UNCHANGED <<slotVars, rxVars, running, dfu_busy, streamVars, linkVars>>

RunStream ==
    /\ stage = "run" /\ Job.cmd \in {"VSTREAM:start", "VSTREAM:stop"}
    /\ vstream_active' = (Job.cmd = "VSTREAM:start")
    /\ vs_watchdog' = (Job.cmd = "VSTREAM:start") /\ stage' = "end"
    /\ UNCHANGED <<slotVars, rxVars, running, dfuVars, linkVars>>

Release ==
    /\ stage = "end" /\ stage' = "idle"
    /\ free' = free \cup {running} /\ running' = None
    /\ holds' = [holds EXCEPT ![running] = None]
    /\ UNCHANGED <<ready, rxVars, dfuVars, streamVars, linkVars>>

(***************************************************************************)
(* Timers and the mcumgr hook (dfu_mgmt_cb).                               *)
(***************************************************************************)
WatchdogFires ==
    /\ vs_watchdog /\ vs_watchdog' = FALSE /\ vstream_active' = FALSE
    /\ UNCHANGED <<slotVars, rxVars, runVars, dfuVars, linkVars>>

DfuExpires ==
    /\ dfu_timer /\ dfu_timer' = FALSE /\ dfu_busy' = FALSE
    /\ UNCHANGED <<slotVars, rxVars, runVars, streamVars, linkVars>>

UploadStarts ==
    /\ state = "up" /\ dfu_busy' = TRUE /\ dfu_timer' = TRUE
    /\ UNCHANGED <<slotVars, rxVars, runVars, streamVars, linkVars>>

UploadChunk ==
    /\ state = "up" /\ dfu_busy /\ dfu_timer' = TRUE
    /\ UNCHANGED <<slotVars, rxVars, runVars, dfu_busy, streamVars, linkVars>>

UploadEnds ==
    /\ state = "up" /\ dfu_busy' = FALSE /\ dfu_timer' = FALSE
    /\ UNCHANGED <<slotVars, rxVars, runVars, streamVars, linkVars>>

(***************************************************************************)
(* The link.                                                               *)
(***************************************************************************)
Connect ==
    /\ state = "down" /\ link < MaxLinks
    /\ state' = "up" /\ link' = link + 1
    /\ UNCHANGED <<slotVars, rxVars, runVars, dfuVars, streamVars>>

(* commands_on_disconnect.  Tearing a stream down waits for the panel and  *)
(* lets the command thread run; everything after it does not wait.         *)
DisconnectBegins ==
    /\ state = "up" /\ state' = "closing"
    /\ vstream_active' = FALSE /\ vs_watchdog' = FALSE
    /\ UNCHANGED <<slotVars, rxVars, runVars, dfuVars, link>>

Queued == Range(ready)

(* Slips: the slot of a half-received frame is left behind; the queue is.  *)
DisconnectEndsLeaky ==
    /\ state = "closing" /\ state' = "down"
    /\ rx_slot' = None /\ rx_line' = None /\ rx_discard' = FALSE
    /\ opc_slot' = None /\ opc_busy' = FALSE
    /\ dfu_busy' = FALSE /\ dfu_timer' = FALSE
    /\ free' = free \cup Queued \cup ({rx_slot} \ {None}) /\ ready' = <<>>
    /\ holds' = [s \in Slot |-> IF s \in Queued THEN None ELSE holds[s]]
    /\ UNCHANGED <<runVars, streamVars, link>>

DisconnectEndsQueued ==
    /\ state = "closing" /\ state' = "down"
    /\ rx_slot' = None /\ rx_line' = None /\ rx_discard' = FALSE
    /\ opc_slot' = None /\ opc_busy' = FALSE
    /\ dfu_busy' = FALSE /\ dfu_timer' = FALSE
    /\ free' = free \cup ({rx_slot, opc_slot} \ {None})
    /\ UNCHANGED <<ready, holds, runVars, streamVars, link>>

DisconnectEnds ==
    /\ state = "closing" /\ state' = "down"
    /\ rx_slot' = None /\ rx_line' = None /\ rx_discard' = FALSE
    /\ opc_slot' = None /\ opc_busy' = FALSE
    /\ dfu_busy' = FALSE /\ dfu_timer' = FALSE
    /\ free' = free \cup Queued \cup ({rx_slot, opc_slot} \ {None})
    /\ ready' = <<>>
    /\ holds' = [s \in Slot |-> IF s \in Queued THEN None ELSE holds[s]]
    /\ UNCHANGED <<runVars, streamVars, link>>

Rx ==
    \/ \E c \in Commands : LineStarts(c) \/ FrameEnds(c)
    \/ LineEaten \/ LineQueued \/ LineRunsInline \/ FrameStarts \/ StreamStops

CmdThread ==
    \/ Take \/ Gate \/ RunPlain \/ RunReboot \/ RunDfu \/ SetDfuTimer \/ RunStream \/ Release

Next ==
    \/ Rx \/ CmdThread
    \/ WatchdogFires \/ DfuExpires
    \/ UploadStarts \/ UploadChunk \/ UploadEnds
    \/ Connect \/ DisconnectBegins \/ DisconnectEnds

Spec == Init /\ [][Next]_vars

(* Handlers return (the development loops apart, which only REBOOT ends),  *)
(* timers fire and a disconnect is handled to its end.  The host owes      *)
(* nothing.                                                                *)
Fairness ==
    /\ WF_vars(CmdThread)
    /\ WF_vars(WatchdogFires) /\ WF_vars(DfuExpires)
    /\ WF_vars(DisconnectEnds)

FairSpec == Spec /\ Fairness

-----------------------------------------------------------------------------
TypeOK ==
    /\ free \subseteq Slot /\ ready \in Seq(Slot)
    /\ holds \in [Slot -> Content \cup {None}]
    /\ rx_slot \in Slot \cup {None} /\ opc_slot \in Slot \cup {None}
    /\ rx_line \in Commands \cup {None}
    /\ running \in Slot \cup {None}
    /\ stage \in {"idle", "gate", "run", "timer", "end"}
    /\ {rx_discard, opc_busy, dfu_busy, dfu_timer, vstream_active, vs_watchdog} \subseteq BOOLEAN
    /\ link \in 0 .. MaxLinks /\ state \in {"up", "closing", "down"}

(* Where a slot can be, as disjoint places.                                *)
Held == {rx_slot, opc_slot, running} \ {None}

(* No slot is ever lost or in two hands: free, waiting, being filled or    *)
(* being executed (the two fifos, rx_slot, opc_slot and cmd_thread, and    *)
(* commands_on_disconnect collecting from all of them).                    *)
SlotsConserved ==
    /\ free \cup Queued \cup Held = Slot
    /\ free \cap (Queued \cup Held) = {} /\ Queued \cap Held = {}
    /\ IsInjective(ready)
    /\ rx_slot # None => rx_slot \notin {opc_slot, running}
    /\ opc_slot # None => opc_slot # running

(* "Commands the old link queued must not run against the new one"         *)
(* (commands_on_disconnect): whatever waits came over this connection.     *)
OldCommandsDropped ==
    /\ \A s \in Queued : holds[s].link = link
    /\ state = "down" => ready = <<>> /\ rx_slot = None /\ opc_slot = None

(* When the host vanishes for good, nothing stays behind: no transfer      *)
(* window, no stream, no slot (commands_on_disconnect, dfu_busy_expire,    *)
(* vs_watchdog_handler, and what a command still running leaves to them).  *)
NothingLeftBehind ==
    <>[](state = "down") => <>[](~dfu_busy /\ ~vstream_active /\ free = Slot)
=============================================================================
