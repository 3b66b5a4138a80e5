------------------------------ MODULE MeshNode ------------------------------
(***************************************************************************)
(* One tag's mesh stack, src/app/mesh.c: the scanner and the commands put  *)
(* jobs on a bounded queue, the mesh thread takes them one by one, and the *)
(* replay list and the originator's counter survive reboots in flash.      *)
(*                                                                         *)
(* The radio is the environment.  Any authentic PDU of a peer may be heard *)
(* at any time, in any order, any number of times or never; so may any     *)
(* forgery.  Peers are assumed to use fewer than SeqMod/2 sequence numbers *)
(* (the blind spot mesh_pdu.h names).                                      *)
(*                                                                         *)
(* Bounds, for TLC only: MaxUptime, MaxBoots, MaxSent, MaxFails.           *)
(***************************************************************************)
EXTENDS ReplayList, Sequences, FiniteSets

CONSTANTS
    Self,       \* this tag's own id
    SeqFirst,   \* SEQ_FIRST
    Span,       \* how many sequence numbers a peer uses
    Depth,      \* RXQ_DEPTH
    RingSlots,  \* TXRING_SLOTS
    SaveMin,    \* RPL_SAVE_MIN_S
    Forged,     \* the sequence numbers forgeries carry
    Faulty,     \* the settings keys a write to which may fail
    None,       \* nothing there
    MaxUptime, MaxBoots, MaxSent, MaxFails

ASSUME MeshNodeAssumption ==
    /\ Self \notin Src
    /\ SeqFirst \in Seqs
    /\ Span \in 0 .. Half
    /\ Depth \in Nat \ {0} /\ RingSlots \in Nat \ {0} /\ SaveMin \in Nat \ {0}
    /\ Forged \subseteq Seqs
    /\ Faulty \subseteq {"mesh/rpl", "mesh/seq"}
    /\ MaxUptime \in Nat /\ MaxBoots \in Nat /\ MaxFails \in Nat
    /\ MaxSent \in 0 .. SeqMod - 1
    /\ None \notin Nat
    /\ None \notin [src : Src \cup {Self}, seq : Seqs, good : BOOLEAN]

(* How far a sequence number is past the first one used.                   *)
Age(n) == Since(SeqFirst, n)

Issued == {n \in Seqs : Age(n) < Span}

Messages == [src : Src, seq : Issued]

PDUs == [src : Src \cup {Self}, seq : Seqs, good : BOOLEAN]

Jobs == [kind : {"RX"}, pdu : PDUs] \cup [kind : {"ORIG", "SAVE", "FORGET"}]

VARIABLES
    mesh_q,     \* the jobs waiting for the mesh thread
    stage,      \* where the mesh thread is in its current job
    cur,        \* the PDU it is handling
    rpl, rpl_dirty, rpl_saved_s,
    save_due,   \* uptime at which rpl_save_work fires
    my_seq,
    tx_count,   \* entries in the beacon ring
    now,        \* uptime in seconds
    flashRpl, flashSeq,   \* settings mesh/rpl and mesh/seq
    seen,       \* history: accepted and not forgotten since
    savedSeen,  \* history: what the list in flash stands for
    sent,       \* history: sequence numbers this tag put on the air
    boots, fails

thread == <<stage, cur>>
listVars == <<rpl, rpl_dirty, rpl_saved_s, save_due>>
flashVars == <<flashRpl, flashSeq, savedSeen>>
vars == <<mesh_q, stage, cur, rpl, rpl_dirty, rpl_saved_s, save_due, my_seq, tx_count, now,
          flashRpl, flashSeq, seen, savedSeen, sent, boots, fails>>

Next1(n) == IF n = SeqMod - 1 THEN 0 ELSE n + 1

(* Slip: resume with the last value saved.                                 *)
ResumeAtLast(last) == IF last = None THEN SeqFirst ELSE last

(* mesh_settings_set on "seq": resume one past the last value saved.       *)
ResumeAt(last) == IF last = None THEN SeqFirst ELSE Next1(last)

Init ==
    /\ mesh_q = <<>> /\ stage = "idle" /\ cur = None
    /\ rpl = RplReset /\ rpl_dirty = FALSE /\ rpl_saved_s = 0 /\ save_due = None
    /\ my_seq = SeqFirst /\ tx_count = 0 /\ now = 0
    /\ flashRpl = RplExport(RplReset) /\ flashSeq = None
    /\ seen = {} /\ savedSeen = {} /\ sent = {}
    /\ boots = 0 /\ fails = 0

(***************************************************************************)
(* Who feeds the queue.  A put on a full queue is dropped (K_NO_WAIT), and *)
(* changes nothing.                                                        *)
(***************************************************************************)
PutUnbounded(job) == mesh_q' = Append(mesh_q, job)     \* slip: no K_NO_WAIT

Put(job) ==
    /\ Len(mesh_q) < Depth
    /\ mesh_q' = Append(mesh_q, job)

OnAir(p) ==
    IF p.good
    THEN IF p.src = Self THEN p.seq \in sent ELSE p.seq \in Issued
    ELSE p.seq \in Forged

(* scan_cb: a well-formed PDU heard by the scanner.                        *)
Hear(p) ==
    /\ OnAir(p)
    /\ Put([kind |-> "RX", pdu |-> p])
    /\ UNCHANGED <<thread, listVars, my_seq, tx_count, now, flashVars, seen, sent, boots, fails>>

(* mesh_originate, mesh_forget_peers: from a BCAST or a MESHRX FORGET.     *)
Ask(kind) ==
    /\ kind = "ORIG" => Age(my_seq) < MaxSent
    /\ Put([kind |-> kind])
    /\ UNCHANGED <<thread, listVars, my_seq, tx_count, now, flashVars, seen, sent, boots, fails>>

(* Slip: a full queue swallows the save.                                   *)
SaveTimerOnce ==
    /\ save_due # None /\ now >= save_due /\ save_due' = None
    /\ mesh_q' = IF Len(mesh_q) < Depth THEN Append(mesh_q, [kind |-> "SAVE"]) ELSE mesh_q
    /\ UNCHANGED <<thread, rpl, rpl_dirty, rpl_saved_s, my_seq, tx_count, now,
                   flashVars, seen, sent, boots, fails>>

(* rpl_save_fn on the system workqueue; on a full queue it comes back in a *)
(* second.                                                                 *)
SaveTimer ==
    /\ save_due # None /\ now >= save_due
    /\ IF Len(mesh_q) < Depth
       THEN mesh_q' = Append(mesh_q, [kind |-> "SAVE"]) /\ save_due' = None
       ELSE save_due' = now + 1 /\ UNCHANGED mesh_q
    /\ UNCHANGED <<thread, rpl, rpl_dirty, rpl_saved_s, my_seq, tx_count, now,
                   flashVars, seen, sent, boots, fails>>

(***************************************************************************)
(* The mesh thread, one job at a time.                                     *)
(***************************************************************************)
HeadIs(kind) == stage = "idle" /\ mesh_q # <<>> /\ Head(mesh_q).kind = kind

(* Slip: the MAC is looked at after the commit.                            *)
RefusedUnverified(p) == p.src = Self \/ ~RplCheck(rpl, p.src, p.seq, now)

Refused(p) == p.src = Self \/ ~RplCheck(rpl, p.src, p.seq, now) \/ ~p.good

(* mesh_handle_pdu up to its early returns: our own flood heard back, a    *)
(* PDU the list refuses, a wrong MAC.                                      *)
TakeRefused ==
    /\ HeadIs("RX") /\ Refused(Head(mesh_q).pdu)
    /\ mesh_q' = Tail(mesh_q)
    /\ UNCHANGED <<thread, listVars, my_seq, tx_count, now, flashVars, seen, sent, boots, fails>>

(* The messages that stay remembered when (s, n) is recorded: an eviction  *)
(* takes the victim's along.                                               *)
Remaining(s) ==
    LET i == RplSlot(rpl, s, now)
    IN  IF rpl[i] # Free /\ rpl[i].src # s
        THEN {m \in seen : m.src # rpl[i].src}
        ELSE seen

(* mesh_handle_pdu: an authentic new PDU is committed to the list.         *)
TakeAccepted ==
    /\ HeadIs("RX") /\ ~Refused(Head(mesh_q).pdu)
    /\ LET p == Head(mesh_q).pdu
       IN  /\ rpl' = RplCommit(rpl, p.src, p.seq, now)
           /\ seen' = Remaining(p.src) \cup {[src |-> p.src, seq |-> p.seq]}
           /\ cur' = p
    /\ mesh_q' = Tail(mesh_q) /\ stage' = "save"
    /\ rpl_dirty' = TRUE
    /\ UNCHANGED <<rpl_saved_s, save_due, my_seq, tx_count, now, flashVars, sent, boots, fails>>

MayFail(key) == key \in Faulty /\ fails < MaxFails

(* rpl_save_now: a failed write leaves the list dirty.                     *)
RplSaveNow ==
    \/ /\ flashRpl' = RplExport(rpl) /\ savedSeen' = seen
       /\ rpl_saved_s' = now /\ rpl_dirty' = FALSE
       /\ UNCHANGED fails
    \/ /\ MayFail("mesh/rpl") /\ fails' = fails + 1
       /\ UNCHANGED <<flashRpl, savedSeen, rpl_saved_s, rpl_dirty>>

(* k_work_schedule on a pending item is a no-op.                           *)
ScheduleSave == save_due' = IF save_due = None THEN now + SaveMin ELSE save_due

SaveIsDue == rpl_saved_s = 0 \/ now - rpl_saved_s >= SaveMin

(* mesh_handle_pdu: save right away, or leave it to the deferred write.    *)
SaveOrDefer ==
    /\ stage = "save" /\ stage' = "relay"
    /\ IF SaveIsDue
       THEN RplSaveNow /\ UNCHANGED save_due
       ELSE /\ ScheduleSave
            /\ UNCHANGED <<flashRpl, savedSeen, rpl_saved_s, rpl_dirty, fails>>
    /\ UNCHANGED <<mesh_q, cur, rpl, my_seq, tx_count, now, flashSeq, seen, sent, boots>>

(* JOB_ORIG: mesh_do_originate takes the next number, saves it, and hands  *)
(* the signed PDU to mesh_handle_pdu as trusted.  next_seq ignores the     *)
(* result of the save.                                                     *)
TakeOriginate ==
    /\ HeadIs("ORIG") /\ Age(my_seq) < MaxSent
    /\ mesh_q' = Tail(mesh_q) /\ stage' = "relay"
    /\ cur' = [src |-> Self, seq |-> my_seq, good |-> TRUE]
    /\ my_seq' = Next1(my_seq)
    /\ \/ flashSeq' = my_seq /\ UNCHANGED fails
       \/ MayFail("mesh/seq") /\ fails' = fails + 1 /\ UNCHANGED flashSeq
    /\ UNCHANGED <<listVars, tx_count, now, flashRpl, savedSeen, seen, sent, boots>>

(* mesh_handle_pdu: tx_enqueue when the TTL allows another hop (an own PDU *)
(* always starts with one); a full ring drops it.                          *)
Relay ==
    /\ stage = "relay"
    /\ \/ /\ tx_count' = IF tx_count < RingSlots THEN tx_count + 1 ELSE tx_count
          /\ sent' = IF cur.src = Self /\ tx_count < RingSlots
                     THEN sent \cup {cur.seq} ELSE sent
       \/ cur.src # Self /\ UNCHANGED <<tx_count, sent>>
    /\ cur' = None
    /\ stage' \in {"run", "idle"}     \* addressed to this tag, or to somebody else
    /\ UNCHANGED <<mesh_q, listVars, my_seq, now, flashVars, seen, boots, fails>>

(* cmd_dispatch_opcode returns; the handler may have taken minutes.        *)
HandlerReturns ==
    /\ stage = "run" /\ stage' = "idle"
    /\ UNCHANGED <<mesh_q, cur, listVars, my_seq, tx_count, now, flashVars, seen, sent, boots, fails>>

(* JOB_SAVE.                                                               *)
TakeSave ==
    /\ HeadIs("SAVE")
    /\ mesh_q' = Tail(mesh_q)
    /\ IF rpl_dirty THEN RplSaveNow
       ELSE UNCHANGED <<flashRpl, savedSeen, rpl_saved_s, rpl_dirty, fails>>
    /\ UNCHANGED <<thread, rpl, save_due, my_seq, tx_count, now, flashSeq, seen, sent, boots>>

(* JOB_FORGET, in two steps: power may fail between the reset and the save *)
TakeForget ==
    /\ HeadIs("FORGET")
    /\ mesh_q' = Tail(mesh_q) /\ stage' = "forget"
    /\ rpl' = RplReset /\ seen' = {}
    /\ rpl_dirty' = TRUE
    /\ UNCHANGED <<cur, rpl_saved_s, save_due, my_seq, tx_count, now, flashVars, sent, boots, fails>>

SaveForgotten ==
    /\ stage = "forget" /\ stage' = "idle"
    /\ RplSaveNow
    /\ UNCHANGED <<mesh_q, cur, rpl, save_due, my_seq, tx_count, now, flashSeq, seen, sent, boots>>

(* tx_work_fn takes an entry off the beacon ring (module BeaconPump).      *)
PumpTakes ==
    /\ tx_count > 0 /\ tx_count' = tx_count - 1
    /\ UNCHANGED <<mesh_q, thread, listVars, my_seq, now, flashVars, seen, sent, boots, fails>>

(***************************************************************************)
(* A second passes.  Everything but a command handler finishes within the  *)
(* second it starts in.  A source silent for Expire is forgotten.          *)
(***************************************************************************)
Silent(t) == {s \in Src : \E i \in Slot : Owns(rpl, i, s) /\ Expired(rpl[i], t)}

Tick ==
    /\ now < MaxUptime
    /\ stage = "run" \/ (stage = "idle" /\ mesh_q = <<>>)
    /\ save_due # None => now < save_due
    /\ now' = now + 1
    /\ seen' = {m \in seen : m.src \notin Silent(now + 1)}
    /\ UNCHANGED <<mesh_q, thread, listVars, my_seq, tx_count, flashVars, sent, boots, fails>>

(* A reset or a power loss, and the boot that follows: mesh_settings_set   *)
(* restores the counter and the list, everything else is lost.             *)
Reboot ==
    /\ boots < MaxBoots /\ boots' = boots + 1
    /\ mesh_q' = <<>> /\ stage' = "idle" /\ cur' = None
    /\ rpl' = RplImport(flashRpl) /\ seen' = savedSeen
    /\ rpl_dirty' = FALSE /\ rpl_saved_s' = 0 /\ save_due' = None
    /\ my_seq' = ResumeAt(flashSeq)
    /\ tx_count' = 0 /\ now' = 0
    /\ UNCHANGED <<flashVars, sent, fails>>

Next ==
    \/ \E p \in PDUs : Hear(p)
    \/ \E kind \in {"ORIG", "FORGET"} : Ask(kind)
    \/ SaveTimer
    \/ TakeRefused \/ TakeAccepted \/ SaveOrDefer
    \/ TakeOriginate \/ Relay \/ HandlerReturns
    \/ TakeSave \/ TakeForget \/ SaveForgotten
    \/ PumpTakes
    \/ Tick \/ Reboot

Spec == Init /\ [][Next]_vars

-----------------------------------------------------------------------------
TypeOK ==
    /\ mesh_q \in Seq(Jobs) /\ Len(mesh_q) <= Depth
    /\ stage \in {"idle", "save", "relay", "run", "forget"}
    /\ cur \in IF stage \in {"save", "relay"} THEN PDUs ELSE {None}
    /\ rpl \in Lists /\ rpl_dirty \in BOOLEAN
    /\ rpl_saved_s \in Nat /\ save_due \in Nat \cup {None}
    /\ my_seq \in Seqs /\ tx_count \in 0 .. RingSlots /\ now \in Nat
    /\ flashRpl \in Blobs /\ flashSeq \in Seqs \cup {None}
    /\ seen \subseteq Messages /\ savedSeen \subseteq Messages /\ sent \subseteq Seqs
    /\ boots \in Nat /\ fails \in Nat

(* A broadcast this tag accepted and has had no reason to forget is        *)
(* refused when it is heard again: an echo, a duplicate, a replay, in any  *)
(* order, across the wrap of the counter and across reboots                *)
(* (mesh_rpl_check, mesh_rpl_commit, mesh_rpl_import).                     *)
NoReplay == \A m \in seen : ~RplCheck(rpl, m.src, m.seq, now)

(* Whatever was accepted before the list was last written is refused after *)
(* a reset at any moment, also between the steps of a commit or a FORGET.  *)
RebootSafe == \A m \in savedSeen : ~RplCheck(RplImport(flashRpl), m.src, m.seq, 0)

(* A forgery leaves no trace in the list, live or saved: it cannot lock a  *)
(* genuine source out (mesh_handle_pdu verifies before it commits).        *)
OnlyAuthentic ==
    \A i \in Slot : /\ rpl[i] # Free => rpl[i].seq \in Issued
                    /\ flashRpl[i] # Free => flashRpl[i].seq \in Issued

(* A source never fills two slots: rpl_find would use the first and leave  *)
(* the other's window open.                                                *)
OneSlotPerSource ==
    \A i, j \in Slot : rpl[i] # Free /\ rpl[j] # Free /\ rpl[i].src = rpl[j].src => i = j

(* Neither the running counter nor the one a reset would resume has been   *)
(* on the air before, and the PDU about to be relayed has not either       *)
(* (next_seq saves before it returns).                                     *)
FreshSeq ==
    /\ my_seq \notin sent
    /\ ResumeAt(flashSeq) \notin sent
    /\ stage = "relay" /\ cur.src = Self => cur.seq \notin sent

(* While no write fails, commits that are not in flash have a save on its  *)
(* way: the timer runs or a JOB_SAVE is queued (rpl_save_fn, on a full     *)
(* queue, comes back in a second).                                         *)
DirtyIsCovered ==
    rpl_dirty /\ stage \notin {"save", "forget"} /\ fails = 0 =>
        \/ save_due # None
        \/ \E i \in 1 .. Len(mesh_q) : mesh_q[i].kind = "SAVE"

SourceOf(m) == m.src

(* The peer's broadcast mesh_handle_pdu has accepted and not yet passed on *)
Handling ==
    IF cur = None \/ cur.src = Self THEN None ELSE [src |-> cur.src, seq |-> cur.seq]

AMO == INSTANCE AtMostOnce
         WITH Message <- Messages, Source <- Src, Nothing <- None,
              durable <- savedSeen, current <- Handling

(* The mesh stack keeps the promise of AtMostOnce: a broadcast is accepted *)
(* by mesh_handle_pdu only if it is not remembered, and memory is lost in  *)
(* no other way than the promise allows.                                   *)
AcceptsAtMostOnce == AMO!Spec
=============================================================================
