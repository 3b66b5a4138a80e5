----------------------------- MODULE ReplayList -----------------------------
(***************************************************************************)
(* The replay list of src/app/mesh_pdu.c: per source, the highest sequence *)
(* number accepted and a bitmap of the ones just below it.  Only the       *)
(* operators on one list value; who owns the list and when it is saved is  *)
(* MeshNode's business.                                                    *)
(*                                                                         *)
(* A bitmap is the set of its bit positions: i \in win says that seq - i   *)
(* was accepted.  Sequence numbers are SeqMod-valued (2^16 in the code)    *)
(* and compared by serial arithmetic.                                      *)
(***************************************************************************)
EXTENDS Integers

CONSTANTS
    Src,     \* the 3-byte ids of the other tags
    SeqMod,  \* 2^16: a sequence number is a uint16_t
    Window,  \* MESH_RPL_WINDOW: bits of the bitmap
    Slots,   \* MESH_RPL_SLOTS: entries of the list
    Expire,  \* MESH_RPL_EXPIRE_S: seconds of silence that forget a source
    Free     \* an entry with used = 0

Half == SeqMod \div 2

ASSUME ReplayListAssumption ==
    /\ SeqMod \in Nat \ {0} /\ SeqMod = 2 * Half
    /\ Window \in Nat \ {0} /\ Window <= Half
    /\ Slots \in Nat \ {0}
    /\ Expire \in Nat \ {0}

Seqs == 0 .. SeqMod - 1
Bits == 0 .. Window - 1
Slot == 1 .. Slots

Entry == [src : Src, seq : Seqs, win : SUBSET Bits, last : Nat]
Lists == [Slot -> Entry \cup {Free}]

ASSUME FreeAssumption == Free \notin Entry /\ Free \notin [src : Src, seq : Seqs]

(* a - b in uint16_t arithmetic, and the same cast to int16_t.             *)
Since(b, a) == IF a >= b THEN a - b ELSE a - b + SeqMod

Diff(a, b) == IF Since(b, a) < Half THEN Since(b, a) ELSE Since(b, a) - SeqMod

Owns(r, i, s) == r[i] # Free /\ r[i].src = s

Known(r, s) == \E i \in Slot : Owns(r, i, s)

RplFind(r, s) == CHOOSE i \in Slot : Owns(r, i, s)

Expired(e, t) == t - e.last >= Expire

(* Slip: the number on top of the window passes again.                     *)
RplCheckAtTop(r, s, n, t) ==
    \/ ~Known(r, s)
    \/ LET e == r[RplFind(r, s)]
           d == Diff(n, e.seq)
       IN  Expired(e, t) \/ d >= 0 \/ (-d < Window /\ -d \notin e.win)

(* mesh_rpl_check: would (s, n) be accepted at uptime t?                   *)
RplCheck(r, s, n, t) ==
    \/ ~Known(r, s)
    \/ LET e == r[RplFind(r, s)]
           d == Diff(n, e.seq)
       IN  \/ Expired(e, t)
           \/ d > 0
           \/ -d < Window /\ -d \notin e.win

(* The slot a new source takes: the first free one, else the entry heard   *)
(* from longest ago, the lowest index among equals.                        *)
RplVictim(r, t) ==
    IF \E i \in Slot : r[i] = Free
    THEN CHOOSE i \in Slot : r[i] = Free /\ \A j \in Slot : j < i => r[j] # Free
    ELSE CHOOSE i \in Slot :
           \A j \in Slot : /\ t - r[j].last <= t - r[i].last
                           /\ j < i => t - r[j].last < t - r[i].last

Fresh(s, n, t) == [src |-> s, seq |-> n, win |-> {0}, last |-> t]

(* Slip: one position short.                                               *)
ShiftShort(win, d) == {i \in Bits : i = 0 \/ i - d + 1 \in win}

(* The bitmap after its top moves up by d > 0.                             *)
Shift(win, d) == {i \in Bits : i = 0 \/ i - d \in win}

Advance(e, n, t) ==
    LET d == Diff(n, e.seq)
    IN  IF d > 0
        THEN [e EXCEPT !.seq = n, !.win = Shift(e.win, d), !.last = t]
        ELSE [e EXCEPT !.win = IF -d < Window THEN @ \cup {-d} ELSE @, !.last = t]

(* The slot (s, n) is recorded in, and the list with it recorded.          *)
RplSlot(r, s, t) == IF Known(r, s) THEN RplFind(r, s) ELSE RplVictim(r, t)

RplCommit(r, s, n, t) ==
    LET i == RplSlot(r, s, t)
    IN  [r EXCEPT ![i] = IF ~Known(r, s) \/ Expired(r[i], t)
                         THEN Fresh(s, n, t)
                         ELSE Advance(r[i], n, t)]

RplReset == [i \in Slot |-> Free]

(* What mesh/rpl holds: (src, seq) of every entry in use.  Entries in use  *)
(* come first (slots fill in order and only a reset frees them), so the    *)
(* packing in the blob keeps every entry at its index.                     *)
Blobs == [Slot -> [src : Src, seq : Seqs] \cup {Free}]

RplExport(r) ==
    [i \in Slot |-> IF r[i] = Free THEN Free ELSE [src |-> r[i].src, seq |-> r[i].seq]]

(* Slip: only the top of an imported entry counts as seen.                 *)
RplImportTop(b) ==
    [i \in Slot |-> IF b[i] = Free THEN Free
                    ELSE [src |-> b[i].src, seq |-> b[i].seq, win |-> {0}, last |-> 0]]

(* An imported entry treats everything at or below its seq as seen, and    *)
(* its silence starts at uptime 0.                                         *)
RplImport(b) ==
    [i \in Slot |-> IF b[i] = Free THEN Free
                    ELSE [src |-> b[i].src, seq |-> b[i].seq, win |-> Bits, last |-> 0]]
=============================================================================
