--------------------------- MODULE MeshNodeProofs ---------------------------
(***************************************************************************)
(* Proofs about MeshNode and its replay list, for every number of peers    *)
(* and slots, every window, queue depth and timing constant.               *)
(***************************************************************************)
EXTENDS MeshNode, WellFoundedInduction, TLAPS

(***************************************************************************)
(* What one commit does to the replay list, for every list, window size    *)
(* and number of slots.                                                    *)
(*                                                                         *)
(* Serial arithmetic is only meaningful between numbers less than Half     *)
(* apart.  base is a number none of those in play precedes: Since(base, n) *)
(* is then the unwrapped position of n, and all positions are below Half.  *)
(***************************************************************************)
Near(base, n) == n \in Seqs /\ Since(base, n) < Half

AllNear(r, base) == \A i \in Slot : r[i] # Free => Near(base, r[i].seq)

OneSlot(r) ==
    \A i, j \in Slot : r[i] # Free /\ r[j] # Free /\ r[i].src = r[j].src => i = j

(* The entry e remembers having seen n: it lies below the window, or its   *)
(* bit is set.                                                             *)
Covers(e, base, n) ==
    LET d == Since(base, e.seq) - Since(base, n)
    IN  d >= 0 /\ (d < Window => d \in e.win)

Tracks(r, base, s, n, t) ==
    \E i \in Slot : Owns(r, i, s) /\ ~Expired(r[i], t) /\ Covers(r[i], base, n)

-----------------------------------------------------------------------------
(* A nonempty set of naturals has a least member.                          *)
LEMMA NatMin ==
    ASSUME NEW T \in SUBSET Nat, T # {}
    PROVE  \E m \in T : \A k \in T : m <= k
<1> DEFINE R == {ss \in Nat \X Nat : ss[1] < ss[2]}
<1>1. IsWellFoundedOn(R, Nat)
    BY NatLessThanWellFounded DEF OpToRel
<1>2. \A k, m \in Nat : k < m => <<k, m>> \in R
    OBVIOUS
<1> HIDE DEF R
<1>3. PICK m \in T : \A k \in T : ~(<<k, m>> \in R)
    BY <1>1, WFMin
<1>4. \A k \in T : ~(k < m)
    BY <1>2, <1>3
<1> QED BY <1>4

(* The difference the code computes is the difference of the positions.    *)
LEMMA DiffOfNear ==
    ASSUME NEW base \in Seqs, NEW a, NEW b, Near(base, a), Near(base, b)
    PROVE  Diff(a, b) = Since(base, a) - Since(base, b)
BY ReplayListAssumption DEF Diff, Since, Near, Seqs, Half

(* A distance on the circle of sequence numbers is below its length.       *)
LEMMA SinceType ==
    ASSUME NEW base \in Seqs, NEW n \in Seqs
    PROVE  Since(base, n) \in 0 .. SeqMod - 1
BY ReplayListAssumption DEF Since, Seqs, Half

(* mesh_rpl_find returns a slot of the source it looks for.                *)
LEMMA FindOwns ==
    ASSUME NEW r, NEW s, Known(r, s)
    PROVE  RplFind(r, s) \in Slot /\ Owns(r, RplFind(r, s), s)
BY DEF Known, RplFind

(* ... and the only one, while no source has two.                          *)
LEMMA FindIsUnique ==
    ASSUME NEW r, NEW s, OneSlot(r), NEW i \in Slot, Owns(r, i, s)
    PROVE  RplFind(r, s) = i
<1>1. Known(r, s)
    BY DEF Known
<1>2. RplFind(r, s) \in Slot /\ Owns(r, RplFind(r, s), s)
    BY <1>1, FindOwns
<1> QED BY <1>2 DEF OneSlot, Owns

(* There is always a slot to give to a new source: a free one, or the      *)
(* first of those heard from longest ago.                                  *)
LEMMA VictimInSlot ==
    ASSUME NEW r \in Lists, NEW t \in Nat
    PROVE  RplVictim(r, t) \in Slot
<1>1. CASE \E i \in Slot : r[i] = Free
    <2> DEFINE T == {i \in Slot : r[i] = Free}
    <2>0. T \in SUBSET Nat /\ T # {}
        BY <1>1 DEF Slot
    <2>1. PICK m \in T : \A k \in T : m <= k
        BY <2>0, NatMin
    <2>2. m \in Slot /\ r[m] = Free /\ \A j \in Slot : j < m => r[j] # Free
        BY <2>1 DEF Slot
    <2> QED BY <1>1, <2>2 DEF RplVictim
<1>2. CASE ~\E i \in Slot : r[i] = Free
    <2>1. \A i \in Slot : r[i].last \in Nat
        BY <1>2 DEF Lists, Entry
    <2> DEFINE L == {r[i].last : i \in Slot}
    <2>2. 1 \in Slot
        BY ReplayListAssumption DEF Slot
    <2>3. L \in SUBSET Nat /\ L # {}
        BY <2>1, <2>2
    <2>4. PICK oldest \in L : \A k \in L : oldest <= k
        BY <2>3, NatMin
    <2> DEFINE T == {i \in Slot : r[i].last = oldest}
    <2>5. T \in SUBSET Nat /\ T # {}
        BY <2>4 DEF Slot
    <2>6. PICK m \in T : \A k \in T : m <= k
        BY <2>5, NatMin
    <2>7. m \in Slot /\ \A j \in Slot : /\ t - r[j].last <= t - r[m].last
                                        /\ j < m => t - r[j].last < t - r[m].last
        <3>1. \A j \in Slot : r[m].last <= r[j].last
            BY <2>4, <2>6
        <3>2. \A j \in Slot : j < m => r[j].last # r[m].last
            BY <2>6 DEF Slot
        <3> QED BY <2>1, <2>6, <3>1, <3>2 DEF Slot
    <2> QED BY <1>2, <2>7 DEF RplVictim
<1> QED BY <1>1, <1>2

-----------------------------------------------------------------------------
(* A commit always finds a slot.                                           *)
LEMMA SlotOfSource ==
    ASSUME NEW r \in Lists, NEW s, NEW t \in Nat
    PROVE  RplSlot(r, s, t) \in Slot
BY FindOwns, VictimInSlot DEF RplSlot

(* A shifted window stays as wide as it was.                               *)
LEMMA ShiftType ==
    ASSUME NEW win, NEW d
    PROVE  Shift(win, d) \in SUBSET Bits
BY DEF Shift

(* An advanced entry is an entry.                                          *)
LEMMA EntryType ==
    ASSUME NEW e \in Entry, NEW n \in Seqs, NEW t \in Nat
    PROVE  Advance(e, n, t) \in Entry
<1>1. Diff(n, e.seq) \in Int
    BY ReplayListAssumption DEF Diff, Since, Seqs, Entry, Half
<1>2. CASE Diff(n, e.seq) > 0
    BY <1>2, ShiftType DEF Advance, Entry
<1>3. CASE ~(Diff(n, e.seq) > 0)
    <2>1. -Diff(n, e.seq) < Window => -Diff(n, e.seq) \in Bits
        BY <1>1, <1>3, ReplayListAssumption DEF Bits
    <2> QED BY <1>3, <2>1 DEF Advance, Entry
<1> QED BY <1>2, <1>3

(* A list is a list after a commit.                                        *)
LEMMA CommitType ==
    ASSUME NEW r \in Lists, NEW s \in Src, NEW n \in Seqs, NEW t \in Nat
    PROVE  RplCommit(r, s, n, t) \in Lists
<1> DEFINE i == RplSlot(r, s, t)
<1>1. i \in Slot
    BY SlotOfSource
<1>2. Fresh(s, n, t) \in Entry
    BY ReplayListAssumption DEF Fresh, Entry, Bits
<1>3. Known(r, s) => r[i] \in Entry
    BY <1>1, FindOwns DEF RplSlot, Owns, Lists
<1> QED BY <1>1, <1>2, <1>3, EntryType DEF RplCommit, Lists

(* The slot a commit writes: what it held before and what it holds after.  *)
LEMMA CommitAt ==
    ASSUME NEW r \in Lists, NEW s \in Src, NEW n \in Seqs, NEW t \in Nat
    PROVE  LET i == RplSlot(r, s, t)
               q == RplCommit(r, s, n, t)
           IN  /\ i \in Slot
               /\ q[i] = IF ~Known(r, s) \/ Expired(r[i], t)
                         THEN Fresh(s, n, t) ELSE Advance(r[i], n, t)
               /\ \A j \in Slot \ {i} : q[j] = r[j]
               /\ Known(r, s) => Owns(r, i, s)
               /\ Owns(q, i, s)
<1> DEFINE i == RplSlot(r, s, t)
<1>1. i \in Slot
    BY SlotOfSource
<1>2. Known(r, s) => Owns(r, i, s)
    BY FindOwns DEF RplSlot
<1>3. Known(r, s) => r[i] \in Entry /\ r[i].src = s
    BY <1>1, <1>2 DEF Owns, Lists
<1>4. RplCommit(r, s, n, t)[i] = IF ~Known(r, s) \/ Expired(r[i], t)
                                 THEN Fresh(s, n, t) ELSE Advance(r[i], n, t)
    BY <1>1 DEF RplCommit, Lists
<1>5. Fresh(s, n, t) \in Entry /\ Fresh(s, n, t).src = s
    BY ReplayListAssumption DEF Fresh, Entry, Bits
<1>6. Known(r, s) => Advance(r[i], n, t) \in Entry /\ Advance(r[i], n, t).src = s
    <2>1. ASSUME Known(r, s)
          PROVE  Advance(r[i], n, t) \in Entry
        BY <2>1, <1>3, EntryType
    <2>2. ASSUME Known(r, s)
          PROVE  Advance(r[i], n, t).src = s
        BY <2>2, <1>3 DEF Advance, Entry
    <2> QED BY <2>1, <2>2
<1>7. Owns(RplCommit(r, s, n, t), i, s)
    BY <1>4, <1>5, <1>6, FreeAssumption DEF Owns
<1>8. \A j \in Slot \ {i} : RplCommit(r, s, n, t)[j] = r[j]
    BY <1>1 DEF RplCommit, Lists
<1> QED BY <1>1, <1>2, <1>4, <1>7, <1>8

(* A commit gives no source a second slot.                                 *)
LEMMA CommitOneSlot ==
    ASSUME NEW r \in Lists, NEW s \in Src, NEW n \in Seqs, NEW t \in Nat, OneSlot(r)
    PROVE  OneSlot(RplCommit(r, s, n, t))
<1> DEFINE i == RplSlot(r, s, t)
           q == RplCommit(r, s, n, t)
<1>1. /\ i \in Slot
      /\ \A j \in Slot \ {i} : q[j] = r[j]
      /\ Owns(q, i, s)
    BY CommitAt
<1>2. ASSUME NEW j \in Slot \ {i}, r[j] # Free, r[j].src = s
      PROVE  FALSE
    <2>1. Owns(r, j, s) /\ Known(r, s)
        BY <1>2 DEF Owns, Known
    <2>2. RplFind(r, s) = j
        BY <2>1, FindIsUnique
    <2> QED BY <2>1, <2>2 DEF RplSlot
<1> HIDE DEF i, q
<1>3. OneSlot(q)
    BY <1>1, <1>2 DEF OneSlot, Owns
<1> QED BY <1>3 DEF q

(* A commit writes no other sequence number than the one it records.       *)
LEMMA CommitSeqs ==
    ASSUME NEW r \in Lists, NEW s \in Src, NEW n \in Seqs, NEW t \in Nat
    PROVE  LET q == RplCommit(r, s, n, t)
           IN  \A j \in Slot : \/ q[j] = Free
                               \/ q[j].seq = n
                               \/ r[j] # Free /\ q[j].seq = r[j].seq
<1> DEFINE i == RplSlot(r, s, t)
           q == RplCommit(r, s, n, t)
<1>1. /\ i \in Slot
      /\ q[i] = IF ~Known(r, s) \/ Expired(r[i], t)
                THEN Fresh(s, n, t) ELSE Advance(r[i], n, t)
      /\ \A j \in Slot \ {i} : q[j] = r[j]
      /\ Known(r, s) => Owns(r, i, s)
    BY CommitAt
<1> HIDE DEF i, q
<1>2. q[i].seq = n \/ (r[i] # Free /\ q[i].seq = r[i].seq)
    <2>1. Fresh(s, n, t).seq = n
        BY DEF Fresh
    <2>2. ASSUME Known(r, s)
          PROVE  r[i] # Free /\ Advance(r[i], n, t).seq \in {n, r[i].seq}
        <3>1. r[i] \in Entry /\ r[i] # Free
            BY <1>1, <2>2 DEF Owns, Lists
        <3> QED BY <3>1 DEF Advance, Entry
    <2> QED BY <1>1, <2>1, <2>2
<1>3. \A j \in Slot : q[j] = Free \/ q[j].seq = n \/ (r[j] # Free /\ q[j].seq = r[j].seq)
    BY <1>1, <1>2
<1> QED BY <1>3 DEF q

(* What has just been committed is tracked.                                *)
LEMMA CommitTracksNew ==
    ASSUME NEW r \in Lists, NEW s \in Src, NEW n \in Seqs, NEW t \in Nat,
           NEW base \in Seqs, AllNear(r, base), Near(base, n)
    PROVE  Tracks(RplCommit(r, s, n, t), base, s, n, t)
<1> DEFINE i == RplSlot(r, s, t)
           q == RplCommit(r, s, n, t)
<1>1. /\ i \in Slot
      /\ q[i] = IF ~Known(r, s) \/ Expired(r[i], t)
                THEN Fresh(s, n, t) ELSE Advance(r[i], n, t)
      /\ Known(r, s) => Owns(r, i, s)
      /\ Owns(q, i, s)
    BY CommitAt
<1> HIDE DEF i, q
<1>2. Since(base, n) \in 0 .. SeqMod - 1
    BY SinceType
<1>3. CASE ~Known(r, s) \/ Expired(r[i], t)
    <2>1. ~Expired(q[i], t) /\ Covers(q[i], base, n)
        BY <1>1, <1>2, <1>3, ReplayListAssumption DEF Fresh, Expired, Covers
    <2>2. Tracks(q, base, s, n, t)
        BY <1>1, <2>1 DEF Tracks
    <2> QED BY <2>2 DEF q
<1>4. CASE Known(r, s) /\ ~Expired(r[i], t)
    <2> DEFINE e == r[i]
               d == Diff(n, e.seq)
    <2>1. e \in Entry /\ Near(base, e.seq)
        BY <1>1, <1>4 DEF Owns, Lists, AllNear
    <2>2. d = Since(base, n) - Since(base, e.seq)
        BY <2>1, DiffOfNear
    <2>3. Since(base, e.seq) \in 0 .. SeqMod - 1
        BY <2>1, SinceType DEF Entry
    <2>4. q[i] = Advance(e, n, t)
        BY <1>1, <1>4
    <2> HIDE DEF e, d
    <2>5. ~Expired(q[i], t)
        BY <2>1, <2>4, ReplayListAssumption DEF Advance, Expired, Entry
    <2>6. ASSUME d > 0
          PROVE  Covers(q[i], base, n)
        <3>1. q[i].seq = n /\ q[i].win = Shift(e.win, d)
            BY <2>1, <2>4, <2>6 DEF Advance, Entry, d
        <3>2. 0 \in Shift(e.win, d)
            BY ReplayListAssumption DEF Shift, Bits
        <3> QED BY <1>2, <3>1, <3>2 DEF Covers
    <2>7. ASSUME ~(d > 0)
          PROVE  Covers(q[i], base, n)
        <3>1. q[i].seq = e.seq
            BY <2>1, <2>4, <2>7 DEF Advance, Entry, d
        <3>2. -d < Window => -d \in q[i].win
            BY <2>1, <2>4, <2>7 DEF Advance, Entry, d
        <3>3. -d = Since(base, e.seq) - Since(base, n) /\ -d >= 0
            BY <1>2, <2>2, <2>3, <2>7
        <3> QED BY <3>1, <3>2, <3>3 DEF Covers
    <2>8. Covers(q[i], base, n)
        BY <2>2, <2>3, <1>2, <2>6, <2>7
    <2>9. Tracks(q, base, s, n, t)
        BY <1>1, <2>5, <2>8 DEF Tracks
    <2> QED BY <2>9 DEF q
<1> QED BY <1>3, <1>4

(* A commit loses no message it does not evict: every message tracked      *)
(* before, of a source that keeps its slot, is tracked after.              *)
LEMMA CommitKeepsTracks ==
    ASSUME NEW r \in Lists, NEW s \in Src, NEW n \in Seqs, NEW t \in Nat,
           NEW base \in Seqs, AllNear(r, base), Near(base, n),
           NEW s2 \in Src, NEW m, Near(base, m), Tracks(r, base, s2, m, t),
           LET i == RplSlot(r, s, t)
           IN  ~(r[i] # Free /\ r[i].src # s /\ r[i].src = s2)
    PROVE  Tracks(RplCommit(r, s, n, t), base, s2, m, t)
<1> DEFINE i == RplSlot(r, s, t)
           q == RplCommit(r, s, n, t)
<1>1. /\ i \in Slot
      /\ q[i] = IF ~Known(r, s) \/ Expired(r[i], t)
                THEN Fresh(s, n, t) ELSE Advance(r[i], n, t)
      /\ \A j \in Slot \ {i} : q[j] = r[j]
      /\ Owns(q, i, s)
    BY CommitAt
<1>2. ~(r[i] # Free /\ r[i].src # s /\ r[i].src = s2)
    OBVIOUS
<1> HIDE DEF i, q
<1>3. PICK j \in Slot : Owns(r, j, s2) /\ ~Expired(r[j], t) /\ Covers(r[j], base, m)
    BY DEF Tracks
<1>4. CASE j # i
    <2>1. q[j] = r[j]
        BY <1>1, <1>4
    <2>2. Tracks(q, base, s2, m, t)
        BY <1>3, <2>1 DEF Tracks, Owns
    <2> QED BY <2>2 DEF q
<1>5. CASE j = i
    <2> DEFINE e == r[i]
               d == Diff(n, e.seq)
    <2>1. s2 = s /\ Known(r, s)
        BY <1>2, <1>3, <1>5 DEF Owns, Known
    <2>2. e \in Entry /\ Near(base, e.seq)
        BY <1>1, <1>3, <1>5 DEF Owns, Lists, AllNear
    <2>3. d = Since(base, n) - Since(base, e.seq)
        BY <2>2, DiffOfNear
    <2>4. /\ Since(base, e.seq) \in 0 .. SeqMod - 1
          /\ Since(base, n) \in 0 .. SeqMod - 1
          /\ Since(base, m) \in 0 .. SeqMod - 1
        BY <2>2, SinceType DEF Near
    <2>5. q[i] = Advance(e, n, t)
        BY <1>1, <1>3, <1>5, <2>1
    <2>6. Covers(e, base, m)
        BY <1>3, <1>5
    <2> HIDE DEF e, d
    <2>7. ~Expired(q[i], t)
        BY <2>2, <2>5, ReplayListAssumption DEF Advance, Expired, Entry
    <2>8. ASSUME d > 0
          PROVE  Covers(q[i], base, m)
        <3> DEFINE k == Since(base, e.seq) - Since(base, m)
        <3>1. q[i].seq = n /\ q[i].win = Shift(e.win, d)
            BY <2>2, <2>5, <2>8 DEF Advance, Entry, d
        <3>2. k >= 0 /\ (k < Window => k \in e.win)
            BY <2>6 DEF Covers
        <3>3. Since(base, n) - Since(base, m) = k + d
            BY <2>3, <2>4
        <3>4. ASSUME k + d < Window
              PROVE  k + d \in Shift(e.win, d)
            <4>1. k \in Int /\ d \in Int
                BY <2>3, <2>4
            <4> HIDE DEF k
            <4>2. k + d \in Bits /\ (k + d) - d \in e.win
                BY <2>8, <3>2, <3>4, <4>1, ReplayListAssumption DEF Bits
            <4> QED BY <4>2 DEF Shift
        <3>5. k + d >= 0
            BY <2>3, <2>4, <2>8, <3>2
        <3> QED BY <3>1, <3>3, <3>4, <3>5 DEF Covers
    <2>9. ASSUME ~(d > 0)
          PROVE  Covers(q[i], base, m)
        <3>1. q[i].seq = e.seq /\ e.win \subseteq q[i].win
            BY <2>2, <2>5, <2>9 DEF Advance, Entry, d
        <3> QED BY <2>6, <3>1 DEF Covers
    <2>10. Covers(q[i], base, m)
        BY <2>8, <2>9
    <2>11. Tracks(q, base, s2, m, t)
        BY <1>1, <2>1, <2>7, <2>10 DEF Tracks
    <2> QED BY <2>11 DEF q
<1> QED BY <1>4, <1>5

-----------------------------------------------------------------------------
(* A tracked message is refused.                                           *)
LEMMA TrackedIsRefused ==
    ASSUME NEW r \in Lists, NEW s, NEW n, NEW t \in Nat, NEW base \in Seqs,
           OneSlot(r), AllNear(r, base), Near(base, n), Tracks(r, base, s, n, t)
    PROVE  ~RplCheck(r, s, n, t)
<1>1. PICK i \in Slot : Owns(r, i, s) /\ ~Expired(r[i], t) /\ Covers(r[i], base, n)
    BY DEF Tracks
<1>2. RplFind(r, s) = i /\ Known(r, s)
    BY <1>1, FindIsUnique DEF Known
<1>3. r[i] \in Entry /\ Near(base, r[i].seq)
    BY <1>1 DEF Owns, Lists, AllNear
<1>4. Diff(n, r[i].seq) = Since(base, n) - Since(base, r[i].seq)
    BY <1>3, DiffOfNear
<1>5. Since(base, n) \in 0 .. SeqMod - 1 /\ Since(base, r[i].seq) \in 0 .. SeqMod - 1
    BY <1>3, SinceType DEF Near
<1>6. -Diff(n, r[i].seq) = Since(base, r[i].seq) - Since(base, n)
    BY <1>4, <1>5
<1>7. ~(Diff(n, r[i].seq) > 0)
    BY <1>1, <1>4, <1>5 DEF Covers
<1>8. -Diff(n, r[i].seq) < Window => -Diff(n, r[i].seq) \in r[i].win
    BY <1>1, <1>6 DEF Covers
<1> QED BY <1>1, <1>2, <1>7, <1>8 DEF RplCheck

-----------------------------------------------------------------------------
(* What is saved and restored: a blob covers everything at or below the    *)
(* highest number of a source.                                             *)
BlobCovers(b, base, s, n) ==
    \E i \in Slot : b[i] # Free /\ b[i].src = s /\ Since(base, n) <= Since(base, b[i].seq)

(* What is exported is a blob.                                             *)
LEMMA ExportType ==
    ASSUME NEW r \in Lists
    PROVE  RplExport(r) \in Blobs
BY DEF RplExport, Blobs, Lists, Entry

(* The export refuses all that the list refused.                           *)
LEMMA ExportCovers ==
    ASSUME NEW r \in Lists, NEW base \in Seqs, NEW s, NEW n \in Seqs, NEW t \in Nat,
           Tracks(r, base, s, n, t)
    PROVE  BlobCovers(RplExport(r), base, s, n)
<1>1. PICK i \in Slot : Owns(r, i, s) /\ Covers(r[i], base, n)
    BY DEF Tracks
<1>2. r[i] \in Entry
    BY <1>1 DEF Owns, Lists
<1>3. RplExport(r)[i] = [src |-> r[i].src, seq |-> r[i].seq]
    BY <1>1 DEF RplExport, Owns
<1>4. RplExport(r)[i] # Free
    BY <1>2, <1>3, FreeAssumption DEF Entry
<1>5. Since(base, r[i].seq) \in Int /\ Since(base, n) \in Int
    BY <1>2, SinceType DEF Entry
<1> QED BY <1>1, <1>3, <1>4, <1>5 DEF BlobCovers, Owns, Covers

(* An import is a list.                                                    *)
LEMMA ImportType ==
    ASSUME NEW b \in Blobs
    PROVE  RplImport(b) \in Lists
BY DEF RplImport, Blobs, Lists, Entry

(* An import refuses all that the blob stands for.                         *)
LEMMA ImportTracks ==
    ASSUME NEW b \in Blobs, NEW base \in Seqs, NEW s, NEW n \in Seqs,
           BlobCovers(b, base, s, n)
    PROVE  Tracks(RplImport(b), base, s, n, 0)
<1>1. PICK i \in Slot : /\ b[i] # Free /\ b[i].src = s
                        /\ Since(base, n) <= Since(base, b[i].seq)
    BY DEF BlobCovers
<1>2. b[i] \in [src : Src, seq : Seqs]
    BY <1>1 DEF Blobs
<1> DEFINE e == [src |-> b[i].src, seq |-> b[i].seq, win |-> Bits, last |-> 0]
<1>3. RplImport(b)[i] = e
    BY <1>1 DEF RplImport
<1>4. e \in Entry
    BY <1>2 DEF Entry
<1>5. Owns(RplImport(b), i, s)
    BY <1>1, <1>3, <1>4, FreeAssumption DEF Owns
<1>6. ~Expired(e, 0)
    BY ReplayListAssumption DEF Expired
<1>7. Since(base, b[i].seq) \in Int /\ Since(base, n) \in Int
    BY <1>2, SinceType
<1>8. Covers(e, base, n)
    BY <1>1, <1>7, ReplayListAssumption DEF Covers, Bits
<1> HIDE DEF e
<1> QED BY <1>3, <1>5, <1>6, <1>8 DEF Tracks

(* An import gives no source a second slot.                                *)
LEMMA ImportOneSlot ==
    ASSUME NEW b \in Blobs, OneSlot(b)
    PROVE  OneSlot(RplImport(b))
BY DEF OneSlot, RplImport

(* Nor does an export.                                                     *)
LEMMA ExportOneSlot ==
    ASSUME NEW r \in Lists, OneSlot(r)
    PROVE  OneSlot(RplExport(r))
BY DEF OneSlot, RplExport

-----------------------------------------------------------------------------
(***************************************************************************)
(* The node.                                                               *)
(***************************************************************************)
(* The numbers peers use lie within half the circle.                       *)
LEMMA IssuedIsNear ==
    ASSUME NEW n \in Issued
    PROVE  n \in Seqs /\ Near(SeqFirst, n)
BY MeshNodeAssumption, ReplayListAssumption, SinceType DEF Issued, Age, Near, Half

(* What the queue may hold.                                                *)
LEMMA JobTypes ==
    /\ \A j \in Jobs : j.kind = "RX" => j.pdu \in PDUs
    /\ \A p \in PDUs : [kind |-> "RX", pdu |-> p] \in Jobs
    /\ \A k \in {"ORIG", "SAVE", "FORGET"} : [kind |-> k] \in Jobs
BY DEF Jobs

(* What taking the first job leaves.                                       *)
LEMMA HeadJob ==
    ASSUME mesh_q \in Seq(Jobs), NEW kind, HeadIs(kind)
    PROVE  /\ Head(mesh_q) \in Jobs /\ Tail(mesh_q) \in Seq(Jobs)
           /\ Len(mesh_q) \in Nat \ {0} /\ Len(Tail(mesh_q)) = Len(mesh_q) - 1
           /\ Head(mesh_q) = mesh_q[1]
           /\ \A i \in 1 .. Len(Tail(mesh_q)) :
                i + 1 \in 1 .. Len(mesh_q) /\ Tail(mesh_q)[i] = mesh_q[i + 1]
BY DEF HeadIs

(* What putting a job adds.                                                *)
LEMMA PutJob ==
    ASSUME mesh_q \in Seq(Jobs), NEW job \in Jobs
    PROVE  /\ Append(mesh_q, job) \in Seq(Jobs)
           /\ Len(mesh_q) \in Nat /\ Len(Append(mesh_q, job)) = Len(mesh_q) + 1
           /\ Append(mesh_q, job)[Len(mesh_q) + 1] = job
           /\ \A i \in 1 .. Len(mesh_q) : Append(mesh_q, job)[i] = mesh_q[i]
OBVIOUS

-----------------------------------------------------------------------------
(* Nobody but a peer's genuine broadcasts reaches the list: authentic PDUs *)
(* in the queue carry issued numbers.                                      *)
HeardInv ==
    \A i \in 1 .. Len(mesh_q) :
        mesh_q[i].kind = "RX" /\ mesh_q[i].pdu.good /\ mesh_q[i].pdu.src \in Src
            => mesh_q[i].pdu.seq \in Issued

SlotInv == OneSlot(rpl) /\ OneSlot(flashRpl)

SeenInv == \A m \in seen : Tracks(rpl, SeqFirst, m.src, m.seq, now)

SavedInv == \A m \in savedSeen : BlobCovers(flashRpl, SeqFirst, m.src, m.seq)

IInv == TypeOK /\ HeardInv /\ OnlyAuthentic /\ SlotInv /\ SeenInv /\ SavedInv

(* A tag with an erased flash satisfies the invariant.                     *)
LEMMA InitInv == Init => IInv
<1> SUFFICES ASSUME Init PROVE IInv
    OBVIOUS
<1>1. RplReset \in Lists /\ RplExport(RplReset) \in Blobs
    BY ExportType DEF RplReset, Lists
<1>2. \A i \in Slot : RplReset[i] = Free /\ RplExport(RplReset)[i] = Free
    BY DEF RplReset, RplExport
<1>3. TypeOK
    <2>1. mesh_q \in Seq(Jobs) /\ Len(mesh_q) <= Depth
        BY MeshNodeAssumption DEF Init
    <2>2. tx_count \in 0 .. RingSlots /\ my_seq \in Seqs
        BY MeshNodeAssumption DEF Init
    <2>3. rpl \in Lists /\ flashRpl \in Blobs
        BY <1>1 DEF Init
    <2> QED BY <2>1, <2>2, <2>3 DEF Init, TypeOK
<1>4. HeardInv /\ SeenInv /\ SavedInv
    BY DEF Init, HeardInv, SeenInv, SavedInv
<1>5. OnlyAuthentic /\ SlotInv
    BY <1>2 DEF Init, OnlyAuthentic, SlotInv, OneSlot
<1> QED BY <1>3, <1>4, <1>5 DEF IInv

(* A successful write of the list: what was tracked is covered.            *)
LEMMA SaveKeepsInv ==
    ASSUME IInv, RplSaveNow
    PROVE  /\ flashRpl' \in Blobs /\ savedSeen' \subseteq Messages
           /\ rpl_saved_s' \in Nat /\ rpl_dirty' \in BOOLEAN /\ fails' \in Nat
           /\ OneSlot(flashRpl')
           /\ \A i \in Slot : flashRpl'[i] # Free => flashRpl'[i].seq \in Issued
           /\ \A m \in savedSeen' : BlobCovers(flashRpl', SeqFirst, m.src, m.seq)
<1>1. CASE /\ flashRpl' = RplExport(rpl) /\ savedSeen' = seen
           /\ rpl_saved_s' = now /\ rpl_dirty' = FALSE
           /\ UNCHANGED fails
    <2>1. rpl \in Lists /\ now \in Nat /\ seen \subseteq Messages /\ OneSlot(rpl)
        BY DEF IInv, TypeOK, SlotInv
    <2>2. \A i \in Slot : flashRpl'[i] # Free => flashRpl'[i].seq \in Issued
        BY <1>1 DEF IInv, OnlyAuthentic, RplExport
    <2>3. ASSUME NEW m \in seen
          PROVE  BlobCovers(RplExport(rpl), SeqFirst, m.src, m.seq)
        <3>1. Tracks(rpl, SeqFirst, m.src, m.seq, now) /\ m.seq \in Seqs
            BY <2>1 DEF IInv, SeenInv, Messages, Issued
        <3> QED BY <2>1, <3>1, ExportCovers, MeshNodeAssumption
    <2> QED BY <1>1, <2>1, <2>2, <2>3, ExportType, ExportOneSlot DEF IInv, TypeOK
<1>2. CASE /\ MayFail("mesh/rpl") /\ fails' = fails + 1
           /\ UNCHANGED <<flashRpl, savedSeen, rpl_saved_s, rpl_dirty>>
    BY <1>2 DEF IInv, TypeOK, SlotInv, OnlyAuthentic, SavedInv
<1> QED BY <1>1, <1>2 DEF RplSaveNow

(* TakeAccepted, the step that changes the list.                           *)
LEMMA AcceptedKeepsInv ==
    ASSUME IInv, TakeAccepted
    PROVE  IInv'
<1> DEFINE p == Head(mesh_q).pdu
           i == RplSlot(rpl, p.src, now)
<1>1. /\ mesh_q \in Seq(Jobs) /\ rpl \in Lists /\ now \in Nat /\ seen \subseteq Messages
      /\ OneSlot(rpl)
    BY DEF IInv, TypeOK, SlotInv
<1>2. HeadIs("RX") /\ ~Refused(p)
    BY DEF TakeAccepted
<1>3. /\ p \in PDUs
      /\ mesh_q' = Tail(mesh_q) /\ mesh_q' \in Seq(Jobs)
      /\ Len(mesh_q) \in Nat \ {0} /\ Len(mesh_q') = Len(mesh_q) - 1
      /\ \A k \in 1 .. Len(mesh_q') : k + 1 \in 1 .. Len(mesh_q) /\ mesh_q'[k] = mesh_q[k + 1]
    BY <1>1, <1>2, HeadJob, JobTypes DEF TakeAccepted, HeadIs
<1>4. p.src \in Src /\ p.seq \in Issued
    <2>1. p.src \in Src /\ p.good
        BY <1>2, <1>3 DEF Refused, PDUs
    <2>2. mesh_q[1].kind = "RX" /\ mesh_q[1].pdu = p /\ 1 \in 1 .. Len(mesh_q)
        BY <1>1, <1>2, <1>3, HeadJob DEF HeadIs
    <2> QED BY <2>1, <2>2 DEF IInv, HeardInv
<1>5. p.seq \in Seqs /\ Near(SeqFirst, p.seq)
    BY <1>4, IssuedIsNear
<1>6. AllNear(rpl, SeqFirst)
    BY IssuedIsNear DEF IInv, OnlyAuthentic, AllNear
<1>7. rpl' = RplCommit(rpl, p.src, p.seq, now)
    BY DEF TakeAccepted
<1>8. seen' = Remaining(p.src) \cup {[src |-> p.src, seq |-> p.seq]}
    BY DEF TakeAccepted
<1>9. UNCHANGED <<rpl_saved_s, save_due, my_seq, tx_count, now, flashVars, sent, boots, fails>>
    BY DEF TakeAccepted
<1>10. stage' = "save" /\ cur' = p /\ rpl_dirty' = TRUE
    BY DEF TakeAccepted
<1> HIDE DEF p
<1>11. Remaining(p.src) \subseteq seen
    BY DEF Remaining
<1>12. TypeOK'
    <2>1. rpl' \in Lists
        BY <1>1, <1>4, <1>5, <1>7, CommitType
    <2>2. seen' \subseteq Messages
        BY <1>1, <1>4, <1>8, <1>11 DEF Messages
    <2>3. mesh_q' \in Seq(Jobs) /\ Len(mesh_q') <= Depth
        BY <1>3, MeshNodeAssumption DEF IInv, TypeOK
    <2> QED BY <1>3, <1>9, <1>10, <2>1, <2>2, <2>3 DEF IInv, TypeOK, flashVars
<1>13. HeardInv'
    BY <1>3 DEF IInv, HeardInv
<1>14. OnlyAuthentic'
    <2>1. \A j \in Slot : rpl'[j] # Free => rpl'[j].seq \in Issued
        BY <1>1, <1>4, <1>5, <1>7, CommitSeqs DEF IInv, OnlyAuthentic
    <2> QED BY <1>9, <2>1 DEF IInv, OnlyAuthentic, flashVars
<1>15. SlotInv'
    BY <1>1, <1>4, <1>5, <1>7, <1>9, CommitOneSlot DEF IInv, SlotInv, flashVars
<1>16. SeenInv'
    <2>1. Tracks(rpl', SeqFirst, p.src, p.seq, now)
        BY <1>1, <1>4, <1>5, <1>6, <1>7, CommitTracksNew, MeshNodeAssumption
    <2>2. ASSUME NEW m \in Remaining(p.src)
          PROVE  Tracks(rpl', SeqFirst, m.src, m.seq, now)
        <3>1. m \in seen /\ m.src \in Src /\ m.seq \in Issued
            BY <1>1, <1>11, <2>2 DEF Messages
        <3>2. Near(SeqFirst, m.seq) /\ Tracks(rpl, SeqFirst, m.src, m.seq, now)
            BY <3>1, IssuedIsNear DEF IInv, SeenInv
        <3>3. ~(rpl[i] # Free /\ rpl[i].src # p.src /\ rpl[i].src = m.src)
            BY <2>2 DEF Remaining
        <3> QED BY <1>1, <1>4, <1>5, <1>6, <1>7, <3>1, <3>2, <3>3, CommitKeepsTracks,
                   MeshNodeAssumption
    <2>3. now' = now
        BY <1>9
    <2> QED BY <1>8, <2>1, <2>2, <2>3 DEF SeenInv
<1>17. SavedInv'
    BY <1>9 DEF IInv, SavedInv, flashVars
<1> QED BY <1>12, <1>13, <1>14, <1>15, <1>16, <1>17 DEF IInv

(* Steps that only put a job on the queue.                                 *)
LEMMA PutKeepsHeard ==
    ASSUME IInv, NEW job \in Jobs, Put(job),
           job.kind = "RX" /\ job.pdu.good /\ job.pdu.src \in Src => job.pdu.seq \in Issued
    PROVE  mesh_q' \in Seq(Jobs) /\ Len(mesh_q') <= Depth /\ HeardInv'
<1>1. mesh_q \in Seq(Jobs)
    BY DEF IInv, TypeOK
<1>2. mesh_q' = Append(mesh_q, job) /\ Len(mesh_q) < Depth
    BY DEF Put
<1>3. /\ mesh_q' \in Seq(Jobs)
      /\ Len(mesh_q) \in Nat /\ Len(mesh_q') = Len(mesh_q) + 1
      /\ mesh_q'[Len(mesh_q) + 1] = job
      /\ \A i \in 1 .. Len(mesh_q) : mesh_q'[i] = mesh_q[i]
    BY <1>1, <1>2, PutJob
<1>4. Len(mesh_q') <= Depth
    BY <1>2, <1>3, MeshNodeAssumption
<1>5. \A i \in 1 .. Len(mesh_q') : i \in 1 .. Len(mesh_q) \/ i = Len(mesh_q) + 1
    BY <1>3
<1>6. HeardInv'
    BY <1>3, <1>5 DEF IInv, HeardInv
<1> QED BY <1>3, <1>4, <1>6

(* Steps that only take the first job off the queue.                       *)
LEMMA TakeKeepsHeard ==
    ASSUME IInv, NEW kind, HeadIs(kind), mesh_q' = Tail(mesh_q)
    PROVE  mesh_q' \in Seq(Jobs) /\ Len(mesh_q') <= Depth /\ HeardInv'
<1>1. /\ mesh_q' \in Seq(Jobs)
      /\ Len(mesh_q) \in Nat \ {0} /\ Len(mesh_q') = Len(mesh_q) - 1
      /\ \A i \in 1 .. Len(mesh_q') : i + 1 \in 1 .. Len(mesh_q) /\ mesh_q'[i] = mesh_q[i + 1]
    BY HeadJob DEF IInv, TypeOK
<1>2. Len(mesh_q') <= Depth
    BY <1>1, MeshNodeAssumption DEF IInv, TypeOK
<1>3. HeardInv'
    BY <1>1 DEF IInv, HeardInv
<1> QED BY <1>1, <1>2, <1>3

(* The counter wraps within its type.                                      *)
LEMMA NextSeqType ==
    ASSUME NEW n \in Seqs
    PROVE  Next1(n) \in Seqs
BY ReplayListAssumption DEF Next1, Seqs

(* Every action keeps the inductive invariant.                             *)
LEMMA InvStep == IInv /\ [Next]_vars => IInv'
<1> SUFFICES ASSUME IInv, [Next]_vars
             PROVE  IInv'
    OBVIOUS
<1> USE DEF thread, listVars, flashVars
<1>1. ASSUME NEW p \in PDUs, Hear(p)
      PROVE  IInv'
    <2> DEFINE job == [kind |-> "RX", pdu |-> p]
    <2>1. job \in Jobs /\ (job.pdu.good /\ job.pdu.src \in Src => job.pdu.seq \in Issued)
        BY <1>1, JobTypes, MeshNodeAssumption DEF Hear, OnAir
    <2>2. Put(job)
        BY <1>1 DEF Hear
    <2>3. mesh_q' \in Seq(Jobs) /\ Len(mesh_q') <= Depth /\ HeardInv'
        BY <2>1, <2>2, PutKeepsHeard
    <2> QED BY <1>1, <2>3 DEF Hear, IInv, TypeOK, OnlyAuthentic, SlotInv, SeenInv, SavedInv
<1>2. ASSUME NEW kind \in {"ORIG", "FORGET"}, Ask(kind)
      PROVE  IInv'
    <2>1. [kind |-> kind] \in Jobs /\ [kind |-> kind].kind # "RX"
        BY <1>2, JobTypes
    <2>2. Put([kind |-> kind])
        BY <1>2 DEF Ask
    <2>3. mesh_q' \in Seq(Jobs) /\ Len(mesh_q') <= Depth /\ HeardInv'
        BY <2>1, <2>2, PutKeepsHeard
    <2> QED BY <1>2, <2>3 DEF Ask, IInv, TypeOK, OnlyAuthentic, SlotInv, SeenInv, SavedInv
<1>3. CASE SaveTimer
    <2>1. CASE Len(mesh_q) < Depth
        <3>1. [kind |-> "SAVE"] \in Jobs
            BY JobTypes
        <3>2. Put([kind |-> "SAVE"])
            BY <1>3, <2>1 DEF SaveTimer, Put
        <3>3. mesh_q' \in Seq(Jobs) /\ Len(mesh_q') <= Depth /\ HeardInv'
            BY <3>1, <3>2, PutKeepsHeard
        <3> QED BY <1>3, <2>1, <3>3
                DEF SaveTimer, IInv, TypeOK, OnlyAuthentic, SlotInv, SeenInv, SavedInv
    <2>2. CASE ~(Len(mesh_q) < Depth)
        <3>1. save_due' \in Nat /\ UNCHANGED mesh_q
            BY <1>3, <2>2 DEF SaveTimer, IInv, TypeOK
        <3> QED BY <1>3, <3>1
                DEF SaveTimer, IInv, TypeOK, HeardInv, OnlyAuthentic, SlotInv, SeenInv, SavedInv
    <2> QED BY <2>1, <2>2
<1>4. CASE TakeRefused
    <2>1. mesh_q' \in Seq(Jobs) /\ Len(mesh_q') <= Depth /\ HeardInv'
        BY <1>4, TakeKeepsHeard DEF TakeRefused
    <2> QED BY <1>4, <2>1 DEF TakeRefused, IInv, TypeOK, OnlyAuthentic, SlotInv, SeenInv, SavedInv
<1>5. CASE TakeAccepted
    BY <1>5, AcceptedKeepsInv
<1>6. CASE SaveOrDefer
    <2>1. CASE SaveIsDue
        <3>1. RplSaveNow /\ UNCHANGED save_due
            BY <1>6, <2>1 DEF SaveOrDefer
        <3> QED BY <1>6, <3>1, SaveKeepsInv
                DEF SaveOrDefer, IInv, TypeOK, HeardInv, OnlyAuthentic, SlotInv, SeenInv, SavedInv
    <2>2. CASE ~SaveIsDue
        <3>1. save_due' \in Nat \cup {None}
            BY <1>6, <2>2, MeshNodeAssumption DEF SaveOrDefer, ScheduleSave, IInv, TypeOK
        <3> QED BY <1>6, <2>2, <3>1
                DEF SaveOrDefer, IInv, TypeOK, HeardInv, OnlyAuthentic, SlotInv, SeenInv, SavedInv
    <2> QED BY <2>1, <2>2
<1>7. CASE TakeOriginate
    <2>1. mesh_q' \in Seq(Jobs) /\ Len(mesh_q') <= Depth /\ HeardInv'
        BY <1>7, TakeKeepsHeard DEF TakeOriginate
    <2>2. my_seq' \in Seqs /\ cur' \in PDUs
        BY <1>7, NextSeqType DEF TakeOriginate, IInv, TypeOK, PDUs
    <2>3. flashSeq' \in Seqs \cup {None} /\ fails' \in Nat
        BY <1>7 DEF TakeOriginate, IInv, TypeOK
    <2> QED BY <1>7, <2>1, <2>2, <2>3
            DEF TakeOriginate, IInv, TypeOK, OnlyAuthentic, SlotInv, SeenInv, SavedInv
<1>8. CASE Relay
    <2>1. tx_count' \in 0 .. RingSlots
        BY <1>8, MeshNodeAssumption DEF Relay, IInv, TypeOK
    <2>2. sent' \subseteq Seqs
        <3>1. cur \in PDUs /\ sent \subseteq Seqs
            BY <1>8 DEF Relay, IInv, TypeOK
        <3>2. cur.seq \in Seqs
            BY <3>1 DEF PDUs
        <3>3. sent' = sent \/ sent' = sent \cup {cur.seq}
            BY <1>8 DEF Relay
        <3> QED BY <3>1, <3>2, <3>3
    <2>3. stage' \in {"idle", "run"} /\ cur' = None
        BY <1>8 DEF Relay
    <2>4. /\ UNCHANGED <<mesh_q, rpl, rpl_dirty, rpl_saved_s, save_due, my_seq, now>>
          /\ UNCHANGED <<flashRpl, flashSeq, savedSeen, seen, boots, fails>>
        BY <1>8 DEF Relay
    <2>5. TypeOK'
        BY <2>1, <2>2, <2>3, <2>4 DEF IInv, TypeOK
    <2> QED BY <2>4, <2>5 DEF IInv, HeardInv, OnlyAuthentic, SlotInv, SeenInv, SavedInv
<1>9. CASE HandlerReturns
    <2>1. TypeOK'
        <3>1. stage = "run" /\ stage' = "idle" /\ cur = None /\ cur' = None
            BY <1>9 DEF HandlerReturns, IInv, TypeOK
        <3> QED BY <1>9, <3>1 DEF HandlerReturns, IInv, TypeOK
    <2> QED BY <1>9, <2>1
            DEF HandlerReturns, IInv, HeardInv, OnlyAuthentic, SlotInv, SeenInv, SavedInv
<1>10. CASE TakeSave
    <2>1. mesh_q' \in Seq(Jobs) /\ Len(mesh_q') <= Depth /\ HeardInv'
        BY <1>10, TakeKeepsHeard DEF TakeSave
    <2>2. CASE rpl_dirty
        BY <1>10, <2>1, <2>2, SaveKeepsInv
        DEF TakeSave, IInv, TypeOK, OnlyAuthentic, SlotInv, SeenInv, SavedInv
    <2>3. CASE ~rpl_dirty
        BY <1>10, <2>1, <2>3
        DEF TakeSave, IInv, TypeOK, OnlyAuthentic, SlotInv, SeenInv, SavedInv
    <2> QED BY <2>2, <2>3
<1>11. CASE TakeForget
    <2>1. mesh_q' \in Seq(Jobs) /\ Len(mesh_q') <= Depth /\ HeardInv'
        BY <1>11, TakeKeepsHeard DEF TakeForget
    <2>2. rpl' \in Lists /\ OneSlot(rpl') /\ \A i \in Slot : rpl'[i] = Free
        BY <1>11 DEF TakeForget, RplReset, Lists, OneSlot
    <2>3. stage' = "forget" /\ cur' = None
        BY <1>11 DEF TakeForget, HeadIs, IInv, TypeOK
    <2>4. TypeOK'
        BY <1>11, <2>1, <2>2, <2>3 DEF TakeForget, IInv, TypeOK
    <2> QED BY <1>11, <2>1, <2>2, <2>4
            DEF TakeForget, IInv, OnlyAuthentic, SlotInv, SeenInv, SavedInv
<1>12. CASE SaveForgotten
    <2>1. stage' = "idle" /\ cur' = None
        BY <1>12 DEF SaveForgotten, IInv, TypeOK
    <2>2. /\ flashRpl' \in Blobs /\ savedSeen' \subseteq Messages
          /\ rpl_saved_s' \in Nat /\ rpl_dirty' \in BOOLEAN /\ fails' \in Nat
          /\ OneSlot(flashRpl')
          /\ \A i \in Slot : flashRpl'[i] # Free => flashRpl'[i].seq \in Issued
          /\ \A m \in savedSeen' : BlobCovers(flashRpl', SeqFirst, m.src, m.seq)
        BY <1>12, SaveKeepsInv DEF SaveForgotten
    <2>3. TypeOK'
        BY <1>12, <2>1, <2>2 DEF SaveForgotten, IInv, TypeOK
    <2> QED BY <1>12, <2>2, <2>3
            DEF SaveForgotten, IInv, HeardInv, OnlyAuthentic, SlotInv, SeenInv, SavedInv
<1>13. CASE PumpTakes
    <2>1. tx_count' \in 0 .. RingSlots
        BY <1>13, MeshNodeAssumption DEF PumpTakes, IInv, TypeOK
    <2>2. TypeOK'
        BY <1>13, <2>1 DEF PumpTakes, IInv, TypeOK
    <2> QED BY <1>13, <2>2
            DEF PumpTakes, IInv, HeardInv, OnlyAuthentic, SlotInv, SeenInv, SavedInv
<1>14. CASE Tick
    <2>1. now' \in Nat /\ now' = now + 1 /\ seen' = {m \in seen : m.src \notin Silent(now + 1)}
        BY <1>14 DEF Tick, IInv, TypeOK
    <2>2. ASSUME NEW m \in seen'
          PROVE  Tracks(rpl, SeqFirst, m.src, m.seq, now + 1)
        <3>1. m \in seen /\ m.src \in Src /\ m.src \notin Silent(now + 1)
            BY <2>1, <2>2 DEF IInv, TypeOK, Messages
        <3>2. PICK i \in Slot : Owns(rpl, i, m.src) /\ Covers(rpl[i], SeqFirst, m.seq)
            BY <3>1 DEF IInv, SeenInv, Tracks
        <3>3. ~Expired(rpl[i], now + 1)
            BY <3>1, <3>2 DEF Silent
        <3> QED BY <3>2, <3>3 DEF Tracks
    <2>3. SeenInv'
        BY <1>14, <2>1, <2>2 DEF Tick, SeenInv
    <2>4. /\ UNCHANGED <<mesh_q, stage, cur, rpl, rpl_dirty, rpl_saved_s, save_due, my_seq>>
          /\ UNCHANGED <<tx_count, flashRpl, flashSeq, savedSeen, sent, boots, fails>>
        BY <1>14 DEF Tick
    <2>5. seen' \subseteq Messages
        BY <2>1 DEF IInv, TypeOK
    <2>6. TypeOK'
        BY <2>1, <2>4, <2>5 DEF IInv, TypeOK
    <2> QED BY <2>3, <2>4, <2>6 DEF IInv, HeardInv, OnlyAuthentic, SlotInv, SavedInv
<1>15. CASE Reboot
    <2>1. /\ rpl' = RplImport(flashRpl) /\ flashRpl \in Blobs /\ OneSlot(flashRpl)
          /\ seen' = savedSeen /\ savedSeen \subseteq Messages /\ now' = 0
        BY <1>15 DEF Reboot, IInv, TypeOK, SlotInv
    <2>2. rpl' \in Lists /\ OneSlot(rpl')
        BY <2>1, ImportType, ImportOneSlot
    <2>3. \A i \in Slot : rpl'[i] # Free => rpl'[i].seq \in Issued
        BY <2>1 DEF RplImport, IInv, OnlyAuthentic
    <2>4. ASSUME NEW m \in savedSeen
          PROVE  Tracks(rpl', SeqFirst, m.src, m.seq, 0)
        BY <2>1, ImportTracks, IssuedIsNear, MeshNodeAssumption DEF IInv, SavedInv, Messages
    <2>5. my_seq' \in Seqs
        BY <1>15, NextSeqType, MeshNodeAssumption DEF Reboot, ResumeAt, IInv, TypeOK
    <2>6. mesh_q' \in Seq(Jobs) /\ Len(mesh_q') <= Depth /\ HeardInv'
        BY <1>15, MeshNodeAssumption DEF Reboot, HeardInv
    <2>7. tx_count' \in 0 .. RingSlots
        BY <1>15, MeshNodeAssumption DEF Reboot
    <2>8. TypeOK'
        <3>1. stage' = "idle" /\ cur' = None /\ rpl_dirty' = FALSE /\ rpl_saved_s' = 0
              /\ save_due' = None /\ UNCHANGED <<flashRpl, flashSeq, savedSeen, sent, fails>>
              /\ boots' = boots + 1
            BY <1>15 DEF Reboot
        <3>2. boots \in Nat /\ fails \in Nat /\ sent \subseteq Seqs
              /\ flashSeq \in Seqs \cup {None} /\ flashRpl \in Blobs
            BY DEF IInv, TypeOK
        <3>3. cur' \in IF stage' \in {"save", "relay"} THEN PDUs ELSE {None}
            BY <3>1
        <3>4. /\ stage' \in {"idle", "save", "relay", "run", "forget"}
              /\ rpl_saved_s' \in Nat /\ save_due' \in Nat \cup {None}
              /\ now' \in Nat /\ boots' \in Nat /\ fails' \in Nat
            BY <2>1, <3>1, <3>2
        <3>5. rpl_dirty' \in BOOLEAN
            BY <3>1, Zenon
        <3>6. /\ flashRpl' \in Blobs /\ flashSeq' \in Seqs \cup {None}
              /\ seen' \subseteq Messages /\ savedSeen' \subseteq Messages /\ sent' \subseteq Seqs
            BY <2>1, <3>1, <3>2
        <3> QED BY <2>2, <2>5, <2>6, <2>7, <3>3, <3>4, <3>5, <3>6 DEF TypeOK
    <2>9. OnlyAuthentic' /\ SlotInv' /\ SavedInv'
        BY <1>15, <2>2, <2>3 DEF Reboot, IInv, OnlyAuthentic, SlotInv, SavedInv
    <2>10. SeenInv'
        BY <2>1, <2>4 DEF SeenInv
    <2> QED BY <2>6, <2>8, <2>9, <2>10 DEF IInv
<1>16. CASE UNCHANGED vars
    BY <1>16 DEF vars, IInv, TypeOK, HeardInv, OnlyAuthentic, SlotInv, SeenInv, SavedInv
<1> QED BY <1>1, <1>2, <1>3, <1>4, <1>5, <1>6, <1>7, <1>8, <1>9, <1>10, <1>11, <1>12, <1>13,
           <1>14, <1>15, <1>16 DEF Next

-----------------------------------------------------------------------------
(* The inductive invariant holds throughout.                               *)
LEMMA Invariance == Spec => []IInv
BY InitInv, InvStep, PTL DEF Spec

(* Every variable keeps its type; in particular a PDU is in hand exactly   *)
(* while the thread saves or relays it (mesh_thread_fn).                   *)
THEOREM TypeCorrect == Spec => []TypeOK
<1>1. IInv => TypeOK
    BY DEF IInv
<1> QED BY <1>1, Invariance, PTL

(* The invariant is strong enough for NoReplay.                            *)
LEMMA SeenIsRefused == IInv => NoReplay
<1> SUFFICES ASSUME IInv, NEW m \in seen
             PROVE  ~RplCheck(rpl, m.src, m.seq, now)
    BY DEF NoReplay
<1>1. rpl \in Lists /\ now \in Nat /\ m.seq \in Issued
    BY DEF IInv, TypeOK, Messages
<1>2. Near(SeqFirst, m.seq) /\ AllNear(rpl, SeqFirst)
    BY <1>1, IssuedIsNear DEF IInv, OnlyAuthentic, AllNear
<1>3. OneSlot(rpl) /\ Tracks(rpl, SeqFirst, m.src, m.seq, now)
    BY DEF IInv, SlotInv, SeenInv
<1> QED BY <1>1, <1>2, <1>3, TrackedIsRefused, MeshNodeAssumption

(* No accepted broadcast is accepted a second time while it is remembered, *)
(* whatever the radio delivers and however often the tag resets            *)
(* (mesh_rpl_check, mesh_rpl_commit, mesh_rpl_export, mesh_rpl_import).    *)
THEOREM NeverReplayed == Spec => []NoReplay
BY SeenIsRefused, Invariance, PTL

(* A reset at any moment brings back a list that refuses everything        *)
(* accepted before the last write (mesh_rpl_import, mesh_settings_set).    *)
THEOREM RebootForgetsNothingSaved == Spec => []RebootSafe
<1>1. IInv => RebootSafe
    <2> SUFFICES ASSUME IInv, NEW m \in savedSeen
                 PROVE  ~RplCheck(RplImport(flashRpl), m.src, m.seq, 0)
        BY DEF RebootSafe
    <2> DEFINE r == RplImport(flashRpl)
    <2>1. flashRpl \in Blobs /\ OneSlot(flashRpl) /\ m.seq \in Issued
        BY DEF IInv, TypeOK, SlotInv, Messages
    <2>2. r \in Lists /\ OneSlot(r)
        BY <2>1, ImportType, ImportOneSlot
    <2>3. Near(SeqFirst, m.seq) /\ m.seq \in Seqs
        BY <2>1, IssuedIsNear
    <2>4. Tracks(r, SeqFirst, m.src, m.seq, 0)
        BY <2>1, <2>3, ImportTracks, MeshNodeAssumption DEF IInv, SavedInv
    <2>5. AllNear(r, SeqFirst)
        <3>1. \A i \in Slot : r[i] # Free => r[i].seq \in Issued
            BY DEF IInv, OnlyAuthentic, RplImport
        <3> QED BY <3>1, IssuedIsNear DEF AllNear
    <2> HIDE DEF r
    <2>6. ~RplCheck(r, m.src, m.seq, 0)
        BY <2>2, <2>3, <2>4, <2>5, TrackedIsRefused, MeshNodeAssumption
    <2> QED BY <2>6 DEF r
<1> QED BY <1>1, Invariance, PTL

(* Forged PDUs leave no trace in the list, live or saved                   *)
(* (mesh_handle_pdu verifies before mesh_rpl_commit).                      *)
THEOREM ForgeriesLeaveNoTrace == Spec => []OnlyAuthentic
<1>1. IInv => OnlyAuthentic
    BY DEF IInv
<1> QED BY <1>1, Invariance, PTL

(* rpl_find's first match is the only one: no source ever has two entries  *)
(* (mesh_rpl_commit, mesh_rpl_import).                                     *)
THEOREM NoSourceTwice == Spec => []OneSlotPerSource
<1>1. IInv => OneSlotPerSource
    BY DEF IInv, SlotInv, OneSlot, OneSlotPerSource
<1> QED BY <1>1, Invariance, PTL

(* The mesh stack implements AtMostOnce: every step of the tag is a step   *)
(* of the promise or leaves its memory alone.                              *)
THEOREM Refinement == Spec => AcceptsAtMostOnce
<1>1. Init => AMO!Init
    BY DEF Init, AMO!Init, Handling
<1>2. IInv /\ [Next]_vars => [AMO!Next]_(AMO!vars)
    <2> SUFFICES ASSUME IInv, [Next]_vars
                 PROVE  AMO!Next \/ UNCHANGED AMO!vars
        OBVIOUS
    <2> USE DEF thread, listVars, flashVars, AMO!vars
    <2>0. UNCHANGED cur => UNCHANGED Handling
        BY DEF Handling
    <2>1. ASSUME RplSaveNow, UNCHANGED <<seen, cur>>
          PROVE  AMO!Save \/ UNCHANGED AMO!vars
        BY <2>0, <2>1 DEF RplSaveNow, AMO!Save
    <2>2. CASE TakeAccepted
        <3> DEFINE p == Head(mesh_q).pdu
                   m == [src |-> p.src, seq |-> p.seq]
                   i == RplSlot(rpl, p.src, now)
        <3>1. mesh_q \in Seq(Jobs) /\ rpl \in Lists /\ seen \subseteq Messages
            BY DEF IInv, TypeOK
        <3>2. HeadIs("RX") /\ ~Refused(p)
            BY <2>2 DEF TakeAccepted
        <3>3. p \in PDUs
            BY <3>1, <3>2, HeadJob, JobTypes DEF HeadIs
        <3>4. p.src \in Src /\ RplCheck(rpl, p.src, p.seq, now)
            BY <3>2, <3>3 DEF Refused, PDUs
        <3>5. p.seq \in Issued
            <4>1. 1 \in 1 .. Len(mesh_q) /\ mesh_q[1].kind = "RX" /\ mesh_q[1].pdu = p
                BY <3>1, <3>2, HeadJob DEF HeadIs
            <4>2. p.good
                BY <3>2 DEF Refused
            <4> QED BY <3>4, <4>1, <4>2 DEF IInv, HeardInv
        <3>6. m \in Messages /\ m.src = p.src
            BY <3>4, <3>5 DEF Messages
        <3>7. m \notin seen
            BY <3>4, SeenIsRefused DEF NoReplay
        <3>8. seen' = Remaining(p.src) \cup {m} /\ savedSeen' = savedSeen
            BY <2>2 DEF TakeAccepted
        <3>11. Handling = None /\ Handling' = m
            <4>1. cur = None
                BY <3>2 DEF HeadIs, IInv, TypeOK
            <4>2. cur' = p /\ p # None /\ p.src # Self
                BY <2>2, <3>3, <3>4, MeshNodeAssumption DEF TakeAccepted, PDUs
            <4> QED BY <4>1, <4>2 DEF Handling
        <3>9. rpl[i] # Free => rpl[i].src \in Src
            <4>1. i \in Slot
                BY <3>1, <3>4, SlotOfSource, VictimInSlot DEF IInv, TypeOK
            <4> QED BY <3>1, <4>1 DEF Lists, Entry
        <3> HIDE DEF p, m
        <3>10. AMO!Accept(m)
            <4>1. CASE rpl[i] # Free /\ rpl[i].src # p.src
                <5>1. seen' = (seen \ AMO!From(rpl[i].src)) \cup {m}
                    BY <3>8, <4>1 DEF Remaining, AMO!From, SourceOf
                <5>2. rpl[i].src \in Src \ {SourceOf(m)}
                    BY <3>6, <3>9, <4>1 DEF SourceOf
                <5> HIDE DEF i
                <5> QED BY <3>7, <3>8, <3>11, <5>1, <5>2 DEF AMO!Accept
            <4>2. CASE ~(rpl[i] # Free /\ rpl[i].src # p.src)
                BY <3>7, <3>8, <3>11, <4>2 DEF Remaining, AMO!Accept
            <4> QED BY <4>1, <4>2
        <3> QED BY <3>6, <3>10 DEF AMO!Next
    <2>3. CASE SaveOrDefer
        <3>1. UNCHANGED <<seen, cur>> /\ (RplSaveNow \/ UNCHANGED savedSeen)
            BY <2>3 DEF SaveOrDefer
        <3> QED BY <2>0, <2>1, <3>1 DEF AMO!Next
    <2>4. CASE TakeSave
        <3>1. UNCHANGED <<seen, cur>> /\ (RplSaveNow \/ UNCHANGED savedSeen)
            BY <2>4 DEF TakeSave
        <3> QED BY <2>0, <2>1, <3>1 DEF AMO!Next
    <2>5. CASE SaveForgotten
        BY <2>1, <2>5 DEF SaveForgotten, AMO!Next
    <2>6. CASE TakeForget
        BY <2>0, <2>6 DEF TakeForget, AMO!Next, AMO!ForgetAll
    <2>7. CASE Tick
        <3>1. Silent(now + 1) \in SUBSET Src
            BY DEF Silent
        <3>2. /\ seen' = {m \in seen : SourceOf(m) \notin Silent(now + 1)}
              /\ savedSeen' = savedSeen /\ Handling' = Handling
            BY <2>0, <2>7 DEF Tick, SourceOf
        <3>3. AMO!ForgetSources
            BY <3>1, <3>2 DEF AMO!ForgetSources
        <3> QED BY <3>3 DEF AMO!Next
    <2>8. CASE Reboot
        <3>1. Handling' = None
            BY <2>8 DEF Reboot, Handling
        <3> QED BY <2>8, <3>1 DEF Reboot, AMO!Next, AMO!Reboot
    <2>9. ASSUME NEW p \in PDUs, Hear(p)
          PROVE  UNCHANGED AMO!vars
        BY <2>0, <2>9 DEF Hear
    <2>10. ASSUME NEW kind \in {"ORIG", "FORGET"}, Ask(kind)
           PROVE  UNCHANGED AMO!vars
        BY <2>0, <2>10 DEF Ask
    <2>11. SaveTimer \/ TakeRefused \/ HandlerReturns \/ PumpTakes => UNCHANGED AMO!vars
        BY <2>0 DEF SaveTimer, TakeRefused, HandlerReturns, PumpTakes
    <2>12. CASE Relay
        <3>1. Handling' = None
            BY <2>12 DEF Relay, Handling
        <3> QED BY <2>12, <3>1 DEF Relay, AMO!Next, AMO!PassOn
    <2>13. CASE TakeOriginate
        <3>1. cur = None
            BY <2>13 DEF TakeOriginate, HeadIs, IInv, TypeOK
        <3>2. cur'.src = Self
            BY <2>13 DEF TakeOriginate
        <3> QED BY <2>13, <3>1, <3>2 DEF TakeOriginate, Handling
    <2>14. UNCHANGED vars => UNCHANGED AMO!vars
        BY <2>0 DEF vars
    <2> QED BY <2>2, <2>3, <2>4, <2>5, <2>6, <2>7, <2>8, <2>9, <2>10, <2>11, <2>12, <2>13, <2>14
            DEF Next
<1> QED BY <1>1, <1>2, Invariance, PTL DEF Spec, AcceptsAtMostOnce, AMO!Spec

-----------------------------------------------------------------------------
(* A put leaves the waiting jobs where they are.                           *)
LEMMA PutKeepsSave ==
    ASSUME mesh_q \in Seq(Jobs), NEW job \in Jobs, Put(job)
    PROVE  \A i \in 1 .. Len(mesh_q) : i \in 1 .. Len(mesh_q') /\ mesh_q'[i] = mesh_q[i]
<1>1. mesh_q' = Append(mesh_q, job)
    BY DEF Put
<1>2. /\ Len(mesh_q) \in Nat /\ Len(mesh_q') = Len(mesh_q) + 1
      /\ \A i \in 1 .. Len(mesh_q) : mesh_q'[i] = mesh_q[i]
    BY <1>1, PutJob
<1> QED BY <1>2

(* A take moves the jobs of another kind up by one.                        *)
LEMMA TakeKeepsOthers ==
    ASSUME mesh_q \in Seq(Jobs), NEW kind, HeadIs(kind), mesh_q' = Tail(mesh_q)
    PROVE  \A i \in 1 .. Len(mesh_q) :
              mesh_q[i].kind # kind => i - 1 \in 1 .. Len(mesh_q') /\ mesh_q'[i - 1] = mesh_q[i]
BY HeadJob DEF HeadIs

SaveQueued == \E i \in 1 .. Len(mesh_q) : mesh_q[i].kind = "SAVE"

(* Every action keeps a dirty list covered.                                *)
LEMMA CoveredStep == TypeOK /\ DirtyIsCovered /\ [Next]_vars => DirtyIsCovered'
<1> SUFFICES ASSUME TypeOK, [Next]_vars, DirtyIsCovered,
                    rpl_dirty', stage' \notin {"save", "forget"}, fails' = 0
             PROVE  save_due' # None \/ SaveQueued'
    BY DEF DirtyIsCovered, SaveQueued
<1> USE DEF thread, listVars, flashVars
<1>1. mesh_q \in Seq(Jobs) /\ fails \in Nat
    BY DEF TypeOK
<1>2. ASSUME rpl_dirty, stage \notin {"save", "forget"}, fails = 0
      PROVE  save_due # None \/ SaveQueued
    BY <1>2 DEF DirtyIsCovered, SaveQueued
<1>3. ~RplSaveNow
    <2>1. fails' # fails + 1
        BY <1>1
    <2>2. rpl_dirty' # FALSE
        BY Zenon
    <2> QED BY <2>1, <2>2, Zenon DEF RplSaveNow
<1>4. ASSUME NEW p \in PDUs, Hear(p)
      PROVE  save_due' # None \/ SaveQueued'
    <2>1. [kind |-> "RX", pdu |-> p] \in Jobs /\ Put([kind |-> "RX", pdu |-> p])
        BY <1>4, JobTypes DEF Hear
    <2>2. SaveQueued => SaveQueued'
        <3>1. \A i \in 1 .. Len(mesh_q) : i \in 1 .. Len(mesh_q') /\ mesh_q'[i] = mesh_q[i]
            BY <1>1, <2>1, PutKeepsSave
        <3> QED BY <3>1 DEF SaveQueued
    <2> QED BY <1>2, <1>4, <2>2 DEF Hear
<1>5. ASSUME NEW kind \in {"ORIG", "FORGET"}, Ask(kind)
      PROVE  save_due' # None \/ SaveQueued'
    <2>1. [kind |-> kind] \in Jobs /\ Put([kind |-> kind])
        BY <1>5, JobTypes DEF Ask
    <2>2. SaveQueued => SaveQueued'
        <3>1. \A i \in 1 .. Len(mesh_q) : i \in 1 .. Len(mesh_q') /\ mesh_q'[i] = mesh_q[i]
            BY <1>1, <2>1, PutKeepsSave
        <3> QED BY <3>1 DEF SaveQueued
    <2> QED BY <1>2, <1>5, <2>2 DEF Ask
<1>6. CASE SaveTimer
    <2>1. CASE Len(mesh_q) < Depth
        <3>1. mesh_q' = Append(mesh_q, [kind |-> "SAVE"]) /\ [kind |-> "SAVE"] \in Jobs
            BY <1>6, <2>1, JobTypes DEF SaveTimer
        <3>2. /\ Len(mesh_q) + 1 \in 1 .. Len(mesh_q')
              /\ mesh_q'[Len(mesh_q) + 1].kind = "SAVE"
            BY <1>1, <3>1, PutJob
        <3> QED BY <3>2 DEF SaveQueued
    <2>2. CASE ~(Len(mesh_q) < Depth)
        BY <1>6, <2>2, MeshNodeAssumption DEF SaveTimer, TypeOK
    <2> QED BY <2>1, <2>2
<1>7. CASE TakeRefused
    <2>1. SaveQueued => SaveQueued'
        <3>1. HeadIs("RX") /\ mesh_q' = Tail(mesh_q)
            BY <1>7 DEF TakeRefused
        <3>2. \A i \in 1 .. Len(mesh_q) :
                mesh_q[i].kind # "RX" => i - 1 \in 1 .. Len(mesh_q') /\ mesh_q'[i - 1] = mesh_q[i]
            BY <1>1, <3>1, TakeKeepsOthers
        <3> QED BY <3>2 DEF SaveQueued
    <2> QED BY <1>2, <1>7, <2>1 DEF TakeRefused
<1>8. CASE TakeAccepted
    BY <1>8 DEF TakeAccepted
<1>9. CASE SaveOrDefer
    <2>1. save_due' = IF save_due = None THEN now + SaveMin ELSE save_due
        BY <1>3, <1>9 DEF SaveOrDefer, ScheduleSave
    <2> QED BY <2>1, MeshNodeAssumption DEF TypeOK
<1>10. CASE TakeOriginate
    <2>1. SaveQueued => SaveQueued'
        <3>1. HeadIs("ORIG") /\ mesh_q' = Tail(mesh_q)
            BY <1>10 DEF TakeOriginate
        <3>2. \A i \in 1 .. Len(mesh_q) :
                mesh_q[i].kind # "ORIG" => i - 1 \in 1 .. Len(mesh_q') /\ mesh_q'[i - 1] = mesh_q[i]
            BY <1>1, <3>1, TakeKeepsOthers
        <3> QED BY <3>2 DEF SaveQueued
    <2>2. fails = 0 /\ stage = "idle"
        BY <1>1, <1>10 DEF TakeOriginate, HeadIs
    <2> QED BY <1>2, <1>10, <2>1, <2>2 DEF TakeOriginate
<1>11. CASE TakeSave
    BY <1>3, <1>11 DEF TakeSave
<1>12. CASE TakeForget
    BY <1>12 DEF TakeForget
<1>13. CASE SaveForgotten
    BY <1>3, <1>13 DEF SaveForgotten
<1>14. CASE Relay \/ HandlerReturns \/ PumpTakes
    BY <1>2, <1>14 DEF Relay, HandlerReturns, PumpTakes, SaveQueued
<1>15. CASE Tick \/ UNCHANGED vars
    BY <1>2, <1>15 DEF Tick, vars, SaveQueued
<1>16. CASE Reboot
    BY <1>16 DEF Reboot
<1> QED BY <1>4, <1>5, <1>6, <1>7, <1>8, <1>9, <1>10, <1>11, <1>12, <1>13, <1>14, <1>15, <1>16
        DEF Next

(* Unsaved commits always have a save on its way, a full queue included    *)
(* (mesh_handle_pdu, rpl_save_fn).                                         *)
THEOREM CommitsAreCovered == Spec => []DirtyIsCovered
<1>1. Init => DirtyIsCovered
    BY DEF Init, DirtyIsCovered
<1> QED BY <1>1, CoveredStep, TypeCorrect, PTL DEF Spec

-----------------------------------------------------------------------------
(* The originator's counter, as long as a write of mesh/seq never fails:   *)
(* it is always one past what flash holds, and everything on the air lies  *)
(* behind it, the PDU in hand included.                                    *)
CounterInv ==
    /\ my_seq = ResumeAt(flashSeq)
    /\ Age(my_seq) <= MaxSent
    /\ \A n \in sent : Age(n) < Age(my_seq)
    /\ stage = "relay" /\ cur.src = Self =>
          /\ Age(cur.seq) < Age(my_seq)
          /\ \A n \in sent : Age(n) < Age(cur.seq)
    /\ stage = "save" => cur.src # Self

(* Before the wrap the next number is one older.                           *)
LEMMA NextAge ==
    ASSUME NEW n \in Seqs, Age(n) < MaxSent
    PROVE  Age(n) \in Nat /\ Age(Next1(n)) = Age(n) + 1
BY MeshNodeAssumption, ReplayListAssumption DEF Age, Next1, Since, Seqs, Half

(* Every action keeps the counter ahead of what was sent.                  *)
LEMMA CounterStep ==
    ASSUME "mesh/seq" \notin Faulty
    PROVE  TypeOK /\ CounterInv /\ [Next]_vars => CounterInv'
<1> SUFFICES ASSUME TypeOK, CounterInv, [Next]_vars
             PROVE  CounterInv'
    OBVIOUS
<1> USE DEF thread, listVars, flashVars
<1>1. my_seq \in Seqs /\ sent \subseteq Seqs
    BY DEF TypeOK
<1>2. CASE TakeOriginate
    <2>1. flashSeq' = my_seq /\ my_seq' = Next1(my_seq) /\ sent' = sent
        BY <1>2 DEF TakeOriginate, MayFail
    <2>2. cur' = [src |-> Self, seq |-> my_seq, good |-> TRUE]
        BY <1>2 DEF TakeOriginate
    <2>3. Age(my_seq) < MaxSent /\ Age(my_seq) \in Nat /\ Age(my_seq') = Age(my_seq) + 1
        BY <1>1, <1>2, <2>1, NextAge DEF TakeOriginate
    <2>4. \A n \in sent : Age(n) \in Nat
        BY <1>1, SinceType, MeshNodeAssumption DEF Age
    <2>5. my_seq' = ResumeAt(flashSeq')
        BY <1>1, <2>1, MeshNodeAssumption DEF ResumeAt, Seqs
    <2>6. Age(my_seq') <= MaxSent
        BY <2>3, MeshNodeAssumption
    <2>7. \A n \in sent' : Age(n) < Age(my_seq')
        BY <2>1, <2>3, <2>4 DEF CounterInv
    <2>8. Age(cur'.seq) < Age(my_seq') /\ \A n \in sent' : Age(n) < Age(cur'.seq)
        BY <2>1, <2>2, <2>3 DEF CounterInv
    <2>9. stage' = "relay"
        BY <1>2 DEF TakeOriginate
    <2> QED BY <2>5, <2>6, <2>7, <2>8, <2>9 DEF CounterInv, ResumeAt
<1>3. CASE Relay
    <2>1. sent' = sent \/ (cur.src = Self /\ sent' = sent \cup {cur.seq})
        BY <1>3 DEF Relay
    <2>2. /\ stage' \in {"run", "idle"} /\ my_seq' = my_seq /\ flashSeq' = flashSeq
          /\ stage = "relay"
        BY <1>3 DEF Relay
    <2>3. \A n \in sent' : Age(n) < Age(my_seq)
        BY <2>1, <2>2 DEF CounterInv
    <2> QED BY <2>2, <2>3 DEF CounterInv, ResumeAt
<1>4. CASE Reboot
    <2>1. my_seq' = my_seq /\ stage' = "idle" /\ UNCHANGED <<sent, flashSeq>>
        BY <1>4 DEF Reboot, CounterInv
    <2> QED BY <2>1 DEF CounterInv, ResumeAt
<1>5. CASE SaveOrDefer
    <2>1. stage = "save" /\ UNCHANGED <<cur, my_seq, sent, flashSeq>> /\ stage' = "relay"
        BY <1>5 DEF SaveOrDefer
    <2> QED BY <2>1 DEF CounterInv, ResumeAt
<1>6. CASE TakeAccepted
    <2>1. cur'.src # Self
        BY <1>6 DEF TakeAccepted, Refused
    <2>2. stage' = "save" /\ UNCHANGED <<my_seq, sent, flashSeq>>
        BY <1>6 DEF TakeAccepted
    <2> QED BY <2>1, <2>2 DEF CounterInv, ResumeAt
<1>7. CASE HandlerReturns \/ TakeForget \/ SaveForgotten
    <2>1. /\ stage' \in {"idle", "forget"} /\ my_seq' = my_seq
          /\ sent' = sent /\ flashSeq' = flashSeq
        BY <1>7 DEF HandlerReturns, TakeForget, SaveForgotten
    <2> QED BY <2>1 DEF CounterInv, ResumeAt
<1>8. ASSUME UNCHANGED <<stage, cur, my_seq, sent, flashSeq>>
      PROVE  CounterInv'
    BY <1>8 DEF CounterInv, ResumeAt
<1>9. ASSUME NEW p \in PDUs, Hear(p)
      PROVE  UNCHANGED <<stage, cur, my_seq, sent, flashSeq>>
    BY <1>9 DEF Hear
<1>10. ASSUME NEW kind \in {"ORIG", "FORGET"}, Ask(kind)
       PROVE  UNCHANGED <<stage, cur, my_seq, sent, flashSeq>>
    BY <1>10 DEF Ask
<1>11. SaveTimer \/ TakeRefused \/ TakeSave \/ PumpTakes \/ Tick \/ UNCHANGED vars
         => UNCHANGED <<stage, cur, my_seq, sent, flashSeq>>
    BY DEF SaveTimer, TakeRefused, TakeSave, PumpTakes, Tick, vars
<1> QED BY <1>2, <1>3, <1>4, <1>5, <1>6, <1>7, <1>8, <1>9, <1>10, <1>11 DEF Next

(* Where writes of mesh/seq succeed, no sequence number is put on the air  *)
(* twice, however often the tag resets and at whatever step (next_seq,     *)
(* mesh_settings_set).                                                     *)
THEOREM NumbersAreFresh ==
    ASSUME "mesh/seq" \notin Faulty
    PROVE  Spec => []FreshSeq
<1>1. Init => CounterInv
    <2>1. Age(SeqFirst) = 0
        BY MeshNodeAssumption, ReplayListAssumption DEF Age, Since, Seqs
    <2> QED BY <2>1, MeshNodeAssumption DEF Init, CounterInv, ResumeAt
<1>2. TypeOK /\ CounterInv => FreshSeq
    <2> SUFFICES ASSUME TypeOK, CounterInv
                 PROVE  FreshSeq
        OBVIOUS
    <2>1. \A n \in sent : Age(n) < Age(my_seq) /\ Age(n) \in Nat
        BY SinceType, MeshNodeAssumption DEF TypeOK, CounterInv, Age
    <2>2. my_seq \notin sent /\ ResumeAt(flashSeq) \notin sent
        BY <2>1 DEF CounterInv
    <2>3. ASSUME stage = "relay", cur.src = Self
          PROVE  cur.seq \notin sent
        <3>1. \A n \in sent : Age(n) < Age(cur.seq) /\ Age(n) \in Nat
            BY <2>1, <2>3 DEF CounterInv
        <3> QED BY <3>1
    <2> QED BY <2>2, <2>3 DEF FreshSeq
<1> QED BY <1>1, <1>2, CounterStep, TypeCorrect, PTL DEF Spec
=============================================================================
