---------------------------- MODULE StreamCodec ----------------------------
(***************************************************************************)
(* The bytes of a video stream (src/app/commands.c): what one byte does to *)
(* the decoder and to the frame buffer, and, as the reference it is held   *)
(* against, how lut_tester_host builds a frame and what a half-resolution  *)
(* plane looks like pixel by pixel.                                        *)
(*                                                                         *)
(* A plane is a function from its byte offsets to bytes.  The panel has    *)
(* Rows gate lines of Stride bytes.                                        *)
(***************************************************************************)
EXTENDS Integers, Sequences

CONSTANTS Stride, Rows

ASSUME StreamCodecAssumption ==
    /\ Stride \in Nat \ {0} /\ Stride % 2 = 0
    /\ Rows \in Nat \ {0} /\ Rows % 2 = 0
    /\ 4 * Stride * Rows <= 65535     \* a packed frame's length has 16 bits

Byte == 0 .. 255

(* UINT16_MAX, and what a uint16_t holds.                                  *)
WordMax == 65535

Word == 0 .. WordMax

(* vs_fb, the bytes of one plane, and the planes.                          *)
Size == Stride * Rows

Cells == 0 .. Size - 1

Plane == [Cells -> Byte]

Planes == [bw : Plane, red : Plane]

White == [c \in Cells |-> 255]

(***************************************************************************)
(* Exclusive or, by nibbles.                                               *)
(***************************************************************************)
XorNibble == [p \in (0 .. 15) \X (0 .. 15) |->
    LET bit(k) == ((p[1] \div k + p[2] \div k) % 2) * k
    IN bit(1) + bit(2) + bit(4) + bit(8)]

Xor(a, b) == 16 * XorNibble[<<a \div 16, b \div 16>>] + XorNibble[<<a % 16, b % 16>>]

Xor16(a, b) == 256 * Xor(a \div 256, b \div 256) + Xor(a % 256, b % 256)

(***************************************************************************)
(* CRC-16/CCITT-FALSE.  An entry of vs_crc16_nib is the polynomial times   *)
(* its index: the three copies of a nibble do not overlap.                 *)
(***************************************************************************)
CrcStart == WordMax

CrcNibble(crc, n) == Xor16((crc * 16) % 65536, 4129 * XorNibble[<<crc \div 4096, n>>])

Crc16(crc, b) == CrcNibble(CrcNibble(crc, b \div 16), b % 16)

(***************************************************************************)
(* The protocol's constants.                                               *)
(***************************************************************************)
HDR1 == 170
HDR2 == 85
FLUSH == 187
STOP1 == 204
VIDEO_STOP2 == 221
PHOTO_STOP2 == 222
CRC_FLAG == 64
HALF_FLAG == 32

RAW == 0
RLE == 1
DRLE == 2
RAW2 == 3
RLE2 == 4
DRLE2 == 5

IsDual(type) == type \in {RAW2, RLE2, DRLE2}
IsRaw(type) == type \in {RAW, RAW2}
IsDelta(type) == type \in {DRLE, DRLE2}

(***************************************************************************)
(* The decoder: `at' is vs_state, `mode', `count' and `val' are vs_rle.    *)
(* The rows a delta touched are y0 .. y1, none if y1 < y0.                 *)
(***************************************************************************)
States == {"IDLE", "HDR2_WAIT", "TYPE_RD", "LEN_HI", "LEN_LO", "DATA", "CRC_HI", "CRC_LO",
           "FLUSH_WAIT", "STOP2_WAIT"}

Decoder == [at : States, type : 0 .. 31, has_crc : BOOLEAN, half : BOOLEAN,
            plen : Word, prx : Word, dec : 0 .. 2 * Size,
            mode : {"ctrl", "literal", "first", "repeat"}, count : 0 .. 128, val : Byte,
            crc : Word, crc_rx : Word, y0 : 0 .. Rows, y1 : -1 .. Rows - 1]

(* vs_reset_frame.                                                         *)
ResetFrame(d) ==
    [d EXCEPT !.prx = 0, !.dec = 0, !.y0 = Rows, !.y1 = -1, !.mode = "ctrl", !.count = 0,
              !.val = 0, !.crc = CrcStart, !.crc_rx = 0]

Blank == ResetFrame([at |-> "IDLE", type |-> RAW, has_crc |-> FALSE, half |-> FALSE,
                     plen |-> 0, prx |-> 0, dec |-> 0, mode |-> "ctrl", count |-> 0,
                     val |-> 0, crc |-> 0, crc_rx |-> 0, y0 |-> Rows, y1 |-> -1])

(* vs_plane_bytes, and what a frame may decode to.                         *)
PlaneBytes(d) == IF d.half THEN Size \div 4 ELSE Size

MaxDec(d) == IF IsDual(d.type) THEN 2 * PlaneBytes(d) ELSE PlaneBytes(d)

(* vs_nib_dbl: every bit of the nibble twice.                              *)
DoubleNibble(n) ==
    LET bit(k) == ((n \div k) % 2) * 3 * k * k IN bit(1) + bit(2) + bit(4) + bit(8)

(* Where the byte at offset `off' of a wire plane lands in the panel's: at  *)
(* the same place, or as a block of two by two.                            *)
Places(half, off) ==
    IF ~half THEN {off}
    ELSE LET hstride == Stride \div 2
             left == (2 * (off \div hstride)) * Stride + 2 * (off % hstride)
         IN {left, left + 1, left + Stride, left + Stride + 1}

(* What it is worth there.                                                 *)
Part(half, c, b) ==
    IF ~half THEN b ELSE DoubleNibble(IF c % 2 = 0 THEN b \div 16 ELSE b % 16)

Lower(a, b) == IF a < b THEN a ELSE b
Upper(a, b) == IF a > b THEN a ELSE b

(* Slip: a doubled byte marks the upper row only.                          *)
MarkUpper(d, cells) ==
    LET rows == {c \div Stride : c \in cells}
        top == CHOOSE r \in rows : \A s \in rows : r <= s
        bottom == CHOOSE r \in rows : \A s \in rows : r >= s
    IN [d EXCEPT !.y0 = Lower(@, top), !.y1 = Upper(@, IF d.half THEN bottom - 1 ELSE bottom)]

(* vs_mark_dirty, for every row of some cells.                             *)
MarkDirty(d, cells) ==
    LET rows == {c \div Stride : c \in cells}
        top == CHOOSE r \in rows : \A s \in rows : r <= s
        bottom == CHOOSE r \in rows : \A s \in rows : r >= s
    IN [d EXCEPT !.y0 = Lower(@, top), !.y1 = Upper(@, bottom)]

(* A decoder together with the frame buffer it writes.                     *)
With(d, fb) == [d |-> d, fb |-> fb]

(* The cells of plane p that the next n decoded bytes land in.             *)
Reached(d, n, p) ==
    LET plane == PlaneBytes(d)
        coming == {o \in d.dec .. d.dec + n - 1 : p = IF o < plane THEN "bw" ELSE "red"}
    IN UNION {Places(d.half, o % plane) : o \in coming}

(* vs_write_byte, n times over with the same byte: past the end of the     *)
(* frame nothing is written.  No cell is reached twice, so that the bytes  *)
(* may land together.                                                      *)
Write(s, n, b) ==
    LET d == s.d
        m == Lower(n, MaxDec(d) - d.dec)
        cells == [p \in {"bw", "red"} |-> Reached(d, m, p)]
        marks == IsDelta(d.type) /\ b # 0 /\ m > 0
    IN [d |-> [(IF marks THEN MarkDirty(d, cells["bw"] \cup cells["red"]) ELSE d)
                  EXCEPT !.dec = @ + m],
        fb |-> [p \in {"bw", "red"} |-> [c \in Cells |->
                   LET old == s.fb[p][c]
                       new == Part(d.half, c, b)
                   IN IF c \notin cells[p] THEN old
                      ELSE IF IsDelta(d.type) THEN Xor(old, new) ELSE new]]]

(* The pending bytes of a run, before the next byte is looked at.          *)
DrainRun(s) ==
    IF s.d.mode # "repeat" THEN s
    ELSE LET t == Write(s, s.d.count, s.d.val)
         IN With([t.d EXCEPT !.mode = "ctrl", !.count = 0], t.fb)

(* A byte of a literal or the first of a run has been written.             *)
CountDown(s, next) ==
    With([s.d EXCEPT !.count = @ - 1, !.mode = IF s.d.count = 1 THEN "ctrl" ELSE next], s.fb)

(* vs_rle_feed.                                                            *)
RleFeed(s, b) ==
    LET t == DrainRun(s)
    IN CASE t.d.mode = "ctrl" ->
              With([t.d EXCEPT !.count = (b % 128) + 1,
                               !.mode = IF b >= 128 THEN "first" ELSE "literal"], t.fb)
         [] t.d.mode = "literal" -> CountDown(Write(t, 1, b), "literal")
         [] t.d.mode = "first" ->
              CountDown(Write(With([t.d EXCEPT !.val = b], t.fb), 1, b), "repeat")

(* The part of vs_flush_frame that decodes: the run at the end.            *)
DrainAtEnd(s) == IF IsRaw(s.d.type) THEN s ELSE DrainRun(s)

AfterPayload(d) == IF d.has_crc THEN "CRC_HI" ELSE "FLUSH_WAIT"

(* The data state of vs_process_byte.                                      *)
Data(s, b) ==
    LET fed == With([s.d EXCEPT !.prx = @ + 1, !.crc = Crc16(@, b)], s.fb)
        t == IF IsRaw(s.d.type) THEN Write(fed, 1, b) ELSE RleFeed(fed, b)
    IN With([t.d EXCEPT !.at = IF t.d.prx >= t.d.plen THEN AfterPayload(t.d) ELSE "DATA"], t.fb)

(* The header states.                                                      *)
Header(d, b) ==
    CASE d.at = "IDLE" ->
           [d EXCEPT !.at = CASE b = HDR1 -> "HDR2_WAIT"
                              [] b = STOP1 -> "STOP2_WAIT"
                              [] OTHER -> "IDLE"]
      [] d.at = "HDR2_WAIT" -> [d EXCEPT !.at = IF b = HDR2 THEN "TYPE_RD" ELSE "IDLE"]
      [] d.at = "TYPE_RD" ->
           [d EXCEPT !.has_crc = (b \div CRC_FLAG) % 2 = 1,
                     !.half = (b \div HALF_FLAG) % 2 = 1,
                     !.type = b % HALF_FLAG,
                     !.at = IF b % HALF_FLAG <= DRLE2 THEN "LEN_HI" ELSE "IDLE"]
      [] d.at = "LEN_HI" -> [d EXCEPT !.plen = b * 256, !.at = "LEN_LO"]
      [] d.at = "LEN_LO" ->
           LET t == ResetFrame([d EXCEPT !.plen = @ + b])
           IN [t EXCEPT !.at = IF t.plen > 0 THEN "DATA" ELSE AfterPayload(t)]
      [] d.at = "CRC_HI" -> [d EXCEPT !.crc_rx = b * 256, !.at = "CRC_LO"]
      [] d.at = "CRC_LO" -> [d EXCEPT !.crc_rx = @ + b, !.at = "FLUSH_WAIT"]

(***************************************************************************)
(* The reference: how the host packs a frame.  PackBits is an encoder      *)
(* whose output unpacks to its input; packbits_encode takes runs of three  *)
(* and more, literals otherwise.  Packed is what it makes of the data from *)
(* each place on.                                                          *)
(***************************************************************************)
RunFrom(data, i) ==
    CHOOSE n \in 1 .. Lower(Len(data) - i + 1, 128) :
        /\ \A k \in i .. i + n - 1 : data[k] = data[i]
        /\ \/ n = Lower(Len(data) - i + 1, 128)
           \/ data[i + n] # data[i]

LiteralFrom(data, i) ==
    CHOOSE n \in 1 .. Lower(Len(data) - i + 1, 128) :
        /\ \A k \in i .. i + n - 1 : RunFrom(data, k) < 3
        /\ \/ n = Lower(Len(data) - i + 1, 128)
           \/ RunFrom(data, i + n) >= 3

Packed(data) ==
    LET pack[i \in 1 .. Len(data) + 1] ==
            IF i > Len(data) THEN <<>>
            ELSE LET run == RunFrom(data, i)
                     lit == LiteralFrom(data, i)
                 IN IF run >= 3 THEN <<run - 1 + 128, data[i]>> \o pack[i + run]
                    ELSE <<lit - 1>> \o SubSeq(data, i, i + lit - 1) \o pack[i + lit]
    IN pack

PackBits(data) == Packed(data)[1]

(* The checksum of the first i bytes, and of all.                          *)
CrcUpTo(payload) ==
    LET crc[i \in 0 .. Len(payload)] == IF i = 0 THEN CrcStart ELSE Crc16(crc[i - 1], payload[i])
    IN crc

CrcOf(payload) == CrcUpTo(payload)[Len(payload)]

(* vs_wrap.                                                                *)
Wrap(type, half, crc, payload) ==
    <<HDR1, HDR2, type + (IF half THEN HALF_FLAG ELSE 0) + (IF crc THEN CRC_FLAG ELSE 0),
      Len(payload) \div 256, Len(payload) % 256>>
    \o payload
    \o (IF crc THEN <<CrcOf(payload) \div 256, CrcOf(payload) % 256>> ELSE <<>>)
    \o <<FLUSH>>

(* encode_frame: a wire frame is a sequence of bytes, one plane or two.    *)
Encode(type, half, crc, frame, prev) ==
    Wrap(type, half, crc,
         CASE IsRaw(type) -> frame
           [] type \in {RLE, RLE2} -> PackBits(frame)
           [] IsDelta(type) -> PackBits([i \in 1 .. Len(frame) |-> Xor(frame[i], prev[i])]))

(* The pixel at column x of row y, black or white, of a plane whose rows   *)
(* are `stride' bytes.                                                     *)
Mask(x) == <<128, 64, 32, 16, 8, 4, 2, 1>>[x + 1]

Pixel(bytes, stride, x, y) == (bytes[y * stride + x \div 8] \div Mask(x % 8)) % 2

(* The plane a sequence of wire bytes stands for: itself, or every pixel   *)
(* of it as a block of two by two.                                         *)
Meant(wire, half) ==
    LET h == [c \in 0 .. Len(wire) - 1 |-> wire[c + 1]]
        doubled(c, k) == Pixel(h, Stride \div 2, ((c % Stride) * 8 + k) \div 2, (c \div Stride) \div 2)
    IN IF ~half THEN h
       ELSE [c \in Cells |->
                LET bit(k) == doubled(c, k) * Mask(k)
                IN bit(0) + bit(1) + bit(2) + bit(3) + bit(4) + bit(5) + bit(6) + bit(7)]
=============================================================================
