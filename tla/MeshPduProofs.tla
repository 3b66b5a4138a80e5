---------------------------- MODULE MeshPduProofs ----------------------------
(***************************************************************************)
(* The codec of the mesh keeps what it is given, for every key, code and   *)
(* payload that fits.                                                      *)
(***************************************************************************)
EXTENDS MeshPdu, TLAPS

(* What one sequence after the other is.                                   *)
LEMMA Concat ==
    ASSUME NEW S, NEW a \in Seq(S), NEW b \in Seq(S)
    PROVE  /\ a \o b \in Seq(S) /\ Len(a) \in Nat /\ Len(b) \in Nat
           /\ Len(a \o b) = Len(a) + Len(b)
           /\ \A i \in 1 .. Len(a) : (a \o b)[i] = a[i]
           /\ \A i \in 1 .. Len(b) : (a \o b)[Len(a) + i] = b[i]
OBVIOUS

(* A byte on its own.                                                      *)
LEMMA Single ==
    ASSUME NEW S, NEW x \in S
    PROVE  <<x>> \in Seq(S) /\ Len(<<x>>) = 1 /\ <<x>>[1] = x
OBVIOUS

(* Four bytes in a row.                                                    *)
LEMMA Four ==
    ASSUME NEW S, NEW a \in S, NEW b \in S, NEW c \in S, NEW d \in S
    PROVE  /\ <<a, b, c, d>> \in Seq(S) /\ Len(<<a, b, c, d>>) = 4
           /\ <<a, b, c, d>>[1] = a /\ <<a, b, c, d>>[2] = b
           /\ <<a, b, c, d>>[3] = c /\ <<a, b, c, d>>[4] = d
OBVIOUS

(* A sequence is the bytes it consists of.                                 *)
LEMMA WholeBytes ==
    ASSUME NEW s \in Seq(Byte), NEW t, NEW from \in Nat, NEW n,
           n = Len(s), \A i \in 1 .. Len(s) : t[from + i] = s[i]
    PROVE  Bytes(t, from, n) = s
<1>1. s = [i \in 1 .. Len(s) |-> s[i]]
    OBVIOUS
<1>2. Bytes(t, from, n) = [i \in 1 .. Len(s) |-> t[from + i]]
    BY DEF Bytes
<1> QED BY <1>1, <1>2

(* A sequence is a function on its indices, and the other way round.       *)
LEMMA AsFunction ==
    ASSUME NEW s \in Seq(Byte), NEW n, n = Len(s)
    PROVE  n \in Nat /\ s = [i \in 1 .. n |-> s[i]]
OBVIOUS

(* A function on the first numbers is a sequence.                          *)
LEMMA AsSequence ==
    ASSUME NEW n \in Nat, NEW s, s = [i \in 1 .. n |-> s[i]], \A i \in 1 .. n : s[i] \in Byte
    PROVE  s \in Seq(Byte) /\ Len(s) = n
OBVIOUS

(* mesh_pdu_dst_len never exceeds three.                                   *)
LEMMA DstLenType ==
    ASSUME NEW type
    PROVE  DstLen(type) \in 0 .. 3 /\ MaxPayload(type) \in 11 .. 14
           /\ MaxPayload(type) + DstLen(type) = 14
BY DEF DstLen, MaxPayload, PduMax, HdrMin, MacLen

(* A number is its low and its high byte.                                  *)
LEMMA Halves ==
    ASSUME NEW n \in 0 .. SeqMax
    PROVE  n % 256 \in Byte /\ n \div 256 \in Byte /\ (n % 256) + 256 * (n \div 256) = n
<1>1. n \in Nat /\ n < 65536
    BY SMT DEF SeqMax
<1>2. n % 256 \in 0 .. 255 /\ n \div 256 \in Nat /\ n \div 256 < 256
    BY <1>1, SMT
<1>3. (n % 256) + 256 * (n \div 256) = n
    BY <1>1, SMT
<1> QED BY <1>2, <1>3, SMT DEF Byte

(* A TTL is the low nibble of a byte whose high one is the version.        *)
LEMMA Nibble ==
    ASSUME NEW t \in 0 .. 15
    PROVE  Version * 16 + (t % 16) = t /\ t \in Byte /\ t % 16 = t
BY SMT DEF Version, Byte

(* What mesh_originate accepts, field by field.                            *)
LEMMA SendableParts ==
    ASSUME NEW f, Sendable(f)
    PROVE  /\ f.ttl \in 0 .. 15 /\ f.seq \in 0 .. SeqMax
           /\ f.src \in Seq(Byte) /\ Len(f.src) = 3
           /\ f.type \in Byte /\ f.dst \in Seq(Byte) /\ Len(f.dst) = DstLen(f.type)
           /\ f.opcode \in Byte /\ f.payload \in Seq(Byte) /\ Len(f.payload) <= MaxPayload(f.type)
BY SMT DEF Sendable

(* Where mesh_pdu_build puts what.                                         *)
LEMMA BodyBytes ==
    ASSUME NEW f, Sendable(f)
    PROVE  LET b == Body(f)
               dl == DstLen(f.type)
           IN  /\ b \in Seq(Byte) /\ Len(f.payload) \in Nat
               /\ Len(b) = HdrMin + dl + 1 + Len(f.payload)
               /\ b[1] = Magic /\ b[2] = f.ttl /\ b[3] = f.seq % 256 /\ b[4] = f.seq \div 256
               /\ \A i \in 1 .. 3 : b[4 + i] = f.src[i]
               /\ b[8] = f.type
               /\ \A i \in 1 .. dl : b[HdrMin + i] = f.dst[i]
               /\ b[HdrMin + dl + 1] = f.opcode
               /\ \A i \in 1 .. Len(f.payload) : b[HdrMin + dl + 1 + i] = f.payload[i]
<1> DEFINE first == <<Magic, Version * 16 + (f.ttl % 16), f.seq % 256, f.seq \div 256>>
           dl == DstLen(f.type)
           type == <<f.type>>
           opcode == <<f.opcode>>
           two == first \o f.src
           head == two \o type
           addressed == head \o f.dst
           commanded == addressed \o opcode
           b == commanded \o f.payload
<1>1. f.src \in Seq(Byte) /\ f.dst \in Seq(Byte) /\ f.payload \in Seq(Byte)
    BY SendableParts
<1>2. dl \in 0 .. 3 /\ Len(f.dst) = dl /\ Len(f.src) = 3 /\ Len(f.payload) \in Nat
    <2>1. Len(f.dst) = dl /\ Len(f.src) = 3
        BY SendableParts
    <2>2. Len(f.payload) \in Nat
        BY <1>1
    <2> QED BY <2>1, <2>2, DstLenType
<1>3. first \in Seq(Byte) /\ Len(first) = 4 /\ first[1] = Magic /\ first[2] = f.ttl
      /\ first[3] = f.seq % 256 /\ first[4] = f.seq \div 256
    <2>1. f.ttl \in 0 .. 15 /\ f.seq \in 0 .. SeqMax
        BY SendableParts
    <2>2. Version * 16 + (f.ttl % 16) = f.ttl /\ f.ttl \in Byte
        BY <2>1, Nibble
    <2>3. f.seq % 256 \in Byte /\ f.seq \div 256 \in Byte
        BY <2>1, Halves
    <2>4. Magic \in Byte
        BY DEF Byte, Magic
    <2> QED BY <2>2, <2>3, <2>4, Four
<1>4. type \in Seq(Byte) /\ Len(type) = 1 /\ type[1] = f.type
    <2>1. f.type \in Byte
        BY SendableParts
    <2> QED BY <2>1, Single
<1>5. opcode \in Seq(Byte) /\ Len(opcode) = 1 /\ opcode[1] = f.opcode
    <2>1. f.opcode \in Byte
        BY SendableParts
    <2> QED BY <2>1, Single
<1>6. b = Body(f)
    BY DEF Body, Header
<1> HIDE DEF first, type, opcode, two, head, addressed, commanded, b, dl
<1>7. first \in Seq(Byte) /\ type \in Seq(Byte) /\ opcode \in Seq(Byte)
    BY <1>3, <1>4, <1>5
<1>8. two \in Seq(Byte) /\ Len(two) = Len(first) + Len(f.src)
      /\ (\A i \in 1 .. Len(first) : two[i] = first[i])
      /\ \A i \in 1 .. Len(f.src) : two[Len(first) + i] = f.src[i]
    BY <1>1, <1>7, Concat DEF two
<1>9. head \in Seq(Byte) /\ Len(head) = Len(two) + Len(type)
      /\ (\A i \in 1 .. Len(two) : head[i] = two[i])
      /\ \A i \in 1 .. Len(type) : head[Len(two) + i] = type[i]
    <2>1. two \in Seq(Byte)
        BY <1>8
    <2> QED BY <1>7, <2>1, Concat DEF head
<1>10. addressed \in Seq(Byte) /\ Len(addressed) = Len(head) + Len(f.dst)
      /\ (\A i \in 1 .. Len(head) : addressed[i] = head[i])
      /\ \A i \in 1 .. Len(f.dst) : addressed[Len(head) + i] = f.dst[i]
    <2>1. head \in Seq(Byte)
        BY <1>9
    <2> QED BY <1>1, <2>1, Concat DEF addressed
<1>11. commanded \in Seq(Byte) /\ Len(commanded) = Len(addressed) + Len(opcode)
      /\ (\A i \in 1 .. Len(addressed) : commanded[i] = addressed[i])
      /\ \A i \in 1 .. Len(opcode) : commanded[Len(addressed) + i] = opcode[i]
    <2>1. addressed \in Seq(Byte)
        BY <1>10
    <2> QED BY <1>7, <2>1, Concat DEF commanded
<1>12. b \in Seq(Byte) /\ Len(b) = Len(commanded) + Len(f.payload)
      /\ (\A i \in 1 .. Len(commanded) : b[i] = commanded[i])
      /\ \A i \in 1 .. Len(f.payload) : b[Len(commanded) + i] = f.payload[i]
    <2>1. commanded \in Seq(Byte)
        BY <1>11
    <2> QED BY <1>1, <2>1, Concat DEF b
<1>13. Len(two) = 7 /\ two[1] = first[1] /\ two[2] = first[2] /\ two[3] = first[3] /\ two[4] = first[4]
      /\ \A i \in 1 .. 3 : two[4 + i] = f.src[i]
    BY <1>2, <1>3, <1>8
<1>14. Len(head) = 8 /\ (\A i \in 1 .. 7 : head[i] = two[i]) /\ head[8] = f.type
    BY <1>4, <1>9, <1>13
<1>15. Len(addressed) = 8 + dl /\ (\A i \in 1 .. 8 : addressed[i] = head[i])
      /\ \A i \in 1 .. dl : addressed[8 + i] = f.dst[i]
    BY <1>2, <1>10, <1>14
<1>16. Len(commanded) = 8 + dl + 1 /\ (\A i \in 1 .. 8 + dl : commanded[i] = addressed[i])
      /\ commanded[8 + dl + 1] = f.opcode
    BY <1>2, <1>5, <1>11, <1>15
<1>17. Len(b) = 8 + dl + 1 + Len(f.payload) /\ (\A i \in 1 .. 8 + dl + 1 : b[i] = commanded[i])
      /\ \A i \in 1 .. Len(f.payload) : b[8 + dl + 1 + i] = f.payload[i]
    BY <1>2, <1>12, <1>16
<1>18. \A i \in 1 .. 8 : b[i] = head[i]
    <2> SUFFICES ASSUME NEW i \in 1 .. 8 PROVE b[i] = head[i]
        OBVIOUS
    <2>1. i \in 1 .. 8 + dl /\ i \in 1 .. 8 + dl + 1
        BY <1>2
    <2>2. b[i] = commanded[i]
        BY <1>17, <2>1
    <2>3. commanded[i] = addressed[i]
        BY <1>16, <2>1
    <2> QED BY <1>15, <2>2, <2>3
<1>19. \A i \in 1 .. dl : b[8 + i] = f.dst[i]
    <2> SUFFICES ASSUME NEW i \in 1 .. dl PROVE b[8 + i] = f.dst[i]
        OBVIOUS
    <2>1. 8 + i \in 1 .. 8 + dl /\ 8 + i \in 1 .. 8 + dl + 1
        BY <1>2
    <2>2. b[8 + i] = commanded[8 + i]
        BY <1>17, <2>1
    <2>3. commanded[8 + i] = addressed[8 + i]
        BY <1>16, <2>1
    <2>4. addressed[8 + i] = f.dst[i]
        BY <1>15
    <2> QED BY <2>2, <2>3, <2>4
<1>20. b[8 + dl + 1] = f.opcode
    <2>1. 8 + dl + 1 \in 1 .. 8 + dl + 1
        BY <1>2
    <2>2. b[8 + dl + 1] = commanded[8 + dl + 1]
        BY <1>17, <2>1
    <2> QED BY <1>16, <2>2
<1>21. \A i \in 1 .. 3 : b[4 + i] = f.src[i]
    BY <1>13, <1>14, <1>18
<1>22. b[1] = Magic /\ b[2] = f.ttl /\ b[3] = f.seq % 256 /\ b[4] = f.seq \div 256 /\ b[8] = f.type
    BY <1>3, <1>13, <1>14, <1>18
<1>23. b \in Seq(Byte) /\ Len(f.payload) \in Nat
    BY <1>2, <1>12
<1> QED BY <1>6, <1>17, <1>19, <1>20, <1>21, <1>22, <1>23 DEF dl, HdrMin

(* The code at the end moves nothing of what precedes it.                  *)
LEMMA SignedBytes ==
    ASSUME NEW b \in Seq(Byte), NEW key
    PROVE  LET p == b \o Mac(b, key)
           IN  /\ Len(p) = Len(b) + MacLen /\ SignedPart(p) = b
               /\ \A i \in 1 .. Len(b) : p[i] = b[i]
               /\ Bytes(p, Len(b), MacLen) = Mac(b, key)
<1> DEFINE c == Mac(b, key)
           S == Byte \cup {c[i] : i \in 1 .. 4}
           p == b \o c
<1>1. c = [i \in 1 .. 4 |-> c[i]] /\ Len(c) = 4 /\ c \in Seq(S)
    <2>1. c = [i \in 1 .. 4 |-> Cmac(key, SetTtl(b, 0))[0 + i]]
        BY DEF Mac, Bytes, MacLen
    <2> QED BY <2>1
<1>2. b \in Seq(S)
    OBVIOUS
<1> HIDE DEF c, S, p
<1>3. Len(p) = Len(b) + Len(c) /\ (\A i \in 1 .. Len(b) : p[i] = b[i])
      /\ (\A i \in 1 .. Len(c) : p[Len(b) + i] = c[i]) /\ Len(b) \in Nat
    BY <1>1, <1>2, Concat DEF p
<1>4. Len(p) = Len(b) + 4
    BY <1>1, <1>3
<1>5. Len(p) - 4 = Len(b)
    BY <1>3, <1>4
<1>6. SignedPart(p) = b
    <2>1. SignedPart(p) = Bytes(p, 0, Len(b))
        BY <1>5 DEF SignedPart, MacLen
    <2> QED BY <1>3, <2>1, WholeBytes
<1>7. Bytes(p, Len(b), 4) = c
    <2>1. Bytes(p, Len(b), 4) = [i \in 1 .. 4 |-> p[Len(b) + i]]
        BY DEF Bytes
    <2>2. \A i \in 1 .. 4 : p[Len(b) + i] = c[i]
        BY <1>1, <1>3
    <2> QED BY <1>1, <2>1, <2>2
<1> QED BY <1>3, <1>4, <1>6, <1>7 DEF p, c, MacLen

(* What mesh_pdu_build makes, mesh_pdu_parse accepts and reads back field  *)
(* by field, and mesh_pdu_verify trusts under the same key.                *)
THEOREM BuiltIsRead ==
    ASSUME NEW f, NEW key, Sendable(f)
    PROVE  LET p == Build(f, key)
           IN  /\ Verify(p, key)
               /\ View(p) = [ttl |-> f.ttl, seq |-> f.seq, src |-> f.src, type |-> f.type,
                             dst |-> f.dst, opcode |-> f.opcode, payload |-> f.payload]
<1> DEFINE b == Body(f)
           p == Build(f, key)
           dl == DstLen(f.type)
           n == Len(f.payload)
<1>1. /\ b \in Seq(Byte) /\ n \in Nat /\ Len(b) = 8 + dl + 1 + n
      /\ b[1] = Magic /\ b[2] = f.ttl /\ b[3] = f.seq % 256 /\ b[4] = f.seq \div 256
      /\ (\A i \in 1 .. 3 : b[4 + i] = f.src[i])
      /\ b[8] = f.type
      /\ (\A i \in 1 .. dl : b[8 + i] = f.dst[i])
      /\ b[8 + dl + 1] = f.opcode
      /\ \A i \in 1 .. n : b[8 + dl + 1 + i] = f.payload[i]
    BY BodyBytes DEF HdrMin
<1>2. p = b \o Mac(b, key)
    BY DEF Build
<1> HIDE DEF b, p
<1>3. /\ Len(p) = Len(b) + 4 /\ SignedPart(p) = b
      /\ (\A i \in 1 .. Len(b) : p[i] = b[i])
      /\ Bytes(p, Len(b), 4) = Mac(b, key)
    <2>1. b \in Seq(Byte)
        BY <1>1
    <2> QED BY <1>2, <2>1, SignedBytes DEF MacLen
<1>4. /\ f.ttl \in 0 .. 15 /\ f.seq \in 0 .. SeqMax
      /\ f.src \in Seq(Byte) /\ f.dst \in Seq(Byte) /\ f.payload \in Seq(Byte)
      /\ Len(f.src) = 3 /\ Len(f.dst) = dl /\ n <= MaxPayload(f.type)
    BY SendableParts
<1>5. dl \in 0 .. 3 /\ n + dl <= 14
    <2>1. n \in Nat /\ n <= MaxPayload(f.type)
        BY <1>1, <1>4
    <2> HIDE DEF n
    <2> QED BY <2>1, DstLenType
<1> HIDE DEF dl, n
<1>6. Len(p) = 8 + dl + 1 + n + 4 /\ Len(p) - 4 = Len(b) /\ Len(p) - 8 - dl - 1 - 4 = n
      /\ Len(p) \in 13 .. 27 /\ 8 + dl + 1 + 4 <= Len(p)
    <2>1. Len(p) = 8 + dl + 1 + n + 4 /\ Len(b) = 8 + dl + 1 + n
        BY <1>1, <1>3, <1>5
    <2> QED BY <2>1, <1>1, <1>5
<1>7. \A i \in 1 .. 8 + dl + 1 + n : p[i] = b[i]
    BY <1>1, <1>3
<1>8. p[1] = Magic /\ p[2] = f.ttl /\ p[3] = f.seq % 256 /\ p[4] = f.seq \div 256 /\ p[8] = f.type
    <2>1. 1 .. 8 \subseteq 1 .. 8 + dl + 1 + n
        BY <1>1, <1>5
    <2> QED BY <1>1, <1>7, <2>1
<1>9. \A i \in 1 .. 3 : p[4 + i] = f.src[i]
    <2> SUFFICES ASSUME NEW i \in 1 .. 3 PROVE p[4 + i] = f.src[i]
        OBVIOUS
    <2>1. 4 + i \in 1 .. 8 + dl + 1 + n
        <3>1. n \in Nat /\ dl \in 0 .. 3
            BY <1>1, <1>5
        <3> QED BY <3>1
    <2> QED BY <1>1, <1>7, <2>1
<1>10. \A i \in 1 .. dl : p[8 + i] = f.dst[i]
    <2> SUFFICES ASSUME NEW i \in 1 .. dl PROVE p[8 + i] = f.dst[i]
        OBVIOUS
    <2>1. 8 + i \in 1 .. 8 + dl + 1 + n
        <3>1. n \in Nat /\ dl \in 0 .. 3 /\ i \in 1 .. dl
            BY <1>1, <1>5
        <3> QED BY <3>1
    <2> QED BY <1>1, <1>7, <2>1
<1>11. p[8 + dl + 1] = f.opcode
    <2>1. 8 + dl + 1 \in 1 .. 8 + dl + 1 + n
        <3>1. n \in Nat /\ dl \in 0 .. 3
            BY <1>1, <1>5
        <3> QED BY <3>1
    <2> QED BY <1>1, <1>7, <2>1
<1>12. \A i \in 1 .. n : p[8 + dl + 1 + i] = f.payload[i]
    <2> SUFFICES ASSUME NEW i \in 1 .. n PROVE p[8 + dl + 1 + i] = f.payload[i]
        OBVIOUS
    <2>1. 8 + dl + 1 + i \in 1 .. 8 + dl + 1 + n
        <3>1. n \in Nat /\ dl \in 0 .. 3 /\ i \in 1 .. n
            BY <1>1, <1>5
        <3> QED BY <3>1
    <2> QED BY <1>1, <1>7, <2>1
<1>13. DstLen(p[8]) = dl
    BY <1>8 DEF dl
<1>14. WellFormed(p)
    BY <1>6, <1>8, <1>13 DEF WellFormed, HdrMin, MacLen, PduMax
<1>15. Verify(p, key)
    <2>1. Bytes(p, Len(p) - MacLen, MacLen) = Mac(SignedPart(p), key)
        BY <1>3, <1>6 DEF MacLen
    <2> QED BY <1>14, <2>1 DEF Verify
<1>16. Bytes(p, 4, 3) = f.src
    <2>1. Len(f.src) = 3 /\ f.src \in Seq(Byte)
        BY <1>4
    <2>2. \A i \in 1 .. Len(f.src) : p[4 + i] = f.src[i]
        BY <1>9, <2>1
    <2>3. Bytes(p, 4, Len(f.src)) = f.src
        <3> DEFINE from == 4
        <3>1. f.src \in Seq(Byte) /\ from \in Nat
            BY <2>1
        <3>2. \A i \in 1 .. Len(f.src) : p[from + i] = f.src[i]
            BY <2>2
        <3> HIDE DEF from
        <3>3. Bytes(p, from, Len(f.src)) = f.src
            BY <3>1, <3>2, WholeBytes
        <3> QED BY <3>3 DEF from
    <2> QED BY <2>1, <2>3
<1>17. Bytes(p, 8, dl) = f.dst
    <2>1. Len(f.dst) = dl /\ f.dst \in Seq(Byte)
        BY <1>4
    <2>2. \A i \in 1 .. Len(f.dst) : p[8 + i] = f.dst[i]
        BY <1>10, <2>1
    <2>3. Bytes(p, 8, Len(f.dst)) = f.dst
        BY <2>1, <2>2, WholeBytes
    <2> QED BY <2>1, <2>3
<1>18. Bytes(p, 8 + dl + 1, n) = f.payload
    <2>1. 8 + dl + 1 \in Nat
        BY <1>5
    <2>2. n = Len(f.payload) /\ f.payload \in Seq(Byte)
        BY <1>4 DEF n
    <2>3. \A i \in 1 .. Len(f.payload) : p[8 + dl + 1 + i] = f.payload[i]
        BY <1>12, <2>2
    <2> QED BY <2>1, <2>2, <2>3, WholeBytes
<1>19. p[2] % 16 = f.ttl
    <2>1. f.ttl \in 0 .. 15
        BY <1>4
    <2>2. f.ttl % 16 = f.ttl
        BY <2>1, Nibble
    <2> QED BY <1>8, <2>2
<1>20. p[3] + 256 * p[4] = f.seq
    BY <1>4, <1>8, Halves
<1>21. View(p) = [ttl |-> p[2] % 16, seq |-> p[3] + 256 * p[4], src |-> Bytes(p, 4, 3),
                  type |-> p[8], dst |-> Bytes(p, 8, dl), opcode |-> p[8 + dl + 1],
                  payload |-> Bytes(p, 8 + dl + 1, Len(p) - 8 - dl - 1 - 4)]
    BY <1>13 DEF View, HdrMin, MacLen
<1>22. View(p) = [ttl |-> f.ttl, seq |-> f.seq, src |-> f.src, type |-> f.type,
                  dst |-> f.dst, opcode |-> f.opcode, payload |-> f.payload]
    BY <1>6, <1>8, <1>11, <1>16, <1>17, <1>18, <1>19, <1>20, <1>21
<1> QED BY <1>15, <1>22 DEF p

(* One hop less, in the nibble it is kept in.                              *)
LEMMA Recount ==
    ASSUME NEW x \in Byte, NEW t, t = x % 16, t > 0, NEW y, y = 16 * (x \div 16) + ((t - 1) % 16)
    PROVE  y \in Byte /\ y % 16 = t - 1 /\ y \div 16 = x \div 16
<1> DEFINE q == x \div 16  u == t - 1
<1>1. q \in 0 .. 15 /\ t \in 0 .. 15
    BY SMT DEF Byte
<1>2. u \in 0 .. 14
    BY <1>1
<1> HIDE DEF q, u
<1>3. u % 16 = u
    BY <1>2, SMT
<1>4. (16 * q + u) % 16 = u /\ (16 * q + u) \div 16 = q /\ 16 * q + u \in 0 .. 255
    BY <1>1, <1>2, SMT
<1>5. y = 16 * q + u
    BY <1>3 DEF q, u
<1> QED BY <1>4, <1>5 DEF q, u, Byte

(* The code is over a body whose TTL is set to zero, whatever it was.      *)
LEMMA SameMac ==
    ASSUME NEW b \in Seq(Byte), NEW c \in Seq(Byte), NEW key, NEW n, n = Len(b), n = Len(c),
           \A i \in 1 .. n : i # 2 => b[i] = c[i], b[2] \div 16 = c[2] \div 16
    PROVE  Mac(b, key) = Mac(c, key)
<1>1. SetTtl(b, 0) = SetTtl(c, 0)
    <2>1. b = [i \in 1 .. n |-> b[i]] /\ c = [i \in 1 .. n |-> c[i]]
        BY AsFunction
    <2> DEFINE z == 16 * (b[2] \div 16) + (0 % 16)
    <2>2. SetTtl(b, 0) = [b EXCEPT ![2] = z] /\ SetTtl(c, 0) = [c EXCEPT ![2] = z]
        BY DEF SetTtl
    <2> HIDE DEF z
    <2>3. [b EXCEPT ![2] = z] = [c EXCEPT ![2] = z]
        BY <2>1
    <2> QED BY <2>2, <2>3
<1> QED BY <1>1 DEF Mac

(* A relay changes the TTL and nothing else, and what it sends is trusted  *)
(* by the next node as what it received: the code does not cover the TTL   *)
(* (mesh_handle_pdu's relay block with mesh_pdu_set_ttl).                  *)
THEOREM RelayKeepsTrust ==
    ASSUME NEW pdu \in Seq(Byte), NEW key, Verify(pdu, key), MayRelay(pdu)
    PROVE  /\ Verify(Relayed(pdu), key)
           /\ View(Relayed(pdu)) = [View(pdu) EXCEPT !.ttl = @ - 1]
<1> DEFINE t == View(pdu).ttl
           r == Relayed(pdu)
           n == Len(pdu)
           second == 16 * (pdu[2] \div 16) + ((t - 1) % 16)
<1>1. WellFormed(pdu) /\ Bytes(pdu, n - 4, 4) = Mac(SignedPart(pdu), key)
    BY DEF Verify, MacLen
<1>2. n \in Nat /\ 13 <= n /\ n <= 27 /\ 8 + DstLen(pdu[8]) + 1 + 4 <= n
    <2>1. n \in HdrMin + 1 + MacLen .. PduMax /\ HdrMin + DstLen(pdu[8]) + 1 + MacLen <= n
        BY <1>1 DEF WellFormed
    <2> HIDE DEF n
    <2>2. DstLen(pdu[8]) \in 0 .. 3
        BY DstLenType
    <2> QED BY <2>1, <2>2 DEF HdrMin, MacLen, PduMax
<1>3. \A i \in 1 .. n : pdu[i] \in Byte
    OBVIOUS
<1>4. t = pdu[2] % 16 /\ t > 0
    BY DEF View, MayRelay
<1>5. r = [pdu EXCEPT ![2] = second]
    BY DEF Relayed, SetTtl
<1>6. n \in Nat /\ pdu = [i \in 1 .. n |-> pdu[i]]
    BY AsFunction
<1> HIDE DEF n, t, r, second
<1>7. 2 \in 1 .. n /\ 1 \in 1 .. n /\ 8 \in 1 .. n /\ 3 \in 1 .. n /\ 4 \in 1 .. n
    BY <1>2
<1>8. pdu[2] \in Byte
    BY <1>3, <1>7
<1>9. second \in Byte /\ second % 16 = t - 1 /\ second \div 16 = pdu[2] \div 16
    BY <1>4, <1>8, Recount DEF second
<1>10. r \in Seq(Byte) /\ Len(r) = n /\ \A i \in 1 .. n : r[i] = IF i = 2 THEN second ELSE pdu[i]
    <2>1. \A i \in 1 .. n : r[i] = IF i = 2 THEN second ELSE pdu[i]
        BY <1>5, <1>6
    <2>2. r = [i \in 1 .. n |-> r[i]]
        BY <1>5, <1>6
    <2>3. \A i \in 1 .. n : r[i] \in Byte
        BY <1>3, <1>9, <2>1
    <2> QED BY <1>6, <2>1, <2>2, <2>3, AsSequence
<1>11. r[2] = second /\ \A i \in 1 .. n : i # 2 => r[i] = pdu[i]
    BY <1>7, <1>10
<1>12. r[1] = pdu[1] /\ r[8] = pdu[8] /\ r[3] = pdu[3] /\ r[4] = pdu[4]
    BY <1>7, <1>11
<1>13. WellFormed(r)
    BY <1>1, <1>10, <1>12 DEF WellFormed, n
<1>14. ASSUME NEW from \in Nat, from >= 2, NEW m \in Nat, from + m <= n
       PROVE  Bytes(r, from, m) = Bytes(pdu, from, m)
    <2>1. \A i \in 1 .. m : from + i \in 1 .. n /\ from + i # 2
        BY <1>2, <1>14
    <2>2. \A i \in 1 .. m : r[from + i] = pdu[from + i]
        BY <1>11, <2>1
    <2> QED BY <2>2 DEF Bytes
<1>15. Mac(SignedPart(r), key) = Mac(SignedPart(pdu), key)
    <2> DEFINE b == SignedPart(r)  c == SignedPart(pdu)  m == n - 4
    <2>1. m \in Nat /\ 2 \in 1 .. m /\ \A i \in 1 .. m : i \in 1 .. n
        BY <1>2
    <2>2. b = [i \in 1 .. m |-> r[0 + i]] /\ c = [i \in 1 .. m |-> pdu[0 + i]]
        BY <1>10 DEF SignedPart, Bytes, MacLen, n
    <2> HIDE DEF b, c, m
    <2>3. \A i \in 1 .. m : 0 + i = i /\ b[i] = r[i] /\ c[i] = pdu[i]
        BY <2>1, <2>2
    <2>4. \A i \in 1 .. m : r[i] \in Byte /\ pdu[i] \in Byte
        BY <1>3, <1>9, <1>10, <2>1
    <2>5. b = [i \in 1 .. m |-> b[i]] /\ c = [i \in 1 .. m |-> c[i]]
        BY <2>2
    <2>6. b \in Seq(Byte) /\ c \in Seq(Byte) /\ Len(b) = m /\ Len(c) = m
        <3>1. \A i \in 1 .. m : b[i] \in Byte /\ c[i] \in Byte
            BY <2>3, <2>4
        <3> QED BY <2>1, <2>5, <3>1, AsSequence
    <2>7. \A i \in 1 .. m : i # 2 => b[i] = c[i]
        BY <1>11, <2>1, <2>3
    <2>8. b[2] \div 16 = c[2] \div 16
        BY <1>9, <1>11, <2>1, <2>3
    <2>9. Mac(b, key) = Mac(c, key)
        BY <2>6, <2>7, <2>8, SameMac
    <2> QED BY <2>9 DEF b, c
<1>16. Verify(r, key)
    <2>1. n - 4 \in Nat /\ n - 4 >= 2 /\ n - 4 + 4 <= n
        BY <1>2
    <2>2. Bytes(r, n - 4, 4) = Bytes(pdu, n - 4, 4)
        BY <1>14, <2>1
    <2>3. Bytes(r, Len(r) - MacLen, MacLen) = Mac(SignedPart(r), key)
        BY <1>1, <1>10, <1>15, <2>2 DEF MacLen
    <2> QED BY <1>13, <2>3 DEF Verify
<1>17. View(r) = [View(pdu) EXCEPT !.ttl = @ - 1]
    <2> DEFINE dl == DstLen(pdu[8])  m == n - 8 - dl - 1 - 4  at == 8 + dl + 1
    <2>1. dl \in 0 .. 3
        BY DstLenType
    <2>2. n \in Nat /\ 8 + dl + 1 + 4 <= n
        BY <1>2
    <2>3. View(pdu) = [ttl |-> t, seq |-> pdu[3] + 256 * pdu[4], src |-> Bytes(pdu, 4, 3),
                       type |-> pdu[8], dst |-> Bytes(pdu, 8, dl), opcode |-> pdu[at],
                       payload |-> Bytes(pdu, at, m)]
        BY <1>4 DEF View, HdrMin, MacLen, n
    <2>4. View(r) = [ttl |-> r[2] % 16, seq |-> r[3] + 256 * r[4], src |-> Bytes(r, 4, 3),
                     type |-> r[8], dst |-> Bytes(r, 8, dl), opcode |-> r[at],
                     payload |-> Bytes(r, at, m)]
        BY <1>10, <1>12 DEF View, HdrMin, MacLen
    <2> HIDE DEF dl
    <2>5. m \in Nat /\ at \in Nat /\ at >= 2 /\ at + m <= n /\ at \in 1 .. n /\ at # 2 /\ 8 + dl <= n
        BY <2>1, <2>2
    <2>6. dl \in Nat /\ 4 + 3 <= n
        BY <1>2, <2>1
    <2> HIDE DEF m, at
    <2>7. Bytes(r, 4, 3) = Bytes(pdu, 4, 3)
        BY <1>14, <2>6
    <2>8. Bytes(r, 8, dl) = Bytes(pdu, 8, dl)
        BY <1>14, <2>5, <2>6
    <2>9. Bytes(r, at, m) = Bytes(pdu, at, m)
        BY <1>14, <2>5
    <2>10. r[at] = pdu[at] /\ r[2] % 16 = t - 1
        BY <1>9, <1>11, <2>5
    <2> QED BY <1>12, <2>3, <2>4, <2>7, <2>8, <2>9, <2>10
<1> QED BY <1>16, <1>17 DEF r

(* What mesh_originate queues, mesh_do_originate takes apart again into    *)
(* the address, the opcode and the payload the caller gave.                *)
THEOREM DescribedIsSaid ==
    ASSUME NEW f, Sendable(f)
    PROVE  Described(Describe(f)) = [type |-> f.type, dst |-> f.dst, opcode |-> f.opcode,
                                     payload |-> f.payload]
<1> DEFINE type == <<f.type>>
           opcode == <<f.opcode>>
           dl == DstLen(f.type)
           to == type \o f.dst
           order == to \o opcode
           j == order \o f.payload
           n == Len(f.payload)
<1>1. type \in Seq(Byte) /\ Len(type) = 1 /\ type[1] = f.type
    <2>1. f.type \in Byte
        BY SendableParts
    <2> QED BY <2>1, Single
<1>2. opcode \in Seq(Byte) /\ Len(opcode) = 1 /\ opcode[1] = f.opcode
    <2>1. f.opcode \in Byte
        BY SendableParts
    <2> QED BY <2>1, Single
<1>3. j = Describe(f)
    BY DEF Describe
<1>4. dl \in 0 .. 3 /\ Len(f.dst) = dl
    BY SendableParts, DstLenType
<1>5. f.dst \in Seq(Byte) /\ f.payload \in Seq(Byte)
    BY SendableParts
<1>6. n \in Nat
    BY <1>5
<1> HIDE DEF type, opcode, dl, to, order, j
<1>7. type \in Seq(Byte) /\ opcode \in Seq(Byte)
    BY <1>1, <1>2
<1>8. to \in Seq(Byte) /\ Len(to) = Len(type) + Len(f.dst)
      /\ (\A i \in 1 .. Len(type) : to[i] = type[i])
      /\ \A i \in 1 .. Len(f.dst) : to[Len(type) + i] = f.dst[i]
    BY <1>5, <1>7, Concat DEF to
<1>9. order \in Seq(Byte) /\ Len(order) = Len(to) + Len(opcode)
      /\ (\A i \in 1 .. Len(to) : order[i] = to[i])
      /\ \A i \in 1 .. Len(opcode) : order[Len(to) + i] = opcode[i]
    <2>1. to \in Seq(Byte)
        BY <1>8
    <2> QED BY <1>7, <2>1, Concat DEF order
<1>10. j \in Seq(Byte) /\ Len(j) = Len(order) + n
      /\ (\A i \in 1 .. Len(order) : j[i] = order[i])
      /\ \A i \in 1 .. n : j[Len(order) + i] = f.payload[i]
    <2>1. order \in Seq(Byte)
        BY <1>9
    <2> QED BY <1>5, <2>1, Concat DEF j
<1> HIDE DEF n
<1>11. Len(to) = 1 + dl /\ to[1] = f.type /\ \A i \in 1 .. dl : to[1 + i] = f.dst[i]
    BY <1>1, <1>4, <1>8
<1>12. Len(order) = 1 + dl + 1 /\ (\A i \in 1 .. 1 + dl : order[i] = to[i])
       /\ order[1 + dl + 1] = f.opcode
    BY <1>2, <1>4, <1>9, <1>11
<1>13. Len(j) = 1 + dl + 1 + n /\ (\A i \in 1 .. 1 + dl + 1 : j[i] = order[i])
       /\ \A i \in 1 .. n : j[1 + dl + 1 + i] = f.payload[i]
    BY <1>4, <1>6, <1>10, <1>12
<1>14. j[1] = f.type
    <2>1. 1 \in 1 .. 1 + dl /\ 1 \in 1 .. 1 + dl + 1
        BY <1>4
    <2> QED BY <1>11, <1>12, <1>13, <2>1
<1>15. \A i \in 1 .. dl : j[1 + i] = f.dst[i]
    <2> SUFFICES ASSUME NEW i \in 1 .. dl PROVE j[1 + i] = f.dst[i]
        OBVIOUS
    <2>1. 1 + i \in 1 .. 1 + dl /\ 1 + i \in 1 .. 1 + dl + 1
        BY <1>4
    <2> QED BY <1>11, <1>12, <1>13, <2>1
<1>16. j[1 + dl + 1] = f.opcode
    <2>1. 1 + dl + 1 \in 1 .. 1 + dl + 1
        BY <1>4
    <2> QED BY <1>12, <1>13, <2>1
<1>17. Bytes(j, 1, dl) = f.dst
    <2> DEFINE from == 1
    <2>1. from \in Nat /\ \A i \in 1 .. dl : j[from + i] = f.dst[i]
        BY <1>15
    <2>2. dl = Len(f.dst)
        BY <1>4
    <2> HIDE DEF from
    <2>3. \A i \in 1 .. Len(f.dst) : j[from + i] = f.dst[i]
        BY <2>1, <2>2
    <2>4. Bytes(j, from, dl) = f.dst
        BY <1>5, <2>1, <2>2, <2>3, WholeBytes
    <2> QED BY <2>4 DEF from
<1>18. Bytes(j, 1 + dl + 1, n) = f.payload
    <2>1. 1 + dl + 1 \in Nat
        BY <1>4
    <2>2. n = Len(f.payload) /\ \A i \in 1 .. Len(f.payload) : j[1 + dl + 1 + i] = f.payload[i]
        BY <1>13 DEF n
    <2> QED BY <1>5, <2>1, <2>2, WholeBytes
<1>19. Len(j) - (1 + dl + 1) = n
    BY <1>4, <1>6, <1>13
<1>20. Described(j) = [type |-> j[1], dst |-> Bytes(j, 1, dl), opcode |-> j[1 + dl + 1],
                       payload |-> Bytes(j, 1 + dl + 1, Len(j) - (1 + dl + 1))]
    BY <1>14 DEF Described, dl
<1> QED BY <1>3, <1>14, <1>16, <1>17, <1>18, <1>19, <1>20
=============================================================================
