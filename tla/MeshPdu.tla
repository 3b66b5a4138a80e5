------------------------------- MODULE MeshPdu -------------------------------
(***************************************************************************)
(* The bytes of a mesh PDU (src/app/mesh_pdu.c) and of the descriptor that *)
(* carries a broadcast from the command thread to the mesh thread          *)
(* (src/app/mesh.c).  A PDU is a sequence of bytes                         *)
(*                                                                         *)
(*   magic, version and TTL, number (2), source (3), address type,         *)
(*   address (0, 1 or 3), opcode, payload, code (4)                        *)
(*                                                                         *)
(* The code is made over everything before it, with the TTL as zero: each  *)
(* relay counts the TTL down and cannot sign anew for the source.          *)
(***************************************************************************)
EXTENDS Naturals, Sequences

CONSTANT Cmac(_, _)     \* mesh_cmac: sixteen bytes, of a key and a message

Byte == 0 .. 255

Magic == 229

Version == 0

HdrMin == 8

MacLen == 4

PduMax == 27

SeqMax == 65535         \* uint16_t seq

(* mesh_pdu_dst_len.                                                       *)
DstLen(type) == CASE type = 1 -> 1 [] type = 2 -> 3 [] OTHER -> 0

(* mesh_pdu_max_payload.                                                   *)
MaxPayload(type) == PduMax - HdrMin - DstLen(type) - 1 - MacLen

(* The n bytes of s after the first `from'.                                *)
Bytes(s, from, n) == [i \in 1 .. n |-> s[from + i]]

(* mesh_pdu_set_ttl; the version has the other nibble.                     *)
SetTtl(pdu, ttl) == [pdu EXCEPT ![2] = 16 * (@ \div 16) + (ttl % 16)]

(* mac_over_body.                                                          *)
Mac(body, key) == Bytes(Cmac(key, SetTtl(body, 0)), 0, MacLen)

(***************************************************************************)
(* Building, parsing, verifying.                                           *)
(***************************************************************************)
(* What a sender has to say.                                               *)
Sendable(f) ==
    /\ f.ttl \in 0 .. 15 /\ f.seq \in 0 .. SeqMax
    /\ f.src \in Seq(Byte) /\ Len(f.src) = 3
    /\ f.type \in Byte /\ f.dst \in Seq(Byte) /\ Len(f.dst) = DstLen(f.type)
    /\ f.opcode \in Byte /\ f.payload \in Seq(Byte) /\ Len(f.payload) <= MaxPayload(f.type)

Header(f) ==
    <<Magic, Version * 16 + (f.ttl % 16), f.seq % 256, f.seq \div 256>> \o f.src \o <<f.type>>

Body(f) == Header(f) \o f.dst \o <<f.opcode>> \o f.payload

(* mesh_pdu_build, when the payload fits and AES works.                    *)
Build(f, key) == Body(f) \o Mac(Body(f), key)

(* The length checks of mesh_pdu_parse; the address may run into the code. *)
WellFormed(pdu) ==
    /\ Len(pdu) \in HdrMin + 1 + MacLen .. PduMax /\ pdu[1] = Magic
    /\ HdrMin + DstLen(pdu[8]) + 1 + MacLen <= Len(pdu)

(* mesh_pdu_parse.                                                         *)
View(pdu) ==
    LET dl == DstLen(pdu[8])
    IN [ttl |-> pdu[2] % 16, seq |-> pdu[3] + 256 * pdu[4], src |-> Bytes(pdu, 4, 3),
        type |-> pdu[8], dst |-> Bytes(pdu, HdrMin, dl), opcode |-> pdu[HdrMin + dl + 1],
        payload |-> Bytes(pdu, HdrMin + dl + 1, Len(pdu) - HdrMin - dl - 1 - MacLen)]

SignedPart(pdu) == Bytes(pdu, 0, Len(pdu) - MacLen)

(* mesh_pdu_verify.                                                        *)
Verify(pdu, key) ==
    WellFormed(pdu) /\ Bytes(pdu, Len(pdu) - MacLen, MacLen) = Mac(SignedPart(pdu), key)

(* What mesh_handle_pdu puts on the ring, if anything.                     *)
MayRelay(pdu) == View(pdu).ttl > 0

Relayed(pdu) == SetTtl(pdu, View(pdu).ttl - 1)

(***************************************************************************)
(* The job of a broadcast: mesh_originate and mesh_do_originate.           *)
(***************************************************************************)
Describe(f) == <<f.type>> \o f.dst \o <<f.opcode>> \o f.payload

Described(job) ==
    LET dl == DstLen(job[1])
    IN [type |-> job[1], dst |-> Bytes(job, 1, dl), opcode |-> job[1 + dl + 1],
        payload |-> Bytes(job, 1 + dl + 1, Len(job) - (1 + dl + 1))]
=============================================================================
