------------------------------ MODULE IpInput -------------------------------
(***************************************************************************)
(* The way of a TCP segment through the checksums: ipv4_send and           *)
(* ipv4_handle (src/AetherWebOS/src/drivers/ethernet/ipv4.c) and           *)
(* tcp_compute_checksum / tcp_validate_checksum                            *)
(* (src/AetherWebOS/src/drivers/ethernet/tcp/tcp_checksum.c), up to the    *)
(* TCB lookup where module Tcp takes over.                                 *)
(*                                                                         *)
(* The byte orders are the point, so data are bytes: a byte is one of BYTE *)
(* values (256) and a word two of them (2^16).  The machine is             *)
(* little-endian.  An address is its four bytes in network order.  Of the  *)
(* IPv4 header the length, the addresses and the checksum are kept, of the *)
(* TCP segment the checksum field (its first two bytes here) and the rest. *)
(* at is the address of the machine the packet reaches; cut says what its  *)
(* length fields get wrong.                                                *)
(***************************************************************************)
EXTENDS Integers, Sequences

CONSTANTS
  BYTE,         \* number of values of a byte
  Addrs,        \* addresses of this machine and of its peers
  aether_ip,    \* ours
  PROTO,        \* IP_PROTO_TCP
  MaxSeg        \* bound: bytes of a segment after its checksum

Bytes == 0 .. (BYTE - 1)
WORD == BYTE * BYTE

ASSUME IpAssumption ==
  /\ BYTE \in Nat /\ BYTE >= 2
  /\ Addrs \subseteq [1 .. 4 -> Bytes] /\ aether_ip \in Addrs
  /\ PROTO \in Bytes /\ MaxSeg \in Nat

VARIABLES
  packet,            \* the packet on the wire, or << >>
  origin,            \* history: who made it: "none", "self", "peer", "damaged"
  verdict,           \* where the receiver stopped
  checksum_errors    \* global_net_stats.checksum_errors and dropped_packets (modulo 2)

vars == <<packet, origin, verdict, checksum_errors>>

Init ==
  /\ packet = << >> /\ origin = "none" /\ verdict = "none"
  /\ checksum_errors = 0

-----------------------------------------------------------------------------
(* A 16-bit word of two bytes, and the two bytes of a word, each way *)
Big(b1, b2) == b1 * BYTE + b2
Little(b1, b2) == b2 * BYTE + b1
BigBytes(w) == <<w \div BYTE, w % BYTE>>
LittleBytes(w) == <<w % BYTE, w \div BYTE>>
Swap(w) == Little(w \div BYTE, w % BYTE)             \* htons

(* Sums of the words of a byte sequence; a last odd byte is padded with 0 *)
Byte(s, n) == IF n <= Len(s) THEN s[n] ELSE 0
Total(f) ==
  LET sum[n \in 0 .. Len(f)] == IF n = 0 THEN 0 ELSE sum[n - 1] + f[n] IN sum[Len(f)]
WordCount(s) == (Len(s) + 1) \div 2
BigSum(s) == Total([n \in 1 .. WordCount(s) |-> Big(s[2 * n - 1], Byte(s, 2 * n))])

Mutant_checksum_accumulate(s) ==
  Total([n \in 1 .. (Len(s) \div 2) |-> Little(s[2 * n - 1], s[2 * n])])

checksum_accumulate(s) ==
  Total([n \in 1 .. WordCount(s) |-> Little(s[2 * n - 1], Byte(s, 2 * n))])

(* while (sum >> 16) sum = (sum & 0xFFFF) + (sum >> 16); return ~sum *)
Folded[sum \in Nat] ==
  IF sum < WORD THEN sum ELSE Folded[(sum % WORD) + (sum \div WORD)]

(* One fold is not enough: the carry of the fold itself *)
Mutant_checksum_finalize(sum) ==
  WORD - 1 - (((sum % WORD) + (sum \div WORD)) % WORD)

(* The complement is not truncated to 16 bits. *)
checksum_finalize(sum) == WORD - 1 - Folded[sum]

(* ipv4_checksum reads words big-endian, whatever the machine. *)
ipv4_checksum(bytes) == checksum_finalize(BigSum(bytes))

(* The pseudo-header's addresses are added in host order: as big-endian    *)
(* words, while the segment's words are read little-endian.                *)
tcp_compute_checksum(src, dst, seg) ==
  checksum_finalize(BigSum(src) + BigSum(dst) + Swap(PROTO) + Swap(Len(seg))
                      + checksum_accumulate(seg))

tcp_validate_checksum(src, dst, seg) == tcp_compute_checksum(src, dst, seg) = 0

(* The IPv4 header without its checksum *)
Header(p) == BigBytes(Len(p.seg)) \o p.src \o p.dst

-----------------------------------------------------------------------------
Segs == UNION {[1 .. n -> Bytes] : n \in 1 .. MaxSeg}

Zero == <<0, 0>>

Cuts == {"nothing", "header", "payload"}

(* tcp_send_segment, then ipv4_send: both checksums are stored as the      *)
(* little-endian words the functions return.                               *)
ipv4_send(dst, data) ==
  LET seg == LittleBytes(tcp_compute_checksum(aether_ip, dst, Zero \o data)) \o data
      hdr == Header([src |-> aether_ip, dst |-> dst, seg |-> seg])
  IN /\ packet = << >>
     /\ packet' = [src |-> aether_ip, dst |-> dst, seg |-> seg,
                   checksum |-> LittleBytes(ipv4_checksum(hdr)), at |-> dst, cut |-> "nothing"]
     /\ origin' = "self"
     /\ UNCHANGED <<verdict, checksum_errors>>

(* The one's complement sum, by its definition: modulo 2^16 - 1, where only *)
(* the sum 0 is 0.                                                          *)
OnesSum(n) == IF n = 0 THEN 0 ELSE ((n - 1) % (WORD - 1)) + 1
Internet(n) == BigBytes(WORD - 1 - OnesSum(n))

(* A peer (external) sends what RFC 791 and RFC 793 say, if cut is         *)
(* "nothing"; it may reach us though it is for another machine.            *)
PeerSends(src, dst, data, cut) ==
  LET pseudo == BigSum(src) + BigSum(dst) + PROTO + Len(data) + 2
      seg == Internet(pseudo + BigSum(Zero \o data)) \o data
      hdr == Header([src |-> src, dst |-> dst, seg |-> seg])
  IN /\ packet = << >>
     /\ packet' = [src |-> src, dst |-> dst, seg |-> seg,
                   checksum |-> Internet(BigSum(hdr)), at |-> aether_ip, cut |-> cut]
     /\ origin' = "peer"
     /\ UNCHANGED <<verdict, checksum_errors>>

(* One byte of a packet of ours changes on the way (external). *)
Damage(n, b) ==
  /\ packet # << >> /\ origin = "self" /\ verdict = "none"
  /\ n \in DOMAIN packet.seg /\ b # packet.seg[n]
  /\ packet' = [packet EXCEPT !.seg[n] = b]
  /\ origin' = "damaged"
  /\ UNCHANGED <<verdict, checksum_errors>>

-----------------------------------------------------------------------------
(* ipv4_handle, at the machine the packet reaches: ours, or for a packet   *)
(* of ours another machine running the same code.                          *)
Mutant_HeaderOK(p) == ipv4_checksum(Header(p)) = Big(p.checksum[1], p.checksum[2])

(* computed != original_checksum: the field is compared as it was loaded.  *)
HeaderOK(p) == ipv4_checksum(Header(p)) = Little(p.checksum[1], p.checksum[2])

Arriving == packet # << >> /\ verdict = "none"

Stop(where) == verdict' = where /\ UNCHANGED <<packet, origin>>

(* Too short for a header, or not IPv4: dropped before the checksum *)
Malformed ==
  /\ Arriving /\ packet.cut = "header"
  /\ Stop("ignored") /\ UNCHANGED checksum_errors

HeaderBad ==
  /\ Arriving /\ packet.cut # "header"
  /\ ~HeaderOK(packet)
  /\ checksum_errors' = (checksum_errors + 1) % 2
  /\ Stop("header_bad")

(* total_len does not fit, or the packet is not for this machine *)
Ignored ==
  /\ Arriving /\ packet.cut # "header"
  /\ HeaderOK(packet)
  /\ packet.cut = "payload" \/ packet.dst # packet.at
  /\ Stop("ignored") /\ UNCHANGED checksum_errors

ToTcp ==
  /\ Arriving /\ packet.cut = "nothing"
  /\ HeaderOK(packet)
  /\ packet.dst = packet.at

(* tcp_input_process drops the segment, without counting it. *)
SegmentBad ==
  /\ ToTcp
  /\ ~tcp_validate_checksum(packet.src, packet.dst, packet.seg)
  /\ Stop("segment_bad") /\ UNCHANGED checksum_errors

Delivered ==
  /\ ToTcp
  /\ tcp_validate_checksum(packet.src, packet.dst, packet.seg)
  /\ Stop("delivered") /\ UNCHANGED checksum_errors

(* The next packet *)
Done ==
  /\ verdict # "none"
  /\ packet' = << >> /\ origin' = "none" /\ verdict' = "none"
  /\ UNCHANGED checksum_errors

Next ==
  \/ \E a \in Addrs \ {aether_ip}, data \in Segs :
       \/ ipv4_send(a, data)
       \/ \E dst \in Addrs \ {a}, cut \in Cuts : PeerSends(a, dst, data, cut)
  \/ \E n \in 1 .. (MaxSeg + 2), b \in Bytes : Damage(n, b)
  \/ Malformed \/ HeaderBad \/ Ignored \/ SegmentBad \/ Delivered \/ Done

Spec == Init /\ [][Next]_vars

-----------------------------------------------------------------------------
(* ipv4_checksum, with its loop of folds, is the Internet checksum of the  *)
(* header.                                                                 *)
HeaderSumIsInternet ==
  packet # << >> => BigBytes(ipv4_checksum(Header(packet))) = Internet(BigSum(Header(packet)))

(* What this code sends, this code accepts: the mixture of byte orders is  *)
(* the same on both sides, for odd lengths too.                            *)
OwnPacketsDelivered == origin = "self" => verdict \in {"none", "delivered"}

(* A segment damaged in one byte is never delivered, in any byte order.    *)
DamageNotDelivered == origin = "damaged" => verdict # "delivered"

-----------------------------------------------------------------------------
(* README.md:115 "Header checksum verification": the correct header of a   *)
(* peer is not counted as a checksum error.                                *)
PeerHeaderAccepted == origin = "peer" => verdict # "header_bad"

=============================================================================
