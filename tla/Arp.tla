-------------------------------- MODULE Arp ---------------------------------
(***************************************************************************)
(* arp_handle and its cache (src/AetherWebOS/src/drivers/ethernet/arp.c).  *)
(*                                                                         *)
(* The cache has ARP_CACHE_SIZE entries; address 0 marks an empty one and  *)
(* is also the sender address of a probe (RFC 5227).  No entry is ever     *)
(* removed, and nothing in the code reads the cache.  Packets of another   *)
(* hardware or protocol type are told apart only as wrong.  latest is a    *)
(* history variable: the MAC each address announced last.                  *)
(***************************************************************************)
EXTENDS Naturals, FiniteSets

CONSTANTS
  ARP_CACHE_SIZE,
  IPs,           \* addresses of hosts, 0 for a probe included
  aether_ip,     \* ours
  MACs,
  NoMac          \* the MAC of an empty entry

ASSUME ArpAssumption ==
  /\ ARP_CACHE_SIZE \in Nat /\ 0 \in IPs /\ IPs \subseteq Nat
  /\ aether_ip \in Nat \ {0} /\ NoMac \notin MACs

VARIABLES
  arp_cache,     \* entries [ip, mac]
  out,           \* the reply handed to ethernet_send in the last step, if any
  latest         \* history

vars == <<arp_cache, out, latest>>

Entries == 1 .. ARP_CACHE_SIZE

Packets ==
  [types : {"right", "wrong"}, opcode : {"request", "reply"},
   sender_ip : IPs, sender_mac : MACs, target_ip : IPs \cup {aether_ip}]

Init ==
  /\ arp_cache = [n \in Entries |-> [ip |-> 0, mac |-> NoMac]]
  /\ out = {}
  /\ latest = [a \in IPs |-> NoMac]

-----------------------------------------------------------------------------
(* An empty entry is preferred to the host's own. *)
Mutant_Candidates(ip) ==
  IF \E n \in Entries : arp_cache[n].ip = 0
    THEN {n \in Entries : arp_cache[n].ip = 0} ELSE {n \in Entries : arp_cache[n].ip = ip}

(* The loop starts one entry late. *)
Mutant_CandidatesLate(ip) == {n \in Entries : n > 1 /\ arp_cache[n].ip \in {0, ip}}

(* The entries arp_cache_insert may write; it takes the first. *)
Candidates(ip) == {n \in Entries : arp_cache[n].ip \in {0, ip}}

First(S) == CHOOSE n \in S : \A m \in S : n <= m

(* A full cache takes no new address. *)
arp_cache_insert(ip, mac) ==
  IF Candidates(ip) = {} THEN arp_cache
  ELSE [arp_cache EXCEPT ![First(Candidates(ip))] = [ip |-> ip, mac |-> mac]]

Reply(p) ==
  [sender_ip |-> aether_ip, target_ip |-> p.sender_ip, target_mac |-> p.sender_mac]

Answered(p) == p.opcode = "request" /\ p.target_ip = aether_ip

arp_handle(p) ==
  /\ p.types = "right"
  /\ arp_cache' = arp_cache_insert(p.sender_ip, p.sender_mac)
  /\ out' = IF Answered(p) THEN {Reply(p)} ELSE {}
  /\ latest' = [latest EXCEPT ![p.sender_ip] = p.sender_mac]

arp_ignore(p) ==
  /\ p.types = "wrong"
  /\ out' = {}
  /\ UNCHANGED <<arp_cache, latest>>

Next == \E p \in Packets : arp_handle(p) \/ arp_ignore(p)

Spec == Init /\ [][Next]_vars

-----------------------------------------------------------------------------
(* Type invariant. *)
TypeOK ==
  /\ arp_cache \in [Entries -> [ip : IPs, mac : MACs \cup {NoMac}]]
  /\ Cardinality(out) <= 1
  /\ latest \in [IPs -> MACs \cup {NoMac}]

(* However packets and probes come, a host has at most one entry, and it   *)
(* holds the MAC the host announced last.                                  *)
CacheCurrent ==
  /\ \A m, n \in Entries : arp_cache[m].ip = arp_cache[n].ip /\ m # n => arp_cache[m].ip = 0
  /\ \A n \in Entries : arp_cache[n].ip # 0 => arp_cache[n].mac = latest[arp_cache[n].ip]

(* arp.c:62 "Learn sender", as far as there is room: while no more hosts   *)
(* have spoken than the cache has entries, all of them are in it, however  *)
(* probes and changes of MAC came in between.                              *)
SendersCached ==
  LET hosts == {a \in IPs \ {0} : latest[a] # NoMac}
  IN Cardinality(hosts) <= ARP_CACHE_SIZE =>
       \A a \in hosts : \E n \in Entries : arp_cache[n] = [ip |-> a, mac |-> latest[a]]

=============================================================================
