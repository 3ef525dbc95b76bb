------------------------------ MODULE PageLoad ------------------------------
(***************************************************************************)
(* One page load: a client finds the kernel's address by ARP (module Arp), *)
(* connects, sends a request and closes (module Tcp, with the dispatch of  *)
(* socket.c), while neighbours send ARP packets of their own.              *)
(*                                                                         *)
(* The client is any that follows RFC 9293 and repeats what is not         *)
(* acknowledged.  What it sends stays in order and may be lost, or dropped *)
(* by the kernel's checksum tests; what the kernel sends arrives, because  *)
(* nothing in the kernel would send it again.                              *)
(* The heap does not fail.  up and down are the two directions of the      *)
(* link; the kernel takes one frame from up in a turn of its main loop.    *)
(***************************************************************************)
EXTENDS Arp, Sequences

CONSTANTS
  client_ip, client_mac,
  Neighbours,            \* the ARP packets neighbours send
  SEQ_MOD, FirstIsn, ISN_STEP, RESP, MaxOpen,
  LinkCap,               \* bound: frames on their way up
  DownCap                \* bound: the kernel takes a frame when so many are on their way down

ASSUME PageLoadAssumption ==
  /\ client_ip \in IPs \ {0} /\ client_mac \in MACs
  /\ Neighbours \subseteq {p \in Packets : p.sender_ip # client_ip}
  /\ LinkCap \in Nat \ {0} /\ DownCap \in Nat
  /\ SEQ_MOD \in Nat /\ SEQ_MOD > 3 /\ FirstIsn \in 0 .. (SEQ_MOD - 1)
  /\ RESP \in Nat \ {0} /\ ISN_STEP \in Nat /\ RESP + 3 <= ISN_STEP
  /\ MaxOpen \in Nat /\ MaxOpen * ISN_STEP <= SEQ_MOD

VARIABLES
  tcp_tcb_list, tcp_global_isn, tcp_out, tcp_active, seg_bufs, frames, opened,
  tcp_again,             \* these eight as in Tcp
  client,                \* state, rcv_nxt, and the bytes of the response it has
  up, down

Conn == "client"

(* The segments the client sends are among these. *)
ClientSegments ==
  [conn : {Conn}, flags : {{"SYN"}, {"ACK"}, {"FIN", "ACK"}}, seq : 0 .. 2,
   ack : 0 .. (SEQ_MOD - 1), len : 0 .. 1]

T == INSTANCE Tcp WITH out <- tcp_out, again <- tcp_again, Conns <- {Conn}, Listening <- {Conn},
                       Segments <- ClientSegments, BufCap <- 0, HeapFails <- FALSE

tcp_vars == <<tcp_tcb_list, tcp_global_isn, tcp_out, tcp_active, seg_bufs, frames, opened,
              tcp_again>>
pl_vars == <<vars, tcp_vars, client, up, down>>

Arrived(kind, what) == [kind |-> kind, what |-> what]

PLInit ==
  /\ Init /\ T!Init
  /\ client = [state |-> "arp", rcv_nxt |-> 0, got |-> 0]
  /\ up = <<>> /\ down = <<>>

-----------------------------------------------------------------------------
(* The client (external) *)
WhoHas ==
  [types |-> "right", opcode |-> "request", sender_ip |-> client_ip,
   sender_mac |-> client_mac, target_ip |-> aether_ip]

Segment(flags, seq, ack, len) ==
  [conn |-> Conn, flags |-> flags, seq |-> seq, ack |-> ack, len |-> len]

(* What is not acknowledged in each state; the request is one byte long. *)
Unacknowledged ==
  CASE client.state = "arp" -> Arrived("arp", WhoHas)
    [] client.state = "syn_sent" -> Arrived("tcp", Segment({"SYN"}, 0, 0, 0))
    [] client.state = "established" ->
         Arrived("tcp", Segment({"ACK"}, 1, client.rcv_nxt, 1))
    [] client.state = "last_ack" ->
         Arrived("tcp", Segment({"FIN", "ACK"}, 2, client.rcv_nxt, 0))

(* No room on the link: lost at once *)
SendUp(frame) == up' = IF Len(up) < LinkCap THEN Append(up, frame) ELSE up

ClientSends ==
  /\ client.state # "closed" /\ Len(up) < LinkCap
  /\ SendUp(Unacknowledged)
  /\ UNCHANGED <<vars, tcp_vars, client, down>>

Ack(rcv_nxt) == Arrived("tcp", Segment({"ACK"}, IF client.state = "syn_sent" THEN 1 ELSE 2,
                                       rcv_nxt, 0))

(* A segment in order: its payload and FIN are taken and acknowledged; a   *)
(* FIN makes the client close too.                                         *)
ClientTakes(s) ==
  IF "RST" \in s.flags
    THEN client' = [client EXCEPT !.state = "closed"] /\ UNCHANGED up
  ELSE IF client.state = "syn_sent" /\ {"SYN", "ACK"} \subseteq s.flags
    THEN /\ client' = [client EXCEPT !.state = "established", !.rcv_nxt = (s.seq + 1) % SEQ_MOD]
         /\ SendUp(Ack((s.seq + 1) % SEQ_MOD))
  ELSE IF client.state = "last_ack" /\ s.ack = 3
    THEN client' = [client EXCEPT !.state = "closed"] /\ UNCHANGED up
  ELSE IF client.state = "established" /\ s.seq = client.rcv_nxt /\ (s.len > 0 \/ "FIN" \in s.flags)
    THEN LET next == (s.seq + s.len + (IF "FIN" \in s.flags THEN 1 ELSE 0)) % SEQ_MOD
         IN /\ client' = [state |-> IF "FIN" \in s.flags THEN "last_ack" ELSE client.state,
                          rcv_nxt |-> next, got |-> client.got + s.len]
            /\ SendUp(Ack(next))
  ELSE UNCHANGED <<client, up>>

ClientReceives ==
  /\ down # <<>>
  /\ down' = Tail(down)
  /\ IF Head(down).kind = "tcp" THEN ClientTakes(Head(down).what)
     ELSE /\ client' = [client EXCEPT !.state = IF @ = "arp" THEN "syn_sent" ELSE @]
          /\ UNCHANGED up
  /\ UNCHANGED <<vars, tcp_vars>>

-----------------------------------------------------------------------------
(* A frame in a turn of the main loop: virtio_net_poll down to arp_handle  *)
(* and tcp_input_process, and what they send.  A segment gets to the TCB   *)
(* lookup only past two tests, the header's checksum in ipv4_handle and    *)
(* tcp_validate_checksum; module IpInput says what they let through, and   *)
(* it is not all that a client sends.                                      *)
HandlesArp(p) ==
  /\ arp_handle(p) \/ arp_ignore(p)
  /\ UNCHANGED tcp_vars

(* An ARP packet, or a segment that passes both tests *)
KernelTakes ==
  /\ up # <<>> /\ Len(down) <= DownCap
  /\ up' = Tail(up)
  /\ LET frame == Head(up)
     IN \/ /\ frame.kind = "arp"
           /\ HandlesArp(frame.what)
           /\ down' = IF out' # {} THEN Append(down, Arrived("arp", "reply")) ELSE down
        \/ /\ frame.kind = "tcp"
           /\ T!tcp_input_process(frame.what)
           /\ down' = down \o [n \in DOMAIN tcp_out' |-> Arrived("tcp", tcp_out'[n])]
           /\ UNCHANGED vars
  /\ UNCHANGED client

(* A segment that one of the two tests stops: it is dropped in silence.    *)
KernelDrops ==
  /\ up # <<>> /\ Len(down) <= DownCap
  /\ Head(up).kind = "tcp"
  /\ up' = Tail(up)
  /\ UNCHANGED <<vars, tcp_vars, client, down>>

KernelReceives == KernelTakes \/ KernelDrops

NeighbourSpeaks ==
  /\ \E p \in Neighbours : HandlesArp(p)
  /\ UNCHANGED <<client, up, down>>

FrameLost ==
  /\ up # <<>>
  /\ up' = Tail(up)
  /\ UNCHANGED <<vars, tcp_vars, client, down>>

(* The rest of a turn of the main loop *)
Housekeeping ==
  /\ T!health_update_tcp_stats \/ T!net_tx_reaper
  /\ UNCHANGED <<vars, client, up, down>>

PLNext ==
  ClientSends \/ ClientReceives \/ KernelReceives \/ NeighbourSpeaks \/ FrameLost \/ Housekeeping

(* The client repeats itself and takes what arrives, and the main loop     *)
(* takes what comes up.                                                    *)
PLSpec ==
  /\ PLInit /\ [][PLNext]_pl_vars
  /\ WF_pl_vars(ClientSends) /\ WF_pl_vars(ClientReceives) /\ WF_pl_vars(KernelReceives)

(* An ASSUMPTION, which the code does not give: of what the client repeats *)
(* some frames get through the link, and pass the two checksum tests, as   *)
(* often as needed.  It is true of a client that computes both checksums   *)
(* as this kernel does (IpInput!OwnPacketsDelivered).  A client that       *)
(* follows RFC 791 and RFC 793 fails the header test unless the two bytes  *)
(* of its checksum are equal (IpInput!PeerHeaderAccepted is violated): for *)
(* such a client nothing below is claimed.                                 *)
TakenSpec == PLSpec /\ SF_pl_vars(KernelTakes)

-----------------------------------------------------------------------------
(* tcp_input.c:77-117, with no timer and nothing ever sent again by the    *)
(* kernel: whatever is lost on the way to it, by the link or by its own    *)
(* checksum tests (the third segment of the handshake, whose place the     *)
(* request then takes without being read), a client of TakenSpec has the   *)
(* whole response in the end and an end of the connection.                 *)
PageLoaded == <>[](client.state = "closed" /\ client.got = RESP)

(* tcp_input.c:112 'Connection closed gracefully': and the kernel is left  *)
(* with no TCB, although what removes it may be lost or dropped and the    *)
(* client may repeat itself after it is gone.                              *)
TcbReclaimed == <>[](tcp_tcb_list = <<>>)

=============================================================================
