-------------------------------- MODULE Tcp ---------------------------------
(***************************************************************************)
(* The TCP server of src/AetherWebOS/src/drivers/ethernet/tcp (tcp.c,      *)
(* tcp_input.c, tcp_output.c) with the HTTP layer above it (socket.c).     *)
(*                                                                         *)
(* tcp_tcb_list is the C list of TCBs, newest first.  conn stands for the  *)
(* 4-tuple that identifies a connection.  Sequence numbers are taken       *)
(* modulo SEQ_MOD (2^32), ports are told apart only as listening (80) or    *)
(* not, payloads by their length.                                          *)
(* Segments that fail the length or checksum tests never get past the      *)
(* first lines of tcp_input_process and are not listed.                    *)
(*                                                                         *)
(* The peers are unconstrained: any segment may arrive at any time.        *)
(* Every tcp_send_segment may find the heap exhausted; fails says which of *)
(* the sends of a step do.  ipv4_send may lose the segment it is given:    *)
(* the code cannot tell and goes on as if it had been sent.                *)
(*                                                                         *)
(* A TCB's iss, fins and answers are history fields no code reads.  again  *)
(* is one too: it changes with every call of tcp_input_process that sends  *)
(* exactly what the last one sent, so that no call which sends is taken    *)
(* for a step that does nothing.                                           *)
(* tcp_global_isn is declared in tcp_internal.h and defined nowhere in the *)
(* repository; FirstIsn is the value it starts with.                       *)
(***************************************************************************)
EXTENDS Integers, Sequences, FiniteSets, SequencesExt

CONSTANTS
  Conns,        \* the 4-tuples peers use
  Listening,    \* those whose local port is 80
  SEQ_MOD,       \* number of sequence numbers
  FirstIsn,     \* tcp_global_isn when the kernel starts
  ISN_STEP,     \* tcp_global_isn += 1000
  RESP,         \* length of the HTTP response
  Segments,     \* the segments peers may send
  MaxOpen,      \* bound: connections opened in a behaviour
  BufCap,       \* bound: segment buffers counted
  HeapFails     \* TRUE: kmalloc may fail

ASSUME TcpAssumption ==
  /\ Listening \subseteq Conns
  /\ SEQ_MOD \in Nat \ {0} /\ FirstIsn \in 0 .. (SEQ_MOD - 1) /\ ISN_STEP \in Nat /\ RESP \in Nat \ {0}
  /\ RESP + 3 <= ISN_STEP
  /\ MaxOpen \in Nat /\ MaxOpen * ISN_STEP <= SEQ_MOD
  /\ BufCap \in Nat
  /\ HeapFails \in BOOLEAN

Flag == {"SYN", "ACK", "FIN", "RST"}

ASSUME SegmentAssumption ==
  Segments \subseteq [conn : Conns, flags : SUBSET Flag, seq : 0 .. (SEQ_MOD - 1),
                      ack : 0 .. (SEQ_MOD - 1), len : Nat]

VARIABLES
  tcp_tcb_list,     \* the TCBs, newest first
  tcp_global_isn,   \* the next initial sequence number
  out,              \* what the last call of tcp_input_process handed to ipv4_send
  tcp_active,       \* global_net_stats.tcp_active
  seg_bufs,         \* buffers of tcp_send_segment not given back to the heap
  frames,           \* TRUE: frames of ethernet_send wait for net_tx_reaper
  opened,           \* history: number of passive opens
  again             \* history: alternates while the same is sent again

vars == <<tcp_tcb_list, tcp_global_isn, out, tcp_active, seg_bufs, frames, opened, again>>

Init ==
  /\ tcp_tcb_list = << >>
  /\ tcp_global_isn = FirstIsn
  /\ out = << >>
  /\ tcp_active = 0
  /\ seg_bufs = 0
  /\ frames = FALSE
  /\ opened = 0
  /\ again = FALSE

-----------------------------------------------------------------------------
(* Sending.  A work record w carries a TCB and the segments sent for it so *)
(* far in this step; the n-th call of tcp_send_segment fails if n \in fails *)

Mutant_Seq32(n) == n

(* uint32_t arithmetic *)
Seq32(n) == n % SEQ_MOD

(* A FIN takes no number. *)
Mutant_SpaceOf(flags, len) == len + (IF "SYN" \in flags THEN 1 ELSE 0)

(* SYN and FIN occupy one sequence number, the payload its length. *)
SpaceOf(flags, len) == len + (IF flags \cap {"SYN", "FIN"} # {} THEN 1 ELSE 0)

tcp_send_segment(w, flags, len, fails) ==
  IF w.n + 1 \in fails
    THEN [w EXCEPT !.n = @ + 1]
    ELSE [n   |-> w.n + 1,
          tcb |-> [w.tcb EXCEPT !.snd_nxt = Seq32(@ + SpaceOf(flags, len))],
          out |-> Append(w.out, [conn |-> w.tcb.conn, flags |-> flags, seq |-> w.tcb.snd_nxt,
                                 ack |-> w.tcb.rcv_nxt, len |-> len])]

Work(t) == [n |-> 0, tcb |-> t, out |-> << >>]

tcp_send_ack(w, fails) == tcp_send_segment(w, {"ACK"}, 0, fails)
tcp_send_synack(w, fails) == tcp_send_segment(w, {"SYN", "ACK"}, 0, fails)
tcp_send_fin(w, fails) ==
  tcp_send_segment([w EXCEPT !.tcb.fins = @ + 1], {"FIN", "ACK"}, 0, fails)

(* tcp_send_rst copies a header from the stack: no TCB, no heap buffer.    *)
tcp_send_rst(s) ==
  <<[conn |-> s.conn, flags |-> {"RST", "ACK"}, seq |-> s.ack, ack |-> 0, len |-> 0]>>

(* tcp_send_data refuses a connection that is not ESTABLISHED. *)
tcp_send_data(w, len, fails) ==
  IF w.tcb.state # "ESTABLISHED" THEN w
  ELSE tcp_send_segment([w EXCEPT !.tcb.answers = @ + 1], {"ACK"}, len, fails)

(* A close that knows only one of the two states *)
Mutant_tcp_close_half(w, fails) ==
  IF w.tcb.state = "ESTABLISHED"
    THEN tcp_send_fin([w EXCEPT !.tcb.state = "LAST_ACK"], fails)
    ELSE w

(* tcp_close: from both states the FIN goes out and LAST_ACK is entered.   *)
tcp_close(w, fails) ==
  IF w.tcb.state \in {"ESTABLISHED", "CLOSE_WAIT"}
    THEN tcp_send_fin([w EXCEPT !.tcb.state = "LAST_ACK"], fails)
    ELSE w

(* Keep-alive: the connection stays open after the answer. *)
Mutant_socket_dispatch_open(w, fails) == tcp_send_data(w, RESP, fails)

(* socket_dispatch answers whatever it is given (is_http_get is never      *)
(* called), then closes.                                                   *)
socket_dispatch(w, fails) == tcp_close(tcp_send_data(w, RESP, fails), fails)

-----------------------------------------------------------------------------
(* A lookup that skips connections being closed *)
Mutant_tcp_find_tcb(c) ==
  {k \in DOMAIN tcp_tcb_list :
     /\ tcp_tcb_list[k].conn = c
     /\ tcp_tcb_list[k].state # "LAST_ACK"
     /\ \A j \in 1 .. (k - 1) : tcp_tcb_list[j].conn # c}

(* tcp_find_tcb: the first TCB of the list with the segment's 4-tuple      *)
tcp_find_tcb(c) ==
  {k \in DOMAIN tcp_tcb_list :
     /\ tcp_tcb_list[k].conn = c
     /\ \A j \in 1 .. (k - 1) : tcp_tcb_list[j].conn # c}

MaxSends == 5
Fails == IF HeapFails THEN SUBSET (1 .. MaxSends) ELSE {{}}
FailsUpTo(n) == {f \in Fails : f \subseteq 1 .. n}

(* Every segment sent for a TCB was built in a buffer of its own, which    *)
(* ipv4_send copies and tcp_send_segment does not free.                    *)
Emit(segs, bufs) ==
  /\ out' = segs
  /\ again' = (segs # << >> /\ segs = out /\ ~ again)
  /\ frames' = (frames \/ segs # << >>)
  /\ seg_bufs' = IF seg_bufs + bufs > BufCap THEN BufCap ELSE seg_bufs + bufs

(* tcp_allocate_tcb and the fields tcp_input_process sets *)
NewTcb(s) ==
  [conn |-> s.conn, state |-> "SYN_RECEIVED",
   snd_una |-> tcp_global_isn, snd_nxt |-> tcp_global_isn, rcv_nxt |-> Seq32(s.seq + 1),
   iss |-> tcp_global_isn, fins |-> 0, answers |-> 0]

(* tcp_global_isn is not advanced. *)
Mutant_PassiveOpenSameIsn(s, fails) ==
  /\ tcp_find_tcb(s.conn) = {}
  /\ "SYN" \in s.flags /\ s.conn \in Listening
  /\ opened < MaxOpen
  /\ LET w == tcp_send_synack(Work(NewTcb(s)), fails)
     IN /\ tcp_tcb_list' = <<w.tcb>> \o tcp_tcb_list
        /\ Emit(w.out, Len(w.out))
  /\ opened' = opened + 1
  /\ UNCHANGED <<tcp_global_isn, tcp_active>>

(* No TCB, a SYN for port 80: passive open. *)
PassiveOpen(s, fails) ==
  /\ tcp_find_tcb(s.conn) = {}
  /\ "SYN" \in s.flags /\ s.conn \in Listening
  /\ opened < MaxOpen
  /\ LET w == tcp_send_synack(Work(NewTcb(s)), fails)
     IN /\ tcp_tcb_list' = <<w.tcb>> \o tcp_tcb_list
        /\ Emit(w.out, Len(w.out))
  /\ tcp_global_isn' = Seq32(tcp_global_isn + ISN_STEP)
  /\ opened' = opened + 1
  /\ UNCHANGED tcp_active

(* tcp_allocate_tcb fails: the SYN is forgotten. *)
PassiveOpenFails(s) ==
  /\ HeapFails
  /\ tcp_find_tcb(s.conn) = {}
  /\ "SYN" \in s.flags /\ s.conn \in Listening
  /\ Emit(<< >>, 0)
  /\ UNCHANGED <<tcp_tcb_list, tcp_global_isn, tcp_active, opened>>

(* No TCB otherwise: RST, even in answer to a RST. *)
Reject(s) ==
  /\ tcp_find_tcb(s.conn) = {}
  /\ ~("SYN" \in s.flags /\ s.conn \in Listening)
  /\ Emit(tcp_send_rst(s), 0)
  /\ UNCHANGED <<tcp_tcb_list, tcp_global_isn, tcp_active, opened>>

(* The payload that comes with the ACK is counted as received. *)
Mutant_Handshake(s) ==
  \E k \in tcp_find_tcb(s.conn) :
    /\ tcp_tcb_list[k].state = "SYN_RECEIVED"
    /\ "ACK" \in s.flags
    /\ tcp_tcb_list' = [tcp_tcb_list EXCEPT ![k].snd_una = s.ack, ![k].state = "ESTABLISHED",
                                            ![k].rcv_nxt = Seq32(@ + s.len)]
    /\ Emit(<< >>, 0)
    /\ UNCHANGED <<tcp_global_isn, tcp_active, opened>>

(* SYN_RECEIVED: any ACK completes the handshake; everything else about    *)
(* the segment, its payload included, is ignored.                          *)
Handshake(s) ==
  \E k \in tcp_find_tcb(s.conn) :
    /\ tcp_tcb_list[k].state = "SYN_RECEIVED"
    /\ "ACK" \in s.flags
    /\ tcp_tcb_list' = [tcp_tcb_list EXCEPT ![k].snd_una = s.ack, ![k].state = "ESTABLISHED"]
    /\ Emit(<< >>, 0)
    /\ UNCHANGED <<tcp_global_isn, tcp_active, opened>>

(* ESTABLISHED: in-order payload is dispatched and acknowledged ...        *)
Receive(w, s, fails) ==
  IF s.len > 0 /\ s.seq = w.tcb.rcv_nxt
    THEN tcp_send_ack(
           socket_dispatch([w EXCEPT !.tcb.rcv_nxt = Seq32(@ + s.len)], fails), fails)
    ELSE w

(* ... then a FIN is acknowledged whatever its sequence number, and the    *)
(* connection closed from our side too.                                    *)
Finish(w, s, fails) ==
  IF "FIN" \in s.flags
    THEN LET acked == tcp_send_ack([w EXCEPT !.tcb.rcv_nxt = Seq32(s.seq + 1)], fails)
         IN tcp_close([acked EXCEPT !.tcb.state = "CLOSE_WAIT"], fails)
    ELSE w

Established(s, fails) ==
  \E k \in tcp_find_tcb(s.conn) :
    /\ tcp_tcb_list[k].state = "ESTABLISHED"
    /\ LET w == Finish(Receive(Work(tcp_tcb_list[k]), s, fails), s, fails)
       IN /\ fails \subseteq 1 .. w.n    \* only sends that take place can fail
          /\ tcp_tcb_list' = [tcp_tcb_list EXCEPT ![k] = w.tcb]
          /\ Emit(w.out, Len(w.out))
    /\ UNCHANGED <<tcp_global_isn, tcp_active, opened>>

(* A removal that forgets prev: the list starts after the removed TCB. *)
Mutant_tcp_remove_tcb(k) == SubSeq(tcp_tcb_list, k + 1, Len(tcp_tcb_list))

tcp_remove_tcb(k) == RemoveAt(tcp_tcb_list, k)

(* The flag that removes a TCB: in LAST_ACK any ACK; in the default branch *)
(* of the switch, for the other states, RST.                               *)
RemovingFlags(state) ==
  CASE state = "LAST_ACK" -> {"ACK"}
    [] state \in {"SYN_RECEIVED", "ESTABLISHED"} -> {}
    [] OTHER -> {"RST"}

Close(s) ==
  \E k \in tcp_find_tcb(s.conn) :
    /\ s.flags \cap RemovingFlags(tcp_tcb_list[k].state) # {}
    /\ tcp_tcb_list' = tcp_remove_tcb(k)
    /\ Emit(<< >>, 0)
    /\ UNCHANGED <<tcp_global_isn, tcp_active, opened>>

(* Segments no branch acts on *)
Ignore(s) ==
  \E k \in tcp_find_tcb(s.conn) :
    /\ tcp_tcb_list[k].state # "ESTABLISHED"
    /\ tcp_tcb_list[k].state = "SYN_RECEIVED" => "ACK" \notin s.flags
    /\ s.flags \cap RemovingFlags(tcp_tcb_list[k].state) = {}
    /\ Emit(<< >>, 0)
    /\ UNCHANGED <<tcp_tcb_list, tcp_global_isn, tcp_active, opened>>

(* health_update_tcp_stats, at the end of every turn of the main loop *)
health_update_tcp_stats ==
  /\ tcp_active' = Cardinality({k \in DOMAIN tcp_tcb_list : tcp_tcb_list[k].state = "ESTABLISHED"})
  /\ UNCHANGED <<tcp_tcb_list, tcp_global_isn, out, seg_bufs, frames, opened, again>>

(* net_tx_reaper: the frames were sent, and ethernet_send's copies freed   *)
net_tx_reaper ==
  /\ frames
  /\ frames' = FALSE
  /\ UNCHANGED <<tcp_tcb_list, tcp_global_isn, out, tcp_active, seg_bufs, opened, again>>

tcp_input_process(s) ==
  \/ \E f \in FailsUpTo(1) : PassiveOpen(s, f)
  \/ PassiveOpenFails(s)
  \/ Reject(s)
  \/ Handshake(s)
  \/ \E f \in Fails : Established(s, f)
  \/ Close(s)
  \/ Ignore(s)

Next ==
  \/ \E s \in Segments : tcp_input_process(s)
  \/ health_update_tcp_stats
  \/ net_tx_reaper

Spec == Init /\ [][Next]_vars

-----------------------------------------------------------------------------
States == {"CLOSED", "LISTEN", "SYN_RECEIVED", "ESTABLISHED", "CLOSE_WAIT",
           "LAST_ACK", "TIME_WAIT"}

SeqNums == 0 .. (SEQ_MOD - 1)

Tcbs == [conn : Conns, state : States, snd_una : SeqNums, snd_nxt : SeqNums,
         rcv_nxt : SeqNums, iss : SeqNums, fins : Nat, answers : Nat]

(* Type invariant. *)
TypeOK ==
  /\ tcp_tcb_list \in Seq(Tcbs)
  /\ tcp_global_isn \in SeqNums
  /\ out \in Seq([conn : Conns, flags : SUBSET Flag, seq : SeqNums, ack : SeqNums, len : Nat])
  /\ tcp_active \in Nat
  /\ seg_bufs \in 0 .. BufCap
  /\ frames \in BOOLEAN
  /\ opened \in 0 .. MaxOpen
  /\ again \in BOOLEAN

(* tcp.c:75 "Strict 4-tuple lookup": however SYNs are repeated, connections *)
(* closed and reopened, a 4-tuple has at most one TCB; a second one could   *)
(* never be found or removed again.                                         *)
UniqueTuple ==
  \A j, k \in DOMAIN tcp_tcb_list :
    tcp_tcb_list[j].conn = tcp_tcb_list[k].conn => j = k

(* Between two segments a TCB is in one of three states, CLOSE_WAIT being   *)
(* left in the step that enters it: the default branch of the switch, the   *)
(* only one that looks at RST, is never taken.                              *)
AtRest ==
  \A k \in DOMAIN tcp_tcb_list :
    tcp_tcb_list[k].state \in {"SYN_RECEIVED", "ESTABLISHED", "LAST_ACK"}

(* What a TCB has sent: its SYN, the response and at most two FINs. *)
Sent(t) == {Seq32(t.iss + n) : n \in 0 .. (Seq32(t.snd_nxt - t.iss) - 1)}

(* The 1000 numbers reserved for a connection (tcp_input.c:63) are enough   *)
(* for all it ever sends, so no two connections that live at the same time  *)
(* use a sequence number twice, across the wrap of the 32-bit counter too.  *)
SeqRangesDisjoint ==
  /\ \A k \in DOMAIN tcp_tcb_list :
       Seq32(tcp_tcb_list[k].snd_nxt - tcp_tcb_list[k].iss) <= ISN_STEP
  /\ \A j, k \in DOMAIN tcp_tcb_list :
       j # k => Sent(tcp_tcb_list[j]) \cap Sent(tcp_tcb_list[k]) = {}

(* A request is answered once: a segment sent again, an answer that could   *)
(* not be sent, or data sent with a FIN never makes the server respond a    *)
(* second time on the same connection.                                      *)
AnsweredOnce == \A k \in DOMAIN tcp_tcb_list : tcp_tcb_list[k].answers <= 1

(* A connection is named by its conn and iss here. *)
IdsIn(list) == {[conn |-> list[k].conn, iss |-> list[k].iss] : k \in DOMAIN list}

(* The only way out of the list: closing one connection, from LAST_ACK,    *)
(* takes away that connection and no other.                                 *)
OnlyClosedLeaves ==
  [][\A k \in DOMAIN tcp_tcb_list :
       [conn |-> tcp_tcb_list[k].conn, iss |-> tcp_tcb_list[k].iss] \notin IdsIn(tcp_tcb_list')
         => /\ tcp_tcb_list[k].state = "LAST_ACK"
            /\ Len(tcp_tcb_list') = Len(tcp_tcb_list) - 1]_vars

(* What a segment occupies of the sequence space (RFC 793, 3.3): one number *)
(* for each byte, one for a SYN and one for a FIN.                          *)
Occupies(s) ==
  s.len + (IF "SYN" \in s.flags THEN 1 ELSE 0) + (IF "FIN" \in s.flags THEN 1 ELSE 0)

(* The number right after the first n of segs, which start at first *)
NumberAfter(segs, n, first) == IF n = 0 THEN first ELSE Seq32(segs[n].seq + Occupies(segs[n]))

(* segs are numbered from first on, without gap or overlap, and next follows. *)
Contiguous(segs, first, next) ==
  /\ \A n \in DOMAIN segs : segs[n].seq = NumberAfter(segs, n - 1, first)
  /\ next = NumberAfter(segs, Len(segs), first)

(* Where a connection continues: at the number after all it had sent before *)
(* the step or, when the step opens it, at its initial number.              *)
Continues(t) ==
  LET before == {k \in DOMAIN tcp_tcb_list :
                   tcp_tcb_list[k].conn = t.conn /\ tcp_tcb_list[k].iss = t.iss}
  IN IF before = {} THEN {t.iss} ELSE {tcp_tcb_list[k].snd_nxt : k \in before}

(* segs, sent in the step that leaves the connection as t, are its next ones *)
(* if they are its own, and otherwise it has used no number.                 *)
Numbered(t, segs) ==
  \A first \in Continues(t) :
    IF \E n \in DOMAIN segs : segs[n].conn = t.conn
      THEN /\ \A n \in DOMAIN segs : segs[n].conn = t.conn
           /\ Contiguous(segs, first, t.snd_nxt)
      ELSE t.snd_nxt = first

(* Nothing with payload follows a FIN: not in this step, and not in one     *)
(* after the connection t sent its FIN.                                     *)
NothingAfterFin(t, segs) ==
  \A n \in DOMAIN segs :
    segs[n].conn = t.conn /\ segs[n].len > 0
      => t.fins = 0 /\ \A m \in 1 .. (n - 1) : "FIN" \notin segs[m].flags

(* Every call of tcp_input_process, whichever of its sends fail: each       *)
(* segment of a connection carries the number right after everything sent   *)
(* before on it, earlier in the same call included, snd_nxt is left right   *)
(* after the last one, no other connection's numbers move, and once a FIN   *)
(* was sent no payload follows it.                                          *)
SentInOrder ==
  [][out' = << >> \/ <<out, again>>' # <<out, again>>
       => /\ \A k \in DOMAIN tcp_tcb_list' : Numbered(tcp_tcb_list'[k], out')
          /\ \A k \in DOMAIN tcp_tcb_list : NothingAfterFin(tcp_tcb_list[k], out')]_vars

-----------------------------------------------------------------------------
(* tcp_output.c:67 "buffer is freed by net_tx_reaper": when the reaper has  *)
(* run and no frame is queued, no segment buffer is left.                   *)
SegmentBuffersFreed == ~frames => seg_bufs = 0

=============================================================================
