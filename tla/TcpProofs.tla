----------------------------- MODULE TcpProofs ------------------------------
(***************************************************************************)
(* Proofs about module Tcp, for every set of peers and segments, every     *)
(* width of the sequence numbers and every length of the response that     *)
(* the assumptions of Tcp allow, whichever allocations fail.               *)
(*                                                                         *)
(* Sequence numbers are counted from a connection's initial one: a TCB is  *)
(* at offset off when snd_nxt = iss + off (mod 2^32).  The n-th connection *)
(* ever opened has the initial number Iss(n).                              *)
(***************************************************************************)
EXTENDS Tcp, NumberLemmas, FiniteSetTheorems, SequenceTheorems, TLAPS

OutSegs == [conn : Conns, flags : SUBSET Flag, seq : SeqNums, ack : SeqNums, len : Nat]
Works == [n : Nat, tcb : Tcbs, out : Seq(OutSegs)]

Iss(n) == Seq32(FirstIsn + n * ISN_STEP)
AtOffset(t, off) == t.snd_nxt = Seq32(t.iss + off)

(* How far a TCB in this state can have come: its SYN, then the response,  *)
(* and two FINs at most.                                                   *)
OffsetsIn(state) == IF state = "LAST_ACK" THEN 0 .. RESP + 3 ELSE 0 .. 1

(* A TCB between two segments *)
Sound(t) ==
  /\ t.state \in {"SYN_RECEIVED", "ESTABLISHED", "LAST_ACK"}
  /\ t.state # "LAST_ACK" => t.answers = 0 /\ t.fins = 0
  /\ t.answers <= 1
  /\ \E off \in OffsetsIn(t.state) : AtOffset(t, off)

(* Every TCB's initial number is that of a connection opened before, and   *)
(* no two have the same.                                                   *)
NumbersGiven ==
  /\ tcp_global_isn = Iss(opened)
  /\ \A k \in DOMAIN tcp_tcb_list : \E n \in 0 .. opened - 1 : tcp_tcb_list[k].iss = Iss(n)
  /\ \A j, k \in DOMAIN tcp_tcb_list : tcp_tcb_list[j].iss = tcp_tcb_list[k].iss => j = k

TcpInv ==
  /\ UniqueTuple
  /\ \A k \in DOMAIN tcp_tcb_list : Sound(tcp_tcb_list[k])
  /\ NumbersGiven

-----------------------------------------------------------------------------
LEMMA ConstLemma ==
  /\ SEQ_MOD \in Nat \ {0} /\ ISN_STEP \in Nat /\ RESP \in Nat \ {0} /\ MaxOpen \in Nat
  /\ FirstIsn \in SeqNums /\ RESP + 3 <= ISN_STEP /\ BufCap \in Nat
  /\ 0 \in SeqNums
  BY TcpAssumption DEF SeqNums

LEMMA SegmentLemma ==
  ASSUME NEW s \in Segments
  PROVE  /\ s.conn \in Conns /\ s.flags \in SUBSET Flag
         /\ s.seq \in SeqNums /\ s.ack \in SeqNums /\ s.len \in Nat
         /\ s.seq \in Nat
  BY SegmentAssumption DEF SeqNums

(* 32-bit arithmetic *)
LEMMA Seq32Lemma ==
  ASSUME NEW a \in Int, NEW c \in Int
  PROVE  /\ Seq32(a) \in SeqNums
         /\ Seq32(a) \in Int
         /\ Seq32(Seq32(a) + c) = Seq32(a + c)
  <1>1. a % SEQ_MOD \in 0 .. SEQ_MOD - 1
    BY ConstLemma, IntDivModType
  <1>2. ((a % SEQ_MOD) + c) % SEQ_MOD = (a + c) % SEQ_MOD
    BY ConstLemma, ModAdd
  <1> QED
    BY <1>1, <1>2, ConstLemma DEF Seq32, SeqNums

(* The distance from the initial number is the offset. *)
LEMMA OffsetLemma ==
  ASSUME NEW iss \in SeqNums, NEW off \in SeqNums
  PROVE  Seq32(Seq32(iss + off) - iss) = off
  <1>1. iss \in Int /\ off \in Int
    BY DEF SeqNums
  <1>2. Seq32(Seq32(iss + off) + (-iss)) = Seq32((iss + off) + (-iss))
    BY <1>1, Seq32Lemma
  <1>3. (iss + off) + (-iss) = off /\ Seq32(iss + off) \in Int
    BY <1>1, Seq32Lemma
  <1>4. Seq32(off) = off
    BY ModSmall, ConstLemma DEF Seq32, SeqNums
  <1>5. Seq32(iss + off) + (-iss) = Seq32(iss + off) - iss
    BY <1>1, <1>3
  <1> QED
    BY <1>2, <1>3, <1>4, <1>5

-----------------------------------------------------------------------------
(* The list, with a TCB put in front or taken out *)
LEMMA PushLemma ==
  ASSUME NEW S, NEW s \in Seq(S), NEW x \in S
  PROVE  /\ <<x>> \o s \in Seq(S)
         /\ Len(<<x>> \o s) = Len(s) + 1
         /\ (<<x>> \o s)[1] = x
         /\ \A k \in 1 .. Len(s) : (<<x>> \o s)[k + 1] = s[k]
  <1>1. <<x>> \in Seq(S) /\ Len(<<x>>) = 1 /\ <<x>>[1] = x /\ Len(s) \in Nat
    OBVIOUS
  <1> DEFINE one == <<x>>
  <1> HIDE DEF one
  <1>2. /\ one \in Seq(S) /\ Len(one) = 1 /\ one[1] = x
    BY <1>1 DEF one
  <1>3. /\ one \o s \in Seq(S)
        /\ Len(one \o s) = Len(one) + Len(s)
        /\ \A i \in 1 .. Len(one) + Len(s) :
             (one \o s)[i] = IF i <= Len(one) THEN one[i] ELSE s[i - Len(one)]
    BY <1>2, ConcatProperties
  <1>4. Len(one \o s) = Len(s) + 1 /\ (one \o s)[1] = x
    BY <1>1, <1>2, <1>3
  <1>5. ASSUME NEW k \in 1 .. Len(s) PROVE (one \o s)[k + 1] = s[k]
    <2>1. k + 1 \in 1 .. 1 + Len(s) /\ ~ (k + 1 <= 1) /\ (k + 1) - 1 = k
      BY <1>1
    <2> QED
      BY <1>2, <1>3, <2>1
  <1> QED
    BY <1>3, <1>4, <1>5 DEF one

LEMMA RemoveLemma ==
  ASSUME NEW S, NEW s \in Seq(S), NEW i \in 1 .. Len(s)
  PROVE  /\ RemoveAt(s, i) \in Seq(S)
         /\ Len(RemoveAt(s, i)) = Len(s) - 1
         /\ \A k \in 1 .. i - 1 : RemoveAt(s, i)[k] = s[k]
         /\ \A k \in i .. Len(s) - 1 : RemoveAt(s, i)[k] = s[k + 1]
  <1> DEFINE a == SubSeq(s, 1, i - 1)
             b == SubSeq(s, i + 1, Len(s))
  <1>1. i \in Nat /\ Len(s) \in Nat /\ 1 <= i /\ i <= Len(s)
    OBVIOUS
  <1>2. /\ a \in Seq(S) /\ Len(a) = i - 1
        /\ \A k \in 1 .. i - 1 : a[k] = s[k]
    <2>1. \A k \in 1 .. i - 1 : s[k] \in S
      BY <1>1
    <2>2. /\ a \in Seq(S)
          /\ Len(a) = IF 1 <= i - 1 THEN (i - 1) - 1 + 1 ELSE 0
          /\ \A k \in 1 .. (i - 1) - 1 + 1 : a[k] = s[1 + k - 1]
      BY <1>1, <2>1, SubSeqProperties
    <2> HIDE DEF a
    <2>3. Len(a) = i - 1
      BY <1>1, <2>2
    <2>4. \A k \in 1 .. i - 1 : a[k] = s[k]
      <3> TAKE k \in 1 .. i - 1
      <3>1. k \in 1 .. (i - 1) - 1 + 1 /\ 1 + k - 1 = k
        BY <1>1
      <3> QED
        BY <2>2, <3>1
    <2> QED
      BY <2>2, <2>3, <2>4
  <1>3. /\ b \in Seq(S) /\ Len(b) = Len(s) - i
        /\ \A k \in 1 .. Len(s) - i : b[k] = s[i + k]
    <2>1. \A k \in i + 1 .. Len(s) : s[k] \in S
      BY <1>1
    <2>2. /\ b \in Seq(S)
          /\ Len(b) = IF i + 1 <= Len(s) THEN Len(s) - (i + 1) + 1 ELSE 0
          /\ \A k \in 1 .. Len(s) - (i + 1) + 1 : b[k] = s[(i + 1) + k - 1]
      BY <1>1, <2>1, SubSeqProperties
    <2> HIDE DEF b
    <2>3. Len(b) = Len(s) - i
      BY <1>1, <2>2
    <2>4. \A k \in 1 .. Len(s) - i : b[k] = s[i + k]
      <3> TAKE k \in 1 .. Len(s) - i
      <3>1. k \in 1 .. Len(s) - (i + 1) + 1 /\ (i + 1) + k - 1 = i + k
        BY <1>1
      <3> QED
        BY <2>2, <3>1
    <2> QED
      BY <2>2, <2>3, <2>4
  <1>4. RemoveAt(s, i) = a \o b
    BY DEF RemoveAt
  <1> HIDE DEF a, b
  <1>5. /\ a \o b \in Seq(S)
        /\ Len(a \o b) = Len(a) + Len(b)
        /\ \A k \in 1 .. Len(a) + Len(b) :
             (a \o b)[k] = IF k <= Len(a) THEN a[k] ELSE b[k - Len(a)]
    BY <1>2, <1>3, ConcatProperties
  <1>6. ASSUME NEW k \in 1 .. i - 1 PROVE (a \o b)[k] = s[k]
    BY <1>1, <1>2, <1>3, <1>5
  <1>7. ASSUME NEW k \in i .. Len(s) - 1 PROVE (a \o b)[k] = s[k + 1]
    <2>1. k \in 1 .. Len(a) + Len(b) /\ ~ (k <= Len(a)) /\ k - Len(a) = k - i + 1
      BY <1>1, <1>2, <1>3
    <2>2. k - i + 1 \in 1 .. Len(s) - i /\ i + (k - i + 1) = k + 1
      BY <1>1
    <2> QED
      BY <1>3, <1>5, <2>1, <2>2, SMTT(30)
  <1> QED
    BY <1>1, <1>2, <1>3, <1>4, <1>5, <1>6, <1>7

-----------------------------------------------------------------------------
(* Sending.  w is work done for the TCB t: the connection is now at offset *)
(* off, what was sent lies between without a gap, and only the first       *)
(* segment sent carries payload.                                           *)
Progress(w, t, off) ==
  /\ w \in Works
  /\ w.tcb.conn = t.conn /\ w.tcb.iss = t.iss
  /\ AtOffset(w.tcb, off)
  /\ \A n \in 1 .. Len(w.out) : w.out[n].conn = t.conn
  /\ Contiguous(w.out, t.snd_nxt, w.tcb.snd_nxt)
  /\ \A n \in 2 .. Len(w.out) : w.out[n].len = 0

SameButSent(t, u) ==
  /\ u.conn = t.conn /\ u.state = t.state /\ u.iss = t.iss
  /\ u.fins = t.fins /\ u.answers = t.answers /\ u.rcv_nxt = t.rcv_nxt

(* r is w with one segment sent, or as good as none. *)
OneSent(w, r, flags, len) ==
  /\ r.tcb.snd_nxt = Seq32(w.tcb.snd_nxt + SpaceOf(flags, len))
  /\ \E seg \in OutSegs :
       /\ seg.conn = w.tcb.conn /\ seg.seq = w.tcb.snd_nxt /\ seg.len = len
       /\ seg.flags = flags
       /\ r.out = Append(w.out, seg)
NoneSent(w, r) == r.out = w.out /\ r.tcb.snd_nxt = w.tcb.snd_nxt

(* What a call of tcp_send_segment changes, and what it hands to IP *)
LEMMA SendEffect ==
  ASSUME NEW w \in Works, NEW flags \in SUBSET Flag, NEW len \in Nat, NEW fails,
         NEW r, r = tcp_send_segment(w, flags, len, fails)
  PROVE  /\ r \in Works
         /\ SameButSent(w.tcb, r.tcb)
         /\ NoneSent(w, r) \/ OneSent(w, r, flags, len)
  <1>1. w.n \in Nat /\ w.tcb \in Tcbs /\ w.out \in Seq(OutSegs)
    BY DEF Works
  <1>2. CASE w.n + 1 \in fails
    <2>1. r = [w EXCEPT !.n = @ + 1]
      BY <1>2 DEF tcp_send_segment
    <2> QED
      BY <1>1, <2>1 DEF Works, SameButSent, NoneSent
  <1>3. CASE w.n + 1 \notin fails
    <2> DEFINE nxt == Seq32(w.tcb.snd_nxt + SpaceOf(flags, len))
               u == [w.tcb EXCEPT !.snd_nxt = nxt]
               seg == [conn |-> w.tcb.conn, flags |-> flags, seq |-> w.tcb.snd_nxt,
                       ack |-> w.tcb.rcv_nxt, len |-> len]
    <2>1. SpaceOf(flags, len) \in Nat
      BY DEF SpaceOf
    <2>2. nxt \in SeqNums
      <3>1. w.tcb.snd_nxt + SpaceOf(flags, len) \in Int
        BY <1>1, <2>1 DEF Tcbs, SeqNums
      <3> QED
        BY <3>1, Seq32Lemma
    <2>3. r = [n |-> w.n + 1, tcb |-> u, out |-> Append(w.out, seg)]
      BY <1>3 DEF tcp_send_segment
    <2> HIDE DEF nxt
    <2>4. u \in Tcbs /\ SameButSent(w.tcb, u) /\ u.snd_nxt = nxt
      BY <1>1, <2>2 DEF Tcbs, SameButSent
    <2>5. seg \in OutSegs
      BY <1>1 DEF OutSegs, Tcbs
    <2>6. seg.conn = w.tcb.conn /\ seg.seq = w.tcb.snd_nxt /\ seg.len = len /\ seg.flags = flags
      OBVIOUS
    <2> HIDE DEF u, seg
    <2>7. r \in Works /\ r.tcb = u /\ r.out = Append(w.out, seg)
      BY <1>1, <2>3, <2>4, <2>5 DEF Works
    <2> QED
      BY <2>4, <2>5, <2>6, <2>7 DEF nxt, OneSent
  <1> QED
    BY <1>2, <1>3

(* What was sent stays contiguous with one more segment at its end. *)
LEMMA AppendContiguous ==
  ASSUME NEW segs \in Seq(OutSegs), NEW seg \in OutSegs, NEW first, NEW next,
         Contiguous(segs, first, next), seg.seq = next
  PROVE  Contiguous(Append(segs, seg), first, Seq32(next + Occupies(seg)))
  <1> DEFINE more == Append(segs, seg)
  <1>1. /\ Len(segs) \in Nat /\ DOMAIN segs = 1 .. Len(segs)
        /\ Len(more) = Len(segs) + 1 /\ DOMAIN more = 1 .. Len(segs) + 1
        /\ more[Len(segs) + 1] = seg
        /\ \A n \in 1 .. Len(segs) : more[n] = segs[n]
    OBVIOUS
  <1> HIDE DEF more
  <1>2. ASSUME NEW n \in 0 .. Len(segs)
        PROVE  NumberAfter(more, n, first) = NumberAfter(segs, n, first)
    BY <1>1 DEF NumberAfter
  <1>3. \A n \in 1 .. Len(segs) : segs[n].seq = NumberAfter(segs, n - 1, first)
    BY <1>1 DEF Contiguous
  <1>4. next = NumberAfter(segs, Len(segs), first)
    BY DEF Contiguous
  <1>5. ASSUME NEW n \in 1 .. Len(segs) + 1
        PROVE  more[n].seq = NumberAfter(more, n - 1, first)
    <2>1. n - 1 \in 0 .. Len(segs)
      BY <1>1
    <2>2. NumberAfter(more, n - 1, first) = NumberAfter(segs, n - 1, first)
      BY <1>2, <2>1
    <2>3. CASE n = Len(segs) + 1
      <3>1. n - 1 = Len(segs)
        BY <1>1, <2>3
      <3> QED
        BY <1>1, <1>4, <2>2, <2>3, <3>1
    <2>4. CASE n \in 1 .. Len(segs)
      BY <1>1, <1>3, <2>2, <2>4
    <2> QED
      BY <1>1, <2>3, <2>4
  <1>6. NumberAfter(more, Len(segs) + 1, first) = Seq32(more[Len(segs) + 1].seq
                                                       + Occupies(more[Len(segs) + 1]))
    BY <1>1 DEF NumberAfter
  <1>7. NumberAfter(more, Len(more), first) = Seq32(next + Occupies(seg))
    BY <1>1, <1>6
  <1> QED
    BY <1>1, <1>5, <1>7 DEF Contiguous, more

(* The flags tcp_send_segment is called with: never a SYN and a FIN at once *)
Sendable == {{"ACK"}, {"SYN", "ACK"}, {"FIN", "ACK"}}

LEMMA SendableLemma ==
  ASSUME NEW flags \in Sendable
  PROVE  flags \in SUBSET Flag /\ ~ ("SYN" \in flags /\ "FIN" \in flags)
  BY DEF Sendable, Flag

LEMMA SendProgress ==
  ASSUME NEW t \in Tcbs, NEW off \in Nat, NEW w,
         Progress(w, t, off),
         NEW flags \in Sendable, NEW len \in Nat, NEW fails,
         len = 0 \/ w.out = << >>,
         NEW r, r = tcp_send_segment(w, flags, len, fails)
  PROVE  /\ SameButSent(w.tcb, r.tcb)
         /\ \E d \in {0, SpaceOf(flags, len)} : Progress(r, t, off + d)
  <1>1. w \in Works /\ t.iss \in Int /\ flags \in SUBSET Flag
    BY SendableLemma DEF Progress, Tcbs, SeqNums
  <1>2. /\ r \in Works
        /\ SameButSent(w.tcb, r.tcb)
    BY <1>1, SendEffect
  <1>4. ASSUME r.tcb.snd_nxt = Seq32(w.tcb.snd_nxt + SpaceOf(flags, len)),
               NEW seg \in OutSegs,
               seg.conn = w.tcb.conn, seg.seq = w.tcb.snd_nxt, seg.len = len,
               seg.flags = flags, r.out = Append(w.out, seg)
        PROVE  Progress(r, t, off + SpaceOf(flags, len))
    <2>1. SpaceOf(flags, len) \in Nat
      BY DEF SpaceOf
    <2>2. w.out \in Seq(OutSegs)
      BY <1>1 DEF Works
    <2>3. /\ Len(r.out) = Len(w.out) + 1 /\ Len(w.out) \in Nat
          /\ r.out[Len(w.out) + 1] = seg
          /\ \A n \in 1 .. Len(w.out) : r.out[n] = w.out[n]
      BY <1>4, <2>2
    <2>4. AtOffset(r.tcb, off + SpaceOf(flags, len))
      <3> DEFINE d == SpaceOf(flags, len)
      <3>1. w.tcb.snd_nxt = Seq32(t.iss + off) /\ r.tcb.iss = t.iss
        BY <1>2 DEF Progress, AtOffset, SameButSent
      <3> HIDE DEF d
      <3>2. d \in Int /\ t.iss + off \in Int
        BY <1>1, <2>1 DEF d
      <3>3. Seq32(Seq32(t.iss + off) + d) = Seq32((t.iss + off) + d)
        BY <3>2, Seq32Lemma
      <3>4. (t.iss + off) + d = t.iss + (off + d)
        BY <1>1, <3>2
      <3> QED
        BY <1>4, <3>1, <3>3, <3>4 DEF AtOffset, d
    <2>5. ASSUME NEW n \in 1 .. Len(r.out) PROVE r.out[n].conn = t.conn
      <3>1. CASE n = Len(w.out) + 1
        BY <1>4, <2>3, <3>1 DEF Progress
      <3>2. CASE n \in 1 .. Len(w.out)
        BY <2>3, <3>2 DEF Progress
      <3> QED
        BY <2>3, <3>1, <3>2
    <2>7. Contiguous(r.out, t.snd_nxt, r.tcb.snd_nxt)
      <3>1. Occupies(seg) = SpaceOf(flags, len)
        BY <1>4, SendableLemma DEF Occupies, SpaceOf
      <3>2. Contiguous(w.out, t.snd_nxt, w.tcb.snd_nxt)
        BY DEF Progress
      <3>3. Contiguous(Append(w.out, seg), t.snd_nxt, Seq32(w.tcb.snd_nxt + Occupies(seg)))
        BY <1>4, <2>2, <3>2, AppendContiguous
      <3> QED
        BY <1>4, <3>1, <3>3
    <2>6. ASSUME NEW n \in 2 .. Len(r.out) PROVE r.out[n].len = 0
      <3>1. CASE n = Len(w.out) + 1
        <4>1. w.out # << >>
          BY <2>3, <3>1
        <4> QED
          BY <1>4, <2>3, <3>1, <4>1
      <3>2. CASE n \in 2 .. Len(w.out)
        <4>1. w.out[n].len = 0
          BY <3>2 DEF Progress
        <4>2. n \in 1 .. Len(w.out)
          BY <2>3, <3>2
        <4> QED
          BY <2>3, <4>1, <4>2
      <3> QED
        BY <2>3, <3>1, <3>2, SMTT(30)
    <2> QED
      BY <1>2, <2>4, <2>5, <2>6, <2>7 DEF Progress, SameButSent
  <1>5. ASSUME OneSent(w, r, flags, len)
        PROVE  Progress(r, t, off + SpaceOf(flags, len))
    BY <1>4, <1>5 DEF OneSent
  <1>6. ASSUME NoneSent(w, r) PROVE Progress(r, t, off + 0)
    <2>1. Progress(r, t, off)
      BY <1>2, <1>6 DEF Progress, SameButSent, AtOffset, NoneSent
    <2>2. off + 0 = off
      OBVIOUS
    <2> QED
      BY <2>1, <2>2
  <1>7. NoneSent(w, r) \/ OneSent(w, r, flags, len)
    BY <1>1, SendEffect
  <1> QED
    <2> DEFINE P(d) == Progress(r, t, off + d)
    <2>1. P(0) \/ P(SpaceOf(flags, len))
      BY <1>5, <1>6, <1>7
    <2> HIDE DEF P
    <2>2. \E d \in {0, SpaceOf(flags, len)} : P(d)
      BY <2>1
    <2> QED
      BY <1>2, <2>2 DEF P

(* A change of the TCB that is not about what was sent *)
LEMMA EditProgress ==
  ASSUME NEW t, NEW off, NEW w, Progress(w, t, off),
         NEW u \in Tcbs, u.conn = w.tcb.conn, u.iss = w.tcb.iss, u.snd_nxt = w.tcb.snd_nxt,
         NEW v, v = [w EXCEPT !.tcb = u]
  PROVE  Progress(v, t, off) /\ v.tcb = u /\ v.out = w.out
  <1>1. w \in Works
    BY DEF Progress
  <1>2. v \in Works /\ v.tcb = u /\ v.out = w.out
    BY <1>1 DEF Works
  <1> QED
    BY <1>2 DEF Progress, AtOffset

(* The request was answered and the connection closed in this step. *)
Answered(w, t) ==
  /\ w.tcb.state = "LAST_ACK" /\ w.tcb.answers = 1
  /\ \E off \in 0 .. RESP + 2 : Progress(w, t, off)

(* tcp_close sends the FIN of a connection that is still open. *)
LEMMA CloseProgress ==
  ASSUME NEW t \in Tcbs, NEW off \in Nat, NEW w,
         Progress(w, t, off), w.tcb.state \in {"ESTABLISHED", "CLOSE_WAIT"}, NEW fails,
         NEW r, r = tcp_close(w, fails)
  PROVE  /\ r.tcb.state = "LAST_ACK" /\ r.tcb.answers = w.tcb.answers
         /\ \E o \in off .. off + 1 : Progress(r, t, o)
  <1> DEFINE u1 == [w.tcb EXCEPT !.state = "LAST_ACK"]
             v1 == [w EXCEPT !.tcb = u1]
             u2 == [u1 EXCEPT !.fins = @ + 1]
             v2 == [v1 EXCEPT !.tcb = u2]
  <1>1. w \in Works /\ w.tcb \in Tcbs
    BY DEF Progress, Works
  <1>2. u1 \in Tcbs /\ u1.conn = w.tcb.conn /\ u1.iss = w.tcb.iss /\ u1.snd_nxt = w.tcb.snd_nxt
        /\ u1.state = "LAST_ACK" /\ u1.answers = w.tcb.answers
    BY <1>1 DEF Tcbs, States
  <1>3. v1 = [w EXCEPT !.tcb.state = "LAST_ACK"]
    OBVIOUS
  <1> HIDE DEF u1, v1
  <1>4. Progress(v1, t, off) /\ v1.tcb = u1 /\ v1.out = w.out
    BY <1>2, EditProgress DEF v1
  <1>5. u2 \in Tcbs /\ u2.conn = u1.conn /\ u2.iss = u1.iss /\ u2.snd_nxt = u1.snd_nxt
        /\ u2.state = "LAST_ACK" /\ u2.answers = w.tcb.answers
    BY <1>2 DEF Tcbs
  <1>6. v2 = [v1 EXCEPT !.tcb.fins = @ + 1]
    BY <1>4
  <1> HIDE DEF u2, v2
  <1>7. Progress(v2, t, off) /\ v2.tcb = u2
    BY <1>4, <1>5, EditProgress DEF v2
  <1>8. r = tcp_send_segment(v2, {"FIN", "ACK"}, 0, fails)
    BY <1>3, <1>6 DEF tcp_close, tcp_send_fin
  <1>9. /\ {"FIN", "ACK"} \in Sendable /\ SpaceOf({"FIN", "ACK"}, 0) = 1
    BY DEF Sendable, SpaceOf
  <1>10. /\ SameButSent(v2.tcb, r.tcb)
         /\ \E d \in {0, SpaceOf({"FIN", "ACK"}, 0)} : Progress(r, t, off + d)
    BY <1>7, <1>8, <1>9, SendProgress
  <1>11. PICK d \in {0, 1} : Progress(r, t, off + d)
    BY <1>9, <1>10
  <1>12. off + d \in off .. off + 1
    OBVIOUS
  <1> QED
    BY <1>5, <1>7, <1>10, <1>11, <1>12 DEF SameButSent

(* A bare ACK takes no sequence number. *)
LEMMA AckProgress ==
  ASSUME NEW t \in Tcbs, NEW off \in Nat, NEW w,
         Progress(w, t, off), NEW fails,
         NEW r, r = tcp_send_ack(w, fails)
  PROVE  SameButSent(w.tcb, r.tcb) /\ Progress(r, t, off)
  <1>1. /\ {"ACK"} \in Sendable /\ SpaceOf({"ACK"}, 0) = 0 /\ off + 0 = off
    BY DEF Sendable, SpaceOf
  <1>2. r = tcp_send_segment(w, {"ACK"}, 0, fails)
    BY DEF tcp_send_ack
  <1>3. /\ SameButSent(w.tcb, r.tcb)
        /\ \E d \in {0, SpaceOf({"ACK"}, 0)} : Progress(r, t, off + d)
    BY <1>1, <1>2, SendProgress
  <1> QED
    BY <1>1, <1>3

LEMMA WorkProgress ==
  ASSUME NEW t \in Tcbs, NEW base \in Nat, AtOffset(t, base)
  PROVE  Progress(Work(t), t, base)
  <1>1. << >> \in Seq(OutSegs) /\ Len(<< >>) = 0
    OBVIOUS
  <1>2. Work(t) \in Works /\ Work(t).tcb = t /\ Work(t).out = << >>
    BY <1>1 DEF Work, Works
  <1>3. Contiguous(<< >>, t.snd_nxt, t.snd_nxt)
    BY DEF Contiguous, NumberAfter
  <1> QED
    BY <1>1, <1>2, <1>3 DEF Progress

(* In-order payload is answered with the response, a FIN and an ACK. *)
LEMMA ReceiveProgress ==
  ASSUME NEW t \in Tcbs, t.state = "ESTABLISHED", t.answers = 0,
         NEW base \in 0 .. 1, AtOffset(t, base), NEW s \in Segments, NEW fails,
         NEW r, r = Receive(Work(t), s, fails)
  PROVE  r = Work(t) \/ Answered(r, t)
  <1> SUFFICES ASSUME s.len > 0 /\ s.seq = t.rcv_nxt PROVE Answered(r, t)
    BY DEF Receive, Work
  <1> DEFINE w == Work(t)
             u1 == [t EXCEPT !.rcv_nxt = Seq32(@ + s.len)]
             v1 == [w EXCEPT !.tcb = u1]
             u2 == [u1 EXCEPT !.answers = @ + 1]
             v2 == [v1 EXCEPT !.tcb = u2]
             v3 == tcp_send_segment(v2, {"ACK"}, RESP, fails)
             v4 == tcp_close(v3, fails)
  <1>1. Progress(w, t, base) /\ w.tcb = t /\ w.out = << >>
    BY WorkProgress DEF Work
  <1>2. v1 = [w EXCEPT !.tcb.rcv_nxt = Seq32(@ + s.len)]
    BY <1>1
  <1>3. u1 \in Tcbs /\ u1.conn = t.conn /\ u1.iss = t.iss /\ u1.snd_nxt = t.snd_nxt
        /\ u1.state = "ESTABLISHED" /\ u1.answers = 0
    <2>1. t.rcv_nxt + s.len \in Int
      BY SegmentLemma DEF Tcbs, SeqNums
    <2>2. Seq32(t.rcv_nxt + s.len) \in SeqNums
      BY <2>1, Seq32Lemma
    <2> QED
      BY <2>2 DEF Tcbs
  <1> HIDE DEF w, u1, v1
  <1>4. Progress(v1, t, base) /\ v1.tcb = u1 /\ v1.out = << >>
    BY <1>1, <1>3, EditProgress DEF v1
  <1>5. v2 = [v1 EXCEPT !.tcb.answers = @ + 1]
    BY <1>4
  <1>6. u2 \in Tcbs /\ u2.conn = u1.conn /\ u2.iss = u1.iss /\ u2.snd_nxt = u1.snd_nxt
        /\ u2.state = "ESTABLISHED" /\ u2.answers = 1
    BY <1>3 DEF Tcbs
  <1> HIDE DEF u2, v2
  <1>7. Progress(v2, t, base) /\ v2.tcb = u2 /\ v2.out = << >>
    BY <1>4, <1>6, EditProgress DEF v2
  <1>8. tcp_send_data(v1, RESP, fails) = v3
    BY <1>3, <1>4, <1>5 DEF tcp_send_data
  <1>9. /\ RESP \in Nat /\ {"ACK"} \in Sendable /\ SpaceOf({"ACK"}, RESP) = RESP
        /\ base \in 0 .. 1 /\ base \in Nat
    BY ConstLemma DEF Sendable, SpaceOf
  <1> HIDE DEF v3
  <1>10. /\ SameButSent(v2.tcb, v3.tcb)
         /\ \E d \in {0, SpaceOf({"ACK"}, RESP)} : Progress(v3, t, base + d)
    BY <1>7, <1>9, SendProgress DEF v3
  <1>11. PICK d \in {0, RESP} : Progress(v3, t, base + d)
    BY <1>9, <1>10
  <1> DEFINE off == base + d
  <1>12. off \in 0 .. RESP + 1 /\ off \in Nat
    BY <1>9
  <1>13. v3.tcb.state = "ESTABLISHED" /\ v3.tcb.answers = 1
    BY <1>6, <1>7, <1>10 DEF SameButSent
  <1> HIDE DEF off, v4
  <1>14. /\ v4.tcb.state = "LAST_ACK" /\ v4.tcb.answers = 1
         /\ \E o \in off .. off + 1 : Progress(v4, t, o)
    <2>1. Progress(v3, t, off)
      BY <1>11 DEF off
    <2> QED
      BY <1>9, <1>12, <1>13, <2>1, CloseProgress DEF v4
  <1>15. PICK o \in off .. off + 1 : Progress(v4, t, o)
    BY <1>14
  <1>16. o \in 0 .. RESP + 2 /\ o \in Nat
    BY <1>9, <1>12
  <1>17. r = tcp_send_ack(v4, fails)
    BY <1>2, <1>8 DEF Receive, socket_dispatch, w, v4, Work
  <1>18. SameButSent(v4.tcb, r.tcb) /\ Progress(r, t, o)
    BY <1>9, <1>15, <1>16, <1>17, AckProgress
  <1> QED
    BY <1>14, <1>16, <1>18 DEF Answered, SameButSent

(* The peer's FIN is acknowledged and the connection closed. *)
LEMMA FinishProgress ==
  ASSUME NEW t \in Tcbs, NEW off \in Nat, NEW w,
         Progress(w, t, off), NEW s \in Segments, "FIN" \in s.flags, NEW fails,
         NEW r, r = Finish(w, s, fails)
  PROVE  /\ r.tcb.state = "LAST_ACK" /\ r.tcb.answers = w.tcb.answers
         /\ \E o \in off .. off + 1 : Progress(r, t, o)
  <1> DEFINE u1 == [w.tcb EXCEPT !.rcv_nxt = Seq32(s.seq + 1)]
             v1 == [w EXCEPT !.tcb = u1]
             v2 == tcp_send_ack(v1, fails)
             u3 == [v2.tcb EXCEPT !.state = "CLOSE_WAIT"]
             v3 == [v2 EXCEPT !.tcb = u3]
  <1>1. w \in Works /\ w.tcb \in Tcbs
    BY DEF Progress, Works
  <1>2. u1 \in Tcbs /\ u1.conn = w.tcb.conn /\ u1.iss = w.tcb.iss /\ u1.snd_nxt = w.tcb.snd_nxt
        /\ u1.answers = w.tcb.answers
    <2>1. s.seq + 1 \in Int
      BY SegmentLemma DEF SeqNums
    <2>2. Seq32(s.seq + 1) \in SeqNums
      BY <2>1, Seq32Lemma
    <2> QED
      BY <1>1, <2>2 DEF Tcbs
  <1>3. v1 = [w EXCEPT !.tcb.rcv_nxt = Seq32(s.seq + 1)]
    OBVIOUS
  <1> HIDE DEF u1, v1
  <1>4. Progress(v1, t, off) /\ v1.tcb = u1
    BY <1>2, EditProgress DEF v1
  <1> HIDE DEF v2
  <1>5. SameButSent(v1.tcb, v2.tcb) /\ Progress(v2, t, off)
    BY <1>4, AckProgress DEF v2
  <1>6. v2.tcb \in Tcbs
    BY <1>5 DEF Progress, Works
  <1>7. u3 \in Tcbs /\ u3.conn = v2.tcb.conn /\ u3.iss = v2.tcb.iss
        /\ u3.snd_nxt = v2.tcb.snd_nxt /\ u3.answers = v2.tcb.answers /\ u3.state = "CLOSE_WAIT"
    BY <1>6 DEF Tcbs, States
  <1>8. v3 = [v2 EXCEPT !.tcb.state = "CLOSE_WAIT"]
    OBVIOUS
  <1> HIDE DEF u3, v3
  <1>9. Progress(v3, t, off) /\ v3.tcb = u3
    BY <1>5, <1>7, EditProgress DEF v3
  <1>10. r = tcp_close(v3, fails)
    BY <1>3, <1>8 DEF Finish, v2
  <1>11. /\ r.tcb.state = "LAST_ACK" /\ r.tcb.answers = v3.tcb.answers
         /\ \E o \in off .. off + 1 : Progress(r, t, o)
    BY <1>7, <1>9, <1>10, CloseProgress
  <1> QED
    BY <1>2, <1>4, <1>5, <1>7, <1>9, <1>11 DEF SameButSent

(* All that a segment does to an established connection *)
LEMMA EstablishedEffect ==
  ASSUME NEW t \in Tcbs, t.state = "ESTABLISHED", Sound(t), NEW s \in Segments, NEW fails,
         NEW w, w = Finish(Receive(Work(t), s, fails), s, fails)
  PROVE  /\ Sound(w.tcb)
         /\ \E off \in Nat : Progress(w, t, off)
  <1> DEFINE r == Receive(Work(t), s, fails)
  <1>1. PICK base \in 0 .. 1 : AtOffset(t, base)
    BY DEF Sound, OffsetsIn
  <1>2. t.answers = 0 /\ RESP \in Nat /\ base \in Nat /\ base \in 0 .. RESP + 2
    BY ConstLemma DEF Sound
  <1>3. r = Work(t) \/ Answered(r, t)
    BY <1>1, <1>2, ReceiveProgress
  <1>4. Progress(Work(t), t, base) /\ Work(t).tcb = t
    BY <1>1, <1>2, WorkProgress DEF Work
  <1>5. PICK off \in 0 .. RESP + 2 : Progress(r, t, off)
    BY <1>2, <1>3, <1>4 DEF Answered
  <1>6. r.tcb.answers \in {0, 1} /\ (r = Work(t) \/ r.tcb.state = "LAST_ACK")
    BY <1>2, <1>3, <1>4 DEF Answered
  <1>7. w = Finish(r, s, fails)
    OBVIOUS
  <1> HIDE DEF r
  <1>8. CASE "FIN" \in s.flags
    <2>1. /\ w.tcb.state = "LAST_ACK" /\ w.tcb.answers = r.tcb.answers
          /\ \E o \in off .. off + 1 : Progress(w, t, o)
      BY <1>2, <1>5, <1>7, <1>8, FinishProgress
    <2>2. PICK o \in off .. off + 1 : Progress(w, t, o)
      BY <2>1
    <2>3. o \in 0 .. RESP + 3 /\ o \in Nat
      BY <1>2
    <2>4. Sound(w.tcb)
      BY <1>6, <2>1, <2>2, <2>3 DEF Sound, OffsetsIn, Progress
    <2> QED
      BY <1>1, <2>2, <2>3, <2>4
  <1>9. CASE "FIN" \notin s.flags
    <2>1. w = r
      BY <1>7, <1>9 DEF Finish
    <2>2. off \in 0 .. RESP + 3 /\ off \in Nat
      BY <1>2
    <2>3. CASE r = Work(t)
      BY <1>1, <1>4, <1>5, <2>1, <2>2, <2>3
    <2>4. CASE r.tcb.state = "LAST_ACK"
      <3>1. Sound(w.tcb)
        BY <1>5, <1>6, <2>1, <2>2, <2>4 DEF Sound, OffsetsIn, Progress
      <3> QED
        BY <1>1, <1>5, <2>1, <2>2, <3>1
    <2> QED
      BY <1>6, <2>3, <2>4
  <1> QED
    BY <1>8, <1>9

(* The initial numbers of the connections a behaviour opens all differ. *)
LEMMA IssDistinct ==
  ASSUME NEW m \in 0 .. MaxOpen - 1, NEW n \in 0 .. MaxOpen - 1, m # n
  PROVE  Iss(m) # Iss(n)
  <1>1. m \in Int /\ n \in Int /\ MaxOpen \in Nat /\ ISN_STEP \in Nat /\ ISN_STEP > 0
        /\ SEQ_MOD \in Nat \ {0} /\ FirstIsn \in Int /\ MaxOpen * ISN_STEP <= SEQ_MOD
    BY ConstLemma, TcpAssumption DEF SeqNums
  <1> DEFINE e == n - m
             d == ISN_STEP * e
             a == FirstIsn + m * ISN_STEP
  <1>2. e \in Int /\ e # 0 /\ e <= MaxOpen - 1 /\ -e <= MaxOpen - 1
    BY <1>1
  <1>3. d \in Int /\ a \in Int /\ FirstIsn + n * ISN_STEP = a + d
    BY <1>1, SMT
  <1>4. d # 0
    BY <1>1, <1>2, MulLemma
  <1>5. d < SEQ_MOD /\ -SEQ_MOD < d
    <2>1. e * ISN_STEP < MaxOpen * ISN_STEP /\ (-e) * ISN_STEP < MaxOpen * ISN_STEP
      <3>1. e < MaxOpen /\ -e < MaxOpen /\ -e \in Int /\ MaxOpen \in Int
            /\ ISN_STEP \in Nat \ {0}
        BY <1>1, <1>2
      <3> HIDE DEF e
      <3> QED
        BY <1>2, <3>1, MulOrder
    <2>2. d = e * ISN_STEP /\ -d = (-e) * ISN_STEP
      BY <1>1, <1>2, SMT
    <2> QED
      BY <1>1, <1>3, <2>1, <2>2
  <1> HIDE DEF d, a
  <1>6. (a + d) % SEQ_MOD # a % SEQ_MOD
    BY <1>1, <1>3, <1>4, <1>5, ModDistinct
  <1> QED
    BY <1>3, <1>6 DEF Iss, Seq32, a

-----------------------------------------------------------------------------
(* The list and the step *)

(* With one TCB per connection the lookup finds all there is to find. *)
LEMMA FindLemma ==
  ASSUME TypeOK, UniqueTuple, NEW c
  PROVE  /\ tcp_find_tcb(c) = {k \in DOMAIN tcp_tcb_list : tcp_tcb_list[k].conn = c}
         /\ DOMAIN tcp_tcb_list = 1 .. Len(tcp_tcb_list) /\ Len(tcp_tcb_list) \in Nat
         /\ \A k \in DOMAIN tcp_tcb_list : tcp_tcb_list[k] \in Tcbs
  <1>1. /\ DOMAIN tcp_tcb_list = 1 .. Len(tcp_tcb_list) /\ Len(tcp_tcb_list) \in Nat
        /\ \A k \in DOMAIN tcp_tcb_list : tcp_tcb_list[k] \in Tcbs
    BY DEF TypeOK
  <1>2. ASSUME NEW k \in DOMAIN tcp_tcb_list, tcp_tcb_list[k].conn = c,
               NEW j \in 1 .. k - 1
        PROVE  tcp_tcb_list[j].conn # c
    <2>1. j \in DOMAIN tcp_tcb_list /\ j # k
      BY <1>1, <1>2
    <2> QED
      BY <1>2, <2>1 DEF UniqueTuple
  <1> QED
    BY <1>1, <1>2 DEF tcp_find_tcb

(* What a step does to the list of TCBs and to the numbers given out *)
Kept == UNCHANGED <<tcp_tcb_list, tcp_global_isn, opened>>

Pushed ==
  \E x \in Tcbs :
    /\ \A k \in DOMAIN tcp_tcb_list : tcp_tcb_list[k].conn # x.conn
    /\ x.iss = tcp_global_isn /\ Sound(x) /\ x.answers = 0
    /\ tcp_tcb_list' = <<x>> \o tcp_tcb_list
    /\ tcp_global_isn' = Seq32(tcp_global_isn + ISN_STEP)
    /\ opened' = opened + 1 /\ opened' \in 0 .. MaxOpen

Changed ==
  \E k \in DOMAIN tcp_tcb_list, u \in Tcbs :
    /\ u.conn = tcp_tcb_list[k].conn /\ u.iss = tcp_tcb_list[k].iss /\ Sound(u)
    /\ tcp_tcb_list' = [tcp_tcb_list EXCEPT ![k] = u]
    /\ UNCHANGED <<tcp_global_isn, opened>>

Removed ==
  \E k \in DOMAIN tcp_tcb_list :
    /\ tcp_tcb_list[k].state = "LAST_ACK"
    /\ tcp_tcb_list' = RemoveAt(tcp_tcb_list, k)
    /\ UNCHANGED <<tcp_global_isn, opened>>

(* What a passive open creates, and what it sends *)
LEMMA OpenEffect ==
  ASSUME TypeOK, NEW s \in Segments, NEW fails,
         NEW w, w = tcp_send_synack(Work(NewTcb(s)), fails)
  PROVE  /\ w \in Works /\ w.tcb.conn = s.conn /\ w.tcb.iss = tcp_global_isn
         /\ w.tcb.state = "SYN_RECEIVED" /\ w.tcb.answers = 0
         /\ Sound(w.tcb)
         /\ \A n \in 1 .. Len(w.out) : w.out[n].conn = s.conn
         /\ Contiguous(w.out, tcp_global_isn, w.tcb.snd_nxt)
  <1> DEFINE t == NewTcb(s)
  <1>1. t \in Tcbs /\ t.conn = s.conn /\ t.iss = tcp_global_isn /\ t.snd_nxt = tcp_global_isn
        /\ t.state = "SYN_RECEIVED" /\ t.answers = 0 /\ t.fins = 0
    <2>1. s.seq + 1 \in Int
      BY SegmentLemma DEF SeqNums
    <2>2. Seq32(s.seq + 1) \in SeqNums
      BY <2>1, Seq32Lemma
    <2> QED
      BY <2>2, SegmentLemma DEF NewTcb, TypeOK, Tcbs, States
  <1> HIDE DEF t
  <1>2. AtOffset(t, 0)
    <2>1. tcp_global_isn + 0 = tcp_global_isn /\ tcp_global_isn \in 0 .. SEQ_MOD - 1
      BY DEF TypeOK, SeqNums
    <2>2. Seq32(tcp_global_isn) = tcp_global_isn
      BY <2>1, ModSmall, ConstLemma DEF Seq32
    <2> QED
      BY <1>1, <2>1, <2>2 DEF AtOffset
  <1>3. Progress(Work(t), t, 0) /\ Work(t).tcb = t
    BY <1>1, <1>2, WorkProgress DEF Work
  <1>4. /\ 0 \in Nat /\ {"SYN", "ACK"} \in Sendable
        /\ SpaceOf({"SYN", "ACK"}, 0) = 1
    BY ConstLemma DEF Sendable, SpaceOf
  <1>5. w = tcp_send_segment(Work(t), {"SYN", "ACK"}, 0, fails)
    BY DEF tcp_send_synack, t
  <1>6. /\ SameButSent(Work(t).tcb, w.tcb)
        /\ \E d \in {0, SpaceOf({"SYN", "ACK"}, 0)} : Progress(w, t, 0 + d)
    BY <1>1, <1>3, <1>4, <1>5, SendProgress
  <1>7. PICK d \in {0, 1} : Progress(w, t, 0 + d)
    BY <1>4, <1>6
  <1>8. 0 + d \in 0 .. 1
    OBVIOUS
  <1> QED
    BY <1>1, <1>3, <1>6, <1>7, <1>8 DEF Progress, SameButSent, Sound, OffsetsIn

LEMMA ListStep ==
  ASSUME TypeOK, TcpInv, [Next]_vars
  PROVE  Kept \/ Pushed \/ Changed \/ Removed
  <1> USE DEF TcpInv
  <1>1. ASSUME NEW s \in Segments, NEW f, PassiveOpen(s, f)
        PROVE  Pushed
    <2> DEFINE w == tcp_send_synack(Work(NewTcb(s)), f)
    <2>1. /\ w \in Works /\ w.tcb.conn = s.conn /\ w.tcb.iss = tcp_global_isn
          /\ w.tcb.answers = 0 /\ Sound(w.tcb)
      BY OpenEffect
    <2>2. w.tcb \in Tcbs
      BY <2>1 DEF Works
    <2>3. \A k \in DOMAIN tcp_tcb_list : tcp_tcb_list[k].conn # s.conn
      BY <1>1, FindLemma DEF PassiveOpen
    <2>4. /\ tcp_tcb_list' = <<w.tcb>> \o tcp_tcb_list
          /\ tcp_global_isn' = Seq32(tcp_global_isn + ISN_STEP)
          /\ opened' = opened + 1 /\ opened < MaxOpen
      BY <1>1 DEF PassiveOpen
    <2>5. opened' \in 0 .. MaxOpen
      BY <2>4, ConstLemma DEF TypeOK
    <2> HIDE DEF w
    <2> QED
      BY <2>1, <2>2, <2>3, <2>4, <2>5 DEF Pushed
  <1>2. ASSUME NEW s \in Segments, PassiveOpenFails(s) \/ Reject(s) \/ Ignore(s)
        PROVE  Kept
    BY <1>2 DEF PassiveOpenFails, Reject, Ignore, Kept
  <1>3. ASSUME NEW s \in Segments, Handshake(s)
        PROVE  Changed
    <2>1. PICK k \in tcp_find_tcb(s.conn) :
            /\ tcp_tcb_list[k].state = "SYN_RECEIVED"
            /\ tcp_tcb_list' = [tcp_tcb_list EXCEPT ![k].snd_una = s.ack,
                                                    ![k].state = "ESTABLISHED"]
            /\ UNCHANGED <<tcp_global_isn, opened>>
      BY <1>3 DEF Handshake
    <2>2. k \in DOMAIN tcp_tcb_list /\ tcp_tcb_list[k] \in Tcbs /\ Sound(tcp_tcb_list[k])
      BY <2>1, FindLemma
    <2> DEFINE t == tcp_tcb_list[k]
               u == [t EXCEPT !.snd_una = s.ack, !.state = "ESTABLISHED"]
    <2>3. u \in Tcbs /\ u.conn = t.conn /\ u.iss = t.iss /\ u.snd_nxt = t.snd_nxt
          /\ u.state = "ESTABLISHED" /\ u.answers = t.answers /\ u.fins = t.fins
      BY <2>2, SegmentLemma DEF Tcbs, States
    <2>4. tcp_tcb_list' = [tcp_tcb_list EXCEPT ![k] = u]
      BY <2>1, <2>2
    <2> HIDE DEF u
    <2>5. Sound(u)
      BY <2>1, <2>2, <2>3 DEF Sound, OffsetsIn, AtOffset
    <2> QED
      BY <2>1, <2>2, <2>3, <2>4, <2>5 DEF Changed
  <1>4. ASSUME NEW s \in Segments, NEW f, Established(s, f)
        PROVE  Changed
    <2>1. PICK k \in tcp_find_tcb(s.conn) :
            /\ tcp_tcb_list[k].state = "ESTABLISHED"
            /\ tcp_tcb_list' = [tcp_tcb_list EXCEPT
                  ![k] = Finish(Receive(Work(tcp_tcb_list[k]), s, f), s, f).tcb]
            /\ UNCHANGED <<tcp_global_isn, opened>>
      BY <1>4 DEF Established
    <2>2. k \in DOMAIN tcp_tcb_list /\ tcp_tcb_list[k] \in Tcbs /\ Sound(tcp_tcb_list[k])
      BY <2>1, FindLemma
    <2> DEFINE w == Finish(Receive(Work(tcp_tcb_list[k]), s, f), s, f)
    <2>3. /\ Sound(w.tcb)
          /\ \E off \in Nat : Progress(w, tcp_tcb_list[k], off)
      BY <2>1, <2>2, EstablishedEffect
    <2>4. tcp_tcb_list' = [tcp_tcb_list EXCEPT ![k] = w.tcb]
      BY <2>1
    <2> HIDE DEF w
    <2>5. w.tcb \in Tcbs /\ w.tcb.conn = tcp_tcb_list[k].conn /\ w.tcb.iss = tcp_tcb_list[k].iss
      BY <2>3 DEF Progress, Works
    <2> QED
      BY <2>1, <2>2, <2>3, <2>4, <2>5 DEF Changed
  <1>5. ASSUME NEW s \in Segments, Close(s)
        PROVE  Removed
    <2>1. PICK k \in tcp_find_tcb(s.conn) :
            /\ s.flags \cap RemovingFlags(tcp_tcb_list[k].state) # {}
            /\ tcp_tcb_list' = RemoveAt(tcp_tcb_list, k)
            /\ UNCHANGED <<tcp_global_isn, opened>>
      BY <1>5 DEF Close, tcp_remove_tcb
    <2>2. k \in DOMAIN tcp_tcb_list /\ Sound(tcp_tcb_list[k])
      BY <2>1, FindLemma
    <2>3. ASSUME NEW x \in {"SYN_RECEIVED", "ESTABLISHED"} PROVE RemovingFlags(x) = {}
      <3>1. x # "LAST_ACK" /\ x \in {"SYN_RECEIVED", "ESTABLISHED"}
        OBVIOUS
      <3> QED
        BY <3>1, Zenon DEF RemovingFlags
    <2>4. tcp_tcb_list[k].state = "LAST_ACK"
      BY <2>1, <2>2, <2>3 DEF Sound
    <2> QED
      BY <2>1, <2>2, <2>4 DEF Removed
  <1>6. ASSUME health_update_tcp_stats \/ net_tx_reaper \/ UNCHANGED vars
        PROVE  Kept
    BY <1>6 DEF health_update_tcp_stats, net_tx_reaper, vars, Kept
  <1>7. ASSUME NEW s \in Segments, tcp_input_process(s)
        PROVE  Kept \/ Pushed \/ Changed \/ Removed
    BY <1>1, <1>2, <1>3, <1>4, <1>5, <1>7 DEF tcp_input_process
  <1> QED
    BY <1>6, <1>7 DEF Next

-----------------------------------------------------------------------------
(* The list part of the type invariant, and TcpInv, through each kind of step *)
LEMMA ListTypeStep ==
  ASSUME TypeOK, TcpInv, [Next]_vars
  PROVE  /\ tcp_tcb_list' \in Seq(Tcbs)
         /\ tcp_global_isn' \in SeqNums
         /\ opened' \in 0 .. MaxOpen
  <1> USE DEF TypeOK
  <1>1. CASE Kept
    BY <1>1 DEF Kept
  <1>2. CASE Pushed
    <2>1. tcp_tcb_list' \in Seq(Tcbs)
      BY <1>2, PushLemma DEF Pushed
    <2>2. tcp_global_isn + ISN_STEP \in Int
      BY ConstLemma DEF SeqNums
    <2>3. tcp_global_isn' \in SeqNums
      BY <1>2, <2>2, Seq32Lemma DEF Pushed
    <2> QED
      BY <1>2, <2>1, <2>3 DEF Pushed
  <1>3. CASE Changed
    BY <1>3 DEF Changed
  <1>4. CASE Removed
    <2>1. PICK k \in DOMAIN tcp_tcb_list : tcp_tcb_list' = RemoveAt(tcp_tcb_list, k)
      BY <1>4 DEF Removed
    <2>2. k \in 1 .. Len(tcp_tcb_list)
      OBVIOUS
    <2>3. tcp_tcb_list' \in Seq(Tcbs)
      BY <2>1, <2>2, RemoveLemma
    <2> QED
      BY <1>4, <2>3 DEF Removed
  <1> QED
    BY <1>1, <1>2, <1>3, <1>4, ListStep

LEMMA InvStep ==
  ASSUME TypeOK, TcpInv, [Next]_vars
  PROVE  TcpInv'
  <1>1. /\ DOMAIN tcp_tcb_list = 1 .. Len(tcp_tcb_list) /\ Len(tcp_tcb_list) \in Nat
        /\ tcp_tcb_list \in Seq(Tcbs) /\ opened \in Nat
    BY FindLemma DEF TcpInv, TypeOK
  <1>2. CASE Kept
    BY <1>2 DEF Kept, TcpInv, UniqueTuple, NumbersGiven
  <1>3. CASE Pushed
    <2>1. PICK x \in Tcbs :
            /\ \A k \in DOMAIN tcp_tcb_list : tcp_tcb_list[k].conn # x.conn
            /\ x.iss = tcp_global_isn /\ Sound(x)
            /\ tcp_tcb_list' = <<x>> \o tcp_tcb_list
            /\ tcp_global_isn' = Seq32(tcp_global_isn + ISN_STEP)
            /\ opened' = opened + 1 /\ opened' \in 0 .. MaxOpen
      BY <1>3 DEF Pushed
    <2> DEFINE list == tcp_tcb_list'
    <2>2. /\ list \in Seq(Tcbs) /\ Len(list) = Len(tcp_tcb_list) + 1
          /\ list[1] = x
          /\ \A k \in 1 .. Len(tcp_tcb_list) : list[k + 1] = tcp_tcb_list[k]
      BY <1>1, <2>1, PushLemma
    <2>3. DOMAIN list = 1 .. Len(tcp_tcb_list) + 1
      BY <2>2
    <2> HIDE DEF list
    <2>4. ASSUME NEW j \in DOMAIN list
          PROVE  \/ j = 1 /\ list[j] = x
                 \/ \E k \in DOMAIN tcp_tcb_list : j = k + 1 /\ list[j] = tcp_tcb_list[k]
      <3>1. CASE j = 1
        BY <2>2, <3>1
      <3>2. CASE j # 1
        <4>1. j - 1 \in 1 .. Len(tcp_tcb_list) /\ j = (j - 1) + 1
          BY <1>1, <2>3, <3>2
        <4> QED
          BY <1>1, <2>2, <4>1
      <3> QED
        BY <3>1, <3>2
    <2>5. \A j, k \in DOMAIN list : list[j].conn = list[k].conn => j = k
      BY <2>1, <2>4 DEF TcpInv, UniqueTuple
    <2>6. \A j \in DOMAIN list : Sound(list[j])
      BY <2>1, <2>4 DEF TcpInv
    <2>7. tcp_global_isn' = Iss(opened')
      <3> DEFINE a == FirstIsn + opened * ISN_STEP
      <3>1. a \in Int /\ ISN_STEP \in Int
        BY <1>1, ConstLemma, MulLemma DEF SeqNums
      <3>2. tcp_global_isn = Seq32(a)
        BY DEF TcpInv, NumbersGiven, Iss
      <3>3. a + ISN_STEP = FirstIsn + (opened + 1) * ISN_STEP
        BY <1>1, ConstLemma, SMT DEF SeqNums
      <3> HIDE DEF a
      <3>4. Seq32(Seq32(a) + ISN_STEP) = Seq32(a + ISN_STEP)
        BY <3>1, Seq32Lemma
      <3> QED
        BY <2>1, <3>2, <3>3, <3>4 DEF Iss
    <2>8. x.iss = Iss(opened) /\ opened \in 0 .. opened' - 1
      BY <1>1, <2>1 DEF TcpInv, NumbersGiven
    <2>9. \A j \in DOMAIN list : \E n \in 0 .. opened' - 1 : list[j].iss = Iss(n)
      <3>1. 0 .. opened - 1 \subseteq 0 .. opened' - 1
        BY <1>1, <2>1
      <3> QED
        BY <2>4, <2>8, <3>1 DEF TcpInv, NumbersGiven
    <2>10. ASSUME NEW k \in DOMAIN tcp_tcb_list PROVE tcp_tcb_list[k].iss # x.iss
      <3>1. PICK n \in 0 .. opened - 1 : tcp_tcb_list[k].iss = Iss(n)
        BY DEF TcpInv, NumbersGiven
      <3>2. /\ n \in 0 .. MaxOpen - 1 /\ opened \in 0 .. MaxOpen - 1 /\ n # opened
        BY <1>1, <2>1, ConstLemma
      <3> QED
        BY <2>8, <3>1, <3>2, IssDistinct
    <2>11. \A j, k \in DOMAIN list : list[j].iss = list[k].iss => j = k
      BY <2>4, <2>10 DEF TcpInv, NumbersGiven
    <2> QED
      BY <2>5, <2>6, <2>7, <2>9, <2>11 DEF TcpInv, UniqueTuple, NumbersGiven, list
  <1>4. CASE Changed
    <2>1. PICK k \in DOMAIN tcp_tcb_list, u \in Tcbs :
            /\ u.conn = tcp_tcb_list[k].conn /\ u.iss = tcp_tcb_list[k].iss /\ Sound(u)
            /\ tcp_tcb_list' = [tcp_tcb_list EXCEPT ![k] = u]
            /\ UNCHANGED <<tcp_global_isn, opened>>
      BY <1>4 DEF Changed
    <2> DEFINE list == tcp_tcb_list'
    <2>2. /\ DOMAIN list = DOMAIN tcp_tcb_list
          /\ list[k] = u /\ \A j \in DOMAIN list : j # k => list[j] = tcp_tcb_list[j]
      BY <2>1
    <2> HIDE DEF list
    <2>3. \A j \in DOMAIN list :
            list[j].conn = tcp_tcb_list[j].conn /\ list[j].iss = tcp_tcb_list[j].iss
      BY <2>1, <2>2
    <2>4. \A j \in DOMAIN list : Sound(list[j])
      BY <2>1, <2>2 DEF TcpInv
    <2>5. \A j, m \in DOMAIN list : list[j].conn = list[m].conn => j = m
      BY <2>2, <2>3 DEF TcpInv, UniqueTuple
    <2>6. tcp_global_isn' = Iss(opened')
      BY <2>1 DEF TcpInv, NumbersGiven
    <2>7. \A j \in DOMAIN list : \E n \in 0 .. opened' - 1 : list[j].iss = Iss(n)
      BY <2>1, <2>2, <2>3 DEF TcpInv, NumbersGiven
    <2>8. \A j, m \in DOMAIN list : list[j].iss = list[m].iss => j = m
      BY <2>2, <2>3 DEF TcpInv, NumbersGiven
    <2> QED
      BY <2>4, <2>5, <2>6, <2>7, <2>8 DEF TcpInv, UniqueTuple, NumbersGiven, list
  <1>5. CASE Removed
    <2>1. PICK k \in DOMAIN tcp_tcb_list :
            /\ tcp_tcb_list' = RemoveAt(tcp_tcb_list, k)
            /\ UNCHANGED <<tcp_global_isn, opened>>
      BY <1>5 DEF Removed
    <2> DEFINE list == tcp_tcb_list'
               old(j) == IF j < k THEN j ELSE j + 1
    <2>2. /\ list \in Seq(Tcbs) /\ Len(list) = Len(tcp_tcb_list) - 1
          /\ \A j \in 1 .. k - 1 : list[j] = tcp_tcb_list[j]
          /\ \A j \in k .. Len(tcp_tcb_list) - 1 : list[j] = tcp_tcb_list[j + 1]
      <3>1. k \in 1 .. Len(tcp_tcb_list) /\ tcp_tcb_list' = RemoveAt(tcp_tcb_list, k)
        BY <1>1, <2>1
      <3>2. /\ RemoveAt(tcp_tcb_list, k) \in Seq(Tcbs)
            /\ Len(RemoveAt(tcp_tcb_list, k)) = Len(tcp_tcb_list) - 1
            /\ \A j \in 1 .. k - 1 : RemoveAt(tcp_tcb_list, k)[j] = tcp_tcb_list[j]
            /\ \A j \in k .. Len(tcp_tcb_list) - 1 :
                 RemoveAt(tcp_tcb_list, k)[j] = tcp_tcb_list[j + 1]
        BY <1>1, <3>1, RemoveLemma
      <3> QED
        BY <3>1, <3>2
    <2>3. DOMAIN list = 1 .. Len(tcp_tcb_list) - 1
      BY <2>2
    <2> HIDE DEF list
    <2>4. ASSUME NEW j \in DOMAIN list
          PROVE  old(j) \in DOMAIN tcp_tcb_list /\ list[j] = tcp_tcb_list[old(j)] /\ j \in Int
      BY <1>1, <2>2, <2>3
    <2>5. \A j, m \in DOMAIN list : old(j) = old(m) => j = m
      BY <1>1, <2>3
    <2> HIDE DEF old
    <2>6. \A j, m \in DOMAIN list : list[j].conn = list[m].conn => j = m
      BY <2>4, <2>5 DEF TcpInv, UniqueTuple
    <2>7. \A j \in DOMAIN list : Sound(list[j])
      BY <2>4 DEF TcpInv
    <2>8. tcp_global_isn' = Iss(opened')
      BY <2>1 DEF TcpInv, NumbersGiven
    <2>9. \A j \in DOMAIN list : \E n \in 0 .. opened' - 1 : list[j].iss = Iss(n)
      BY <2>1, <2>4 DEF TcpInv, NumbersGiven
    <2>10. \A j, m \in DOMAIN list : list[j].iss = list[m].iss => j = m
      BY <2>4, <2>5 DEF TcpInv, NumbersGiven
    <2> QED
      BY <2>6, <2>7, <2>8, <2>9, <2>10 DEF TcpInv, UniqueTuple, NumbersGiven, list
  <1> QED
    BY <1>2, <1>3, <1>4, <1>5, ListStep

(* What the step hands to IP, and the counters *)
LEMMA EmitType ==
  ASSUME TypeOK, NEW segs \in Seq(OutSegs), NEW bufs \in Nat, Emit(segs, bufs)
  PROVE  /\ out' \in Seq(OutSegs) /\ frames' \in BOOLEAN /\ again' \in BOOLEAN
         /\ seg_bufs' \in 0 .. BufCap
  <1>1. BufCap \in Nat /\ seg_bufs \in 0 .. BufCap /\ frames \in BOOLEAN
    BY ConstLemma DEF TypeOK
  <1>2. seg_bufs' \in 0 .. BufCap
    BY <1>1 DEF Emit
  <1>3. again' \in BOOLEAN
    BY Zenon DEF Emit
  <1> QED
    BY <1>1, <1>2, <1>3 DEF Emit

LEMMA TypeStep ==
  ASSUME TypeOK, TcpInv, [Next]_vars
  PROVE  TypeOK'
  <1> DEFINE Rest == /\ out' \in Seq(OutSegs) /\ tcp_active' \in Nat
                     /\ seg_bufs' \in 0 .. BufCap /\ frames' \in BOOLEAN /\ again' \in BOOLEAN
  <1>0. /\ out \in Seq(OutSegs) /\ tcp_active \in Nat
        /\ seg_bufs \in 0 .. BufCap /\ frames \in BOOLEAN /\ again \in BOOLEAN
    BY DEF TypeOK, OutSegs
  <1>1. << >> \in Seq(OutSegs) /\ 0 \in Nat
    OBVIOUS
  <1>2. ASSUME NEW w \in Works, Emit(w.out, Len(w.out)), UNCHANGED tcp_active
        PROVE  Rest
    <2>1. w.out \in Seq(OutSegs)
      BY DEF Works
    <2>2. Len(w.out) \in Nat
      BY <2>1
    <2> QED
      BY <1>0, <1>2, <2>1, <2>2, EmitType
  <1>3. ASSUME NEW s \in Segments, NEW f, PassiveOpen(s, f)
        PROVE  Rest
    <2> DEFINE w == tcp_send_synack(Work(NewTcb(s)), f)
    <2>1. w \in Works
      BY OpenEffect
    <2>2. Emit(w.out, Len(w.out)) /\ UNCHANGED tcp_active
      BY <1>3 DEF PassiveOpen
    <2> HIDE DEF w, Rest
    <2> QED
      BY <1>2, <2>1, <2>2
  <1>4. ASSUME Emit(<< >>, 0), UNCHANGED tcp_active
        PROVE  Rest
    BY <1>0, <1>1, <1>4, EmitType
  <1>5. ASSUME NEW s \in Segments, Reject(s)
        PROVE  Rest
    <2>1. tcp_send_rst(s) \in Seq(OutSegs)
      <3>1. /\ s.conn \in Conns /\ s.ack \in SeqNums /\ 0 \in SeqNums
            /\ {"RST", "ACK"} \in SUBSET Flag
        BY SegmentLemma, ConstLemma DEF Flag
      <3> DEFINE seg == [conn |-> s.conn, flags |-> {"RST", "ACK"}, seq |-> s.ack,
                         ack |-> 0, len |-> 0]
      <3>2. seg \in OutSegs
        BY <3>1 DEF OutSegs
      <3> HIDE DEF seg
      <3>3. <<seg>> \in Seq(OutSegs)
        BY <3>2
      <3> QED
        BY <3>3 DEF tcp_send_rst, seg
    <2>2. Emit(tcp_send_rst(s), 0) /\ UNCHANGED tcp_active
      BY <1>5 DEF Reject
    <2> HIDE DEF Rest
    <2> QED
      BY <1>0, <1>1, <2>1, <2>2, EmitType DEF Rest
  <1>6. ASSUME NEW s \in Segments, NEW f, Established(s, f)
        PROVE  Rest
    <2>1. PICK k \in tcp_find_tcb(s.conn) :
            /\ tcp_tcb_list[k].state = "ESTABLISHED"
            /\ LET w == Finish(Receive(Work(tcp_tcb_list[k]), s, f), s, f)
               IN  Emit(w.out, Len(w.out))
            /\ UNCHANGED tcp_active
      BY <1>6 DEF Established
    <2>2. k \in DOMAIN tcp_tcb_list /\ tcp_tcb_list[k] \in Tcbs /\ Sound(tcp_tcb_list[k])
      BY <2>1, FindLemma DEF TcpInv
    <2> DEFINE w == Finish(Receive(Work(tcp_tcb_list[k]), s, f), s, f)
    <2>3. \E off \in Nat : Progress(w, tcp_tcb_list[k], off)
      BY <2>1, <2>2, EstablishedEffect
    <2>4. Emit(w.out, Len(w.out))
      BY <2>1
    <2> HIDE DEF w, Rest
    <2>5. w \in Works
      BY <2>3 DEF Progress
    <2> QED
      BY <1>2, <2>1, <2>4, <2>5
  <1>7. ASSUME health_update_tcp_stats
        PROVE  Rest
    <2>1. DOMAIN tcp_tcb_list = 1 .. Len(tcp_tcb_list) /\ Len(tcp_tcb_list) \in Nat
      BY FindLemma DEF TcpInv
    <2> DEFINE E == {k \in DOMAIN tcp_tcb_list : tcp_tcb_list[k].state = "ESTABLISHED"}
    <2>2. IsFiniteSet(1 .. Len(tcp_tcb_list))
      BY <2>1, FS_Interval
    <2>3. IsFiniteSet(E)
      BY <2>1, <2>2, FS_Subset
    <2>4. tcp_active' = Cardinality(E)
      BY <1>7 DEF health_update_tcp_stats
    <2> HIDE DEF E
    <2>5. tcp_active' \in Nat
      BY <2>3, <2>4, FS_CardinalityType
    <2> QED
      BY <1>0, <1>7, <2>5 DEF health_update_tcp_stats
  <1>8. ASSUME net_tx_reaper \/ UNCHANGED vars
        PROVE  Rest
    BY <1>0, <1>8 DEF net_tx_reaper, vars
  <1> HIDE DEF Rest
  <1>9. ASSUME NEW s \in Segments, tcp_input_process(s)
        PROVE  Rest
    <2>1. ASSUME PassiveOpenFails(s) \/ Handshake(s) \/ Close(s) \/ Ignore(s)
          PROVE  Emit(<< >>, 0) /\ UNCHANGED tcp_active
      BY <2>1 DEF PassiveOpenFails, Handshake, Close, Ignore
    <2> QED
      BY <1>3, <1>4, <1>5, <1>6, <1>9, <2>1 DEF tcp_input_process
  <1>10. Rest
    BY <1>7, <1>8, <1>9 DEF Next
  <1> QED
    BY <1>10, ListTypeStep DEF Rest, TypeOK, OutSegs

-----------------------------------------------------------------------------
LEMMA InitLemma ==
  ASSUME Init
  PROVE  TypeOK /\ TcpInv
  <1>1. /\ tcp_tcb_list = << >> /\ DOMAIN tcp_tcb_list = {} /\ << >> \in Seq(Tcbs)
        /\ << >> \in Seq(OutSegs)
    BY DEF Init
  <1>2. TypeOK
    <2>1. tcp_tcb_list \in Seq(Tcbs) /\ out \in Seq(OutSegs)
      BY <1>1 DEF Init
    <2>2. /\ tcp_global_isn \in SeqNums /\ tcp_active \in Nat /\ seg_bufs \in 0 .. BufCap
          /\ opened \in 0 .. MaxOpen
      BY ConstLemma DEF Init
    <2>3. frames \in BOOLEAN /\ again \in BOOLEAN
      BY DEF Init
    <2> QED
      BY <2>1, <2>2, <2>3 DEF TypeOK, OutSegs
  <1>3. FirstIsn + 0 * ISN_STEP = FirstIsn
    BY ConstLemma DEF SeqNums
  <1>4. Seq32(FirstIsn) = FirstIsn
    BY ModSmall, ConstLemma DEF Seq32, SeqNums
  <1>5. tcp_global_isn = Iss(opened)
    BY <1>3, <1>4 DEF Init, Iss
  <1> QED
    BY <1>1, <1>2, <1>5 DEF TcpInv, UniqueTuple, NumbersGiven

LEMMA Invariant == Spec => [](TypeOK /\ TcpInv)
  <1>1. Init => TypeOK /\ TcpInv
    BY InitLemma
  <1>2. TypeOK /\ TcpInv /\ [Next]_vars => TypeOK' /\ TcpInv'
    BY TypeStep, InvStep
  <1> QED
    BY <1>1, <1>2, PTL DEF Spec

(* Whatever segments arrive in whatever order, every field of every TCB and *)
(* of every segment sent keeps its type; snd_nxt and rcv_nxt in particular  *)
(* stay 32-bit numbers across every addition of tcp_send_segment and        *)
(* tcp_input_process.                                                       *)
THEOREM TypeCorrect == Spec => []TypeOK
  BY Invariant, PTL

(* tcp_find_tcb comes before tcp_allocate_tcb: a connection never has two   *)
(* TCBs.                                                                    *)
THEOREM OneTcbPerConnection == Spec => []UniqueTuple
  <1>1. TypeOK /\ TcpInv => UniqueTuple
    BY DEF TcpInv
  <1> QED
    BY <1>1, Invariant, PTL

(* The states the default branch of the switch in tcp_input_process is for  *)
(* are never seen there: tcp_close leaves CLOSE_WAIT in the same call.      *)
THEOREM ThreeStates == Spec => []AtRest
  <1>1. TypeOK /\ TcpInv => AtRest
    BY DEF TcpInv, Sound, AtRest
  <1> QED
    BY <1>1, Invariant, PTL

(* socket_dispatch closes what it answers, and only ESTABLISHED is answered *)
(* (tcp_send_data): no connection gets the response twice.                  *)
THEOREM NoSecondAnswer == Spec => []AnsweredOnce
  <1>1. TypeOK /\ TcpInv => AnsweredOnce
    BY DEF TcpInv, Sound, AnsweredOnce
  <1> QED
    BY <1>1, Invariant, PTL

(* tcp_remove_tcb unlinks the TCB that was closed and no other one, wherever *)
(* it stands in the list.                                                    *)
THEOREM OnlyClosedConnectionsLeave == Spec => OnlyClosedLeaves
  <1> DEFINE id(t) == [conn |-> t.conn, iss |-> t.iss]
             Leaves == \A k \in DOMAIN tcp_tcb_list :
                         id(tcp_tcb_list[k]) \notin IdsIn(tcp_tcb_list')
                           => /\ tcp_tcb_list[k].state = "LAST_ACK"
                              /\ Len(tcp_tcb_list') = Len(tcp_tcb_list) - 1
  <1>1. ASSUME TypeOK, TcpInv, [Next]_vars
        PROVE  Leaves
    <2> SUFFICES ASSUME NEW k \in DOMAIN tcp_tcb_list,
                        \A j \in DOMAIN tcp_tcb_list' : tcp_tcb_list'[j] # tcp_tcb_list[k],
                        \A j \in DOMAIN tcp_tcb_list' :
                          tcp_tcb_list'[j].conn # tcp_tcb_list[k].conn
                            \/ tcp_tcb_list'[j].iss # tcp_tcb_list[k].iss
                 PROVE  /\ tcp_tcb_list[k].state = "LAST_ACK"
                        /\ Len(tcp_tcb_list') = Len(tcp_tcb_list) - 1
      BY DEF IdsIn
    <2>1. /\ DOMAIN tcp_tcb_list = 1 .. Len(tcp_tcb_list) /\ Len(tcp_tcb_list) \in Nat
          /\ tcp_tcb_list \in Seq(Tcbs) /\ k \in Int
      BY <1>1, FindLemma DEF TcpInv, TypeOK
    <2>2. ~ Kept
      BY DEF Kept
    <2>3. ~ Pushed
      <3> SUFFICES ASSUME NEW x \in Tcbs, tcp_tcb_list' = <<x>> \o tcp_tcb_list PROVE FALSE
        BY DEF Pushed
      <3>1. /\ tcp_tcb_list' \in Seq(Tcbs) /\ Len(tcp_tcb_list') = Len(tcp_tcb_list) + 1
            /\ tcp_tcb_list'[k + 1] = tcp_tcb_list[k]
        BY <2>1, PushLemma
      <3>2. k + 1 \in DOMAIN tcp_tcb_list'
        BY <2>1, <3>1
      <3> QED
        BY <3>1, <3>2
    <2>4. ~ Changed
      BY DEF Changed
    <2>5. PICK i \in DOMAIN tcp_tcb_list :
            tcp_tcb_list[i].state = "LAST_ACK" /\ tcp_tcb_list' = RemoveAt(tcp_tcb_list, i)
      BY <1>1, <2>2, <2>3, <2>4, ListStep DEF Removed
    <2>6. i \in 1 .. Len(tcp_tcb_list)
      BY <2>1
    <2>7. /\ RemoveAt(tcp_tcb_list, i) \in Seq(Tcbs)
          /\ Len(RemoveAt(tcp_tcb_list, i)) = Len(tcp_tcb_list) - 1
          /\ \A j \in 1 .. i - 1 : RemoveAt(tcp_tcb_list, i)[j] = tcp_tcb_list[j]
          /\ \A j \in i .. Len(tcp_tcb_list) - 1 :
               RemoveAt(tcp_tcb_list, i)[j] = tcp_tcb_list[j + 1]
      BY <2>1, <2>6, RemoveLemma
    <2>8. DOMAIN tcp_tcb_list' = 1 .. Len(tcp_tcb_list) - 1
      BY <2>5, <2>7
    <2>9. ~ (k < i)
      <3> SUFFICES ASSUME k < i PROVE FALSE
        OBVIOUS
      <3>1. k \in 1 .. i - 1 /\ k \in DOMAIN tcp_tcb_list'
        BY <2>1, <2>6, <2>8
      <3> QED
        BY <2>5, <2>7, <3>1
    <2>10. ~ (i < k)
      <3> SUFFICES ASSUME i < k PROVE FALSE
        OBVIOUS
      <3>1. k - 1 \in i .. Len(tcp_tcb_list) - 1 /\ k - 1 \in DOMAIN tcp_tcb_list'
            /\ (k - 1) + 1 = k
        BY <2>1, <2>6, <2>8
      <3> QED
        BY <2>5, <2>7, <3>1
    <2>11. k = i
      BY <2>1, <2>6, <2>9, <2>10
    <2> QED
      BY <2>5, <2>7, <2>11
  <1>2. TypeOK /\ TcpInv /\ [Next]_vars => [Leaves]_vars
    BY <1>1
  <1> QED
    BY <1>2, Invariant, PTL DEF Spec, OnlyClosedLeaves

-----------------------------------------------------------------------------
(* How far a connection has come, as the peer counts it *)
LEMMA DistanceLemma ==
  ASSUME NEW iss \in SeqNums, NEW off \in Nat
  PROVE  Seq32(Seq32(iss + off) - iss) \in 0 .. off
  <1>1. iss \in Int /\ iss + off \in Int /\ off \in Int /\ -iss \in Int
    BY DEF SeqNums
  <1>2. Seq32(iss + off) \in Int /\ Seq32(Seq32(iss + off) + (-iss)) = Seq32((iss + off) + (-iss))
    BY <1>1, Seq32Lemma
  <1>3. (iss + off) + (-iss) = off /\ Seq32(iss + off) + (-iss) = Seq32(iss + off) - iss
    BY <1>1, <1>2
  <1>4. off % SEQ_MOD \in 0 .. off
    <2>1. /\ off \div SEQ_MOD \in Nat /\ off % SEQ_MOD \in 0 .. SEQ_MOD - 1
          /\ off = SEQ_MOD * (off \div SEQ_MOD) + (off % SEQ_MOD)
      BY ConstLemma, DivModType
    <2>2. SEQ_MOD * (off \div SEQ_MOD) >= 0
      BY <2>1, ConstLemma, MulLemma
    <2>3. SEQ_MOD * (off \div SEQ_MOD) \in Int
      BY <2>1, ConstLemma, MulLemma
    <2> QED
      BY <2>1, <2>2, <2>3, ConstLemma
  <1> QED
    BY <1>2, <1>3, <1>4 DEF Seq32

(* The blocks of ISN_STEP numbers given to different connections do not meet. *)
LEMMA BlocksDisjoint ==
  ASSUME NEW m \in 0 .. MaxOpen - 1, NEW n \in 0 .. MaxOpen - 1, m # n,
         NEW a \in 0 .. ISN_STEP - 1, NEW b \in 0 .. ISN_STEP - 1
  PROVE  Seq32(Iss(m) + a) # Seq32(Iss(n) + b)
  <1>1. m \in Int /\ n \in Int /\ MaxOpen \in Nat /\ ISN_STEP \in Nat \ {0}
        /\ SEQ_MOD \in Nat \ {0} /\ FirstIsn \in Int /\ MaxOpen * ISN_STEP <= SEQ_MOD
        /\ a \in Int /\ b \in Int
    BY ConstLemma, TcpAssumption DEF SeqNums
  <1> DEFINE e == n - m
             d == e * ISN_STEP + (b - a)
             x == (FirstIsn + m * ISN_STEP) + a
             y == (FirstIsn + n * ISN_STEP) + b
  <1>2. m * ISN_STEP \in Int /\ n * ISN_STEP \in Int /\ e * ISN_STEP \in Int
        /\ e * ISN_STEP = n * ISN_STEP - m * ISN_STEP
    BY <1>1, SMT
  <1>3. x \in Int /\ y \in Int /\ d \in Int /\ y = x + d
    BY <1>1, <1>2
  <1>4. Seq32(Iss(m) + a) = Seq32(x) /\ Seq32(Iss(n) + b) = Seq32(y)
    <2>1. FirstIsn + m * ISN_STEP \in Int /\ FirstIsn + n * ISN_STEP \in Int
      BY <1>1, <1>2
    <2> QED
      BY <1>1, <2>1, Seq32Lemma DEF Iss
  <1>5. e \in Int /\ e # 0 /\ e <= MaxOpen - 1 /\ -e <= MaxOpen - 1 /\ -e \in Int
    BY <1>1
  <1>6. /\ e * ISN_STEP <= MaxOpen * ISN_STEP - ISN_STEP
        /\ -(MaxOpen * ISN_STEP - ISN_STEP) <= e * ISN_STEP
        /\ MaxOpen * ISN_STEP \in Int
    <2> DEFINE M == MaxOpen - 1
    <2>1. M \in Int /\ M * ISN_STEP = MaxOpen * ISN_STEP - ISN_STEP /\ MaxOpen * ISN_STEP \in Int
          /\ (-e) * ISN_STEP = -(e * ISN_STEP)
      BY <1>1, <1>5, SMT
    <2>2. e <= M /\ -e <= M
      BY <1>5
    <2> HIDE DEF M, e
    <2>3. e * ISN_STEP <= M * ISN_STEP /\ (-e) * ISN_STEP <= M * ISN_STEP
      BY <1>1, <1>5, <2>1, <2>2, MulOrder
    <2> QED
      BY <1>1, <1>2, <2>1, <2>3
  <1>7. e * ISN_STEP >= ISN_STEP \/ e * ISN_STEP <= -ISN_STEP
    <2>1. ISN_STEP * e = e * ISN_STEP
      BY <1>1, <1>5, SMT
    <2>2. e >= 1 \/ e <= -1
      BY <1>5
    <2> HIDE DEF e
    <2>3. /\ e >= 1 => ISN_STEP * e >= ISN_STEP
          /\ e <= -1 => ISN_STEP * e <= -ISN_STEP
      BY <1>1, <1>5, MulLemma
    <2> QED
      BY <2>1, <2>2, <2>3
  <1>8. d # 0 /\ -SEQ_MOD < d /\ d < SEQ_MOD
    <2> HIDE DEF e
    <2> QED
      BY <1>1, <1>2, <1>6, <1>7
  <1> HIDE DEF d, x, y
  <1>9. (x + d) % SEQ_MOD # x % SEQ_MOD
    BY <1>1, <1>3, <1>8, ModDistinct
  <1> QED
    BY <1>3, <1>4, <1>9 DEF Seq32

(* However connections are opened and closed, and across the wrap of the    *)
(* 32-bit tcp_global_isn, the numbers a connection uses fit in its block of *)
(* ISN_STEP and no two connections of the list use the same number.         *)
THEOREM NumbersNeverShared == Spec => []SeqRangesDisjoint
  <1>1. ASSUME TypeOK, TcpInv
        PROVE  SeqRangesDisjoint
    <2>1. ASSUME NEW k \in DOMAIN tcp_tcb_list
          PROVE  /\ Seq32(tcp_tcb_list[k].snd_nxt - tcp_tcb_list[k].iss) \in 0 .. ISN_STEP
                 /\ \E n \in 0 .. MaxOpen - 1 : tcp_tcb_list[k].iss = Iss(n)
      <3>1. tcp_tcb_list[k] \in Tcbs /\ Sound(tcp_tcb_list[k])
        BY <1>1, FindLemma DEF TcpInv
      <3>2. tcp_tcb_list[k].iss \in SeqNums
        BY <3>1 DEF Tcbs
      <3>3. PICK off \in 0 .. RESP + 3 : AtOffset(tcp_tcb_list[k], off)
        BY <3>1, ConstLemma DEF Sound, OffsetsIn
      <3>4. off \in Nat /\ off <= ISN_STEP
        BY ConstLemma
      <3>5. Seq32(tcp_tcb_list[k].snd_nxt - tcp_tcb_list[k].iss) \in 0 .. off
        BY <3>2, <3>3, <3>4, DistanceLemma DEF AtOffset
      <3>6. \E n \in 0 .. opened - 1 : tcp_tcb_list[k].iss = Iss(n)
        BY <1>1 DEF TcpInv, NumbersGiven
      <3>7. 0 .. opened - 1 \subseteq 0 .. MaxOpen - 1
        BY <1>1, ConstLemma DEF TypeOK
      <3> QED
        BY <3>4, <3>5, <3>6, <3>7, ConstLemma
    <2>2. ASSUME NEW j \in DOMAIN tcp_tcb_list, NEW k \in DOMAIN tcp_tcb_list, j # k
          PROVE  Sent(tcp_tcb_list[j]) \cap Sent(tcp_tcb_list[k]) = {}
      <3>1. PICK m \in 0 .. MaxOpen - 1 : tcp_tcb_list[j].iss = Iss(m)
        BY <2>1
      <3>2. PICK n \in 0 .. MaxOpen - 1 : tcp_tcb_list[k].iss = Iss(n)
        BY <2>1
      <3>3. m # n
        BY <1>1, <2>2, <3>1, <3>2 DEF TcpInv, NumbersGiven
      <3> DEFINE dj == Seq32(tcp_tcb_list[j].snd_nxt - tcp_tcb_list[j].iss)
                 dk == Seq32(tcp_tcb_list[k].snd_nxt - tcp_tcb_list[k].iss)
      <3>4. dj \in 0 .. ISN_STEP /\ dk \in 0 .. ISN_STEP
        BY <2>1
      <3>5. /\ Sent(tcp_tcb_list[j]) = {Seq32(Iss(m) + a) : a \in 0 .. dj - 1}
            /\ Sent(tcp_tcb_list[k]) = {Seq32(Iss(n) + b) : b \in 0 .. dk - 1}
        BY <3>1, <3>2 DEF Sent
      <3> HIDE DEF dj, dk
      <3>6. 0 .. dj - 1 \subseteq 0 .. ISN_STEP - 1 /\ 0 .. dk - 1 \subseteq 0 .. ISN_STEP - 1
        BY <3>4, ConstLemma
      <3>7. \A a \in 0 .. dj - 1, b \in 0 .. dk - 1 : Seq32(Iss(m) + a) # Seq32(Iss(n) + b)
        BY <3>3, <3>6, BlocksDisjoint
      <3> QED
        BY <3>5, <3>7
    <2>3. \A k \in DOMAIN tcp_tcb_list :
            Seq32(tcp_tcb_list[k].snd_nxt - tcp_tcb_list[k].iss) <= ISN_STEP
      BY <2>1
    <2> QED
      BY <2>2, <2>3 DEF SeqRangesDisjoint
  <1> QED
    BY <1>1, Invariant, PTL

-----------------------------------------------------------------------------
(* A connection of the list has one place where it continues. *)
LEMMA ContinuesLemma ==
  ASSUME TypeOK, UniqueTuple, NEW t
  PROVE  /\ \A j \in DOMAIN tcp_tcb_list :
              tcp_tcb_list[j].conn = t.conn /\ tcp_tcb_list[j].iss = t.iss
                => Continues(t) = {tcp_tcb_list[j].snd_nxt}
         /\ (\A j \in DOMAIN tcp_tcb_list : tcp_tcb_list[j].conn # t.conn)
              => Continues(t) = {t.iss}
  <1> DEFINE before == {k \in DOMAIN tcp_tcb_list :
                          tcp_tcb_list[k].conn = t.conn /\ tcp_tcb_list[k].iss = t.iss}
  <1>1. Continues(t) = IF before = {} THEN {t.iss} ELSE {tcp_tcb_list[k].snd_nxt : k \in before}
    BY DEF Continues
  <1>2. ASSUME NEW j \in DOMAIN tcp_tcb_list,
               tcp_tcb_list[j].conn = t.conn, tcp_tcb_list[j].iss = t.iss
        PROVE  before = {j}
    BY <1>2 DEF UniqueTuple
  <1>3. ASSUME \A j \in DOMAIN tcp_tcb_list : tcp_tcb_list[j].conn # t.conn
        PROVE  before = {}
    BY <1>3
  <1> HIDE DEF before
  <1> QED
    BY <1>1, <1>2, <1>3

(* A connection nothing was sent on *)
LEMMA SilentLemma ==
  ASSUME TypeOK, UniqueTuple, NEW j \in DOMAIN tcp_tcb_list, NEW t,
         t.conn = tcp_tcb_list[j].conn, t.iss = tcp_tcb_list[j].iss,
         t.snd_nxt = tcp_tcb_list[j].snd_nxt,
         NEW segs, \A n \in DOMAIN segs : segs[n].conn # t.conn
  PROVE  Numbered(t, segs)
  <1>1. Continues(t) = {t.snd_nxt}
    BY ContinuesLemma
  <1> QED
    BY <1>1 DEF Numbered

(* A connection all the segments are of *)
LEMMA SpeakingLemma ==
  ASSUME NEW t, NEW segs \in Seq(OutSegs), NEW first, Continues(t) = {first},
         Contiguous(segs, first, t.snd_nxt), \A n \in 1 .. Len(segs) : segs[n].conn = t.conn
  PROVE  Numbered(t, segs)
  <1>1. DOMAIN segs = 1 .. Len(segs) /\ Len(segs) \in Nat
    OBVIOUS
  <1>2. ASSUME ~ \E n \in DOMAIN segs : segs[n].conn = t.conn PROVE t.snd_nxt = first
    <2>1. Len(segs) = 0
      BY <1>1, <1>2
    <2> QED
      BY <2>1 DEF Contiguous, NumberAfter
  <1> QED
    BY <1>1, <1>2 DEF Numbered

(* A segment for an established connection: what is sent is all its own. *)
LEMMA EstablishedNumbers ==
  ASSUME TypeOK, TcpInv, TypeOK', NEW s \in Segments, NEW f, Established(s, f)
  PROVE  /\ \A k \in DOMAIN tcp_tcb_list' : Numbered(tcp_tcb_list'[k], out')
         /\ \A k \in DOMAIN tcp_tcb_list : NothingAfterFin(tcp_tcb_list[k], out')
  <1>1. /\ tcp_find_tcb(s.conn) = {j \in DOMAIN tcp_tcb_list : tcp_tcb_list[j].conn = s.conn}
        /\ UniqueTuple
    BY FindLemma DEF TcpInv
  <1>2. PICK j \in tcp_find_tcb(s.conn) :
          /\ tcp_tcb_list[j].state = "ESTABLISHED"
          /\ LET w == Finish(Receive(Work(tcp_tcb_list[j]), s, f), s, f)
             IN  tcp_tcb_list' = [tcp_tcb_list EXCEPT ![j] = w.tcb] /\ out' = w.out
    BY DEF Established, Emit
  <1>3. j \in DOMAIN tcp_tcb_list /\ tcp_tcb_list[j] \in Tcbs /\ Sound(tcp_tcb_list[j])
    BY <1>1, FindLemma DEF TcpInv
  <1> DEFINE t == tcp_tcb_list[j]
             w == Finish(Receive(Work(t), s, f), s, f)
  <1>4. PICK off \in Nat : Progress(w, t, off)
    BY <1>2, <1>3, EstablishedEffect
  <1>5. tcp_tcb_list' = [tcp_tcb_list EXCEPT ![j] = w.tcb] /\ out' = w.out
    BY <1>2
  <1> HIDE DEF w
  <1>6. /\ out' \in Seq(OutSegs) /\ DOMAIN out' = 1 .. Len(out') /\ Len(out') \in Nat
        /\ w.tcb.conn = t.conn /\ w.tcb.iss = t.iss
        /\ \A n \in 1 .. Len(out') : out'[n].conn = t.conn
        /\ Contiguous(out', t.snd_nxt, w.tcb.snd_nxt)
        /\ \A n \in 2 .. Len(out') : out'[n].len = 0
    BY <1>4, <1>5 DEF Progress, Works
  <1>7. ASSUME NEW k \in DOMAIN tcp_tcb_list' PROVE Numbered(tcp_tcb_list'[k], out')
    <2>1. k \in DOMAIN tcp_tcb_list
      BY <1>5
    <2>2. CASE k = j
      <3>1. tcp_tcb_list'[k] = w.tcb
        BY <1>3, <1>5, <2>2
      <3>2. Continues(w.tcb) = {t.snd_nxt}
        BY <1>1, <1>3, <1>6, ContinuesLemma
      <3> HIDE DEF t
      <3> QED
        BY <1>6, <3>1, <3>2, SpeakingLemma
    <2>3. CASE k # j
      <3>1. tcp_tcb_list'[k] = tcp_tcb_list[k]
        BY <1>5, <2>1, <2>3
      <3>2. tcp_tcb_list[k].conn # t.conn
        BY <1>1, <1>3, <2>1, <2>3 DEF UniqueTuple
      <3> HIDE DEF t
      <3>3. \A n \in DOMAIN out' : out'[n].conn # tcp_tcb_list[k].conn
        BY <1>6, <3>2
      <3> QED
        BY <1>1, <2>1, <3>1, <3>3, SilentLemma
    <2> QED
      BY <2>2, <2>3
  <1>8. ASSUME NEW k \in DOMAIN tcp_tcb_list, NEW n \in DOMAIN out',
               out'[n].conn = tcp_tcb_list[k].conn, out'[n].len > 0
        PROVE  tcp_tcb_list[k].fins = 0 /\ \A m \in 1 .. n - 1 : "FIN" \notin out'[m].flags
    <2>1. k = j
      BY <1>1, <1>3, <1>6, <1>8 DEF UniqueTuple
    <2>2. t.fins = 0
      BY <1>2, <1>3 DEF Sound
    <2>3. n \notin 2 .. Len(out')
      BY <1>6, <1>8
    <2>4. n = 1
      BY <1>6, <2>3
    <2> HIDE DEF t
    <2> QED
      BY <2>1, <2>2, <2>4 DEF t
  <1> QED
    BY <1>7, <1>8 DEF NothingAfterFin

(* tcp_send_segment takes the number from snd_nxt and moves snd_nxt on by   *)
(* what the segment occupies, a send that fails moves nothing, and          *)
(* socket_dispatch sends the response before the FIN and never after one.   *)
THEOREM InOrder == Spec => SentInOrder
  <1> DEFINE Ordered == /\ \A k \in DOMAIN tcp_tcb_list' : Numbered(tcp_tcb_list'[k], out')
                        /\ \A k \in DOMAIN tcp_tcb_list : NothingAfterFin(tcp_tcb_list[k], out')
             Visible == out' = << >> \/ <<out, again>>' # <<out, again>>
  <1>1. ASSUME TypeOK, TcpInv, [Next]_vars, Visible
        PROVE  Ordered
    <2>1. TypeOK' /\ UniqueTuple
      BY <1>1, TypeStep DEF TcpInv
    <2>2. out' \in Seq(OutSegs) /\ DOMAIN out' = 1 .. Len(out') /\ Len(out') \in Nat
      BY <2>1 DEF TypeOK, OutSegs
    <2>3. ASSUME NEW c, \A n \in DOMAIN out' : out'[n].conn = c,
                 \A k \in DOMAIN tcp_tcb_list : out' = << >> \/ tcp_tcb_list[k].conn # c
          PROVE  \A k \in DOMAIN tcp_tcb_list : NothingAfterFin(tcp_tcb_list[k], out')
      BY <2>2, <2>3 DEF NothingAfterFin
    <2>4. ASSUME NEW c, \A n \in DOMAIN out' : out'[n].conn = c,
                 \A k \in DOMAIN tcp_tcb_list : out' = << >> \/ tcp_tcb_list[k].conn # c,
                 NEW j \in DOMAIN tcp_tcb_list, NEW u,
                 u.conn = tcp_tcb_list[j].conn, u.iss = tcp_tcb_list[j].iss,
                 u.snd_nxt = tcp_tcb_list[j].snd_nxt
          PROVE  Numbered(u, out')
      <3>1. \A n \in DOMAIN out' : out'[n].conn # u.conn
        BY <2>2, <2>4
      <3> QED
        BY <1>1, <2>1, <2>4, <3>1, SilentLemma
    <2>5. ASSUME UNCHANGED tcp_tcb_list, out' = << >>
          PROVE  Ordered
      <3>1. \A n \in DOMAIN out' : out'[n].conn = 0
        BY <2>5
      <3> QED
        BY <2>3, <2>4, <2>5, <3>1
    <2>6. ASSUME health_update_tcp_stats \/ net_tx_reaper \/ UNCHANGED vars
          PROVE  Ordered
      <3>1. UNCHANGED <<tcp_tcb_list, out, again>>
        BY <2>6 DEF health_update_tcp_stats, net_tx_reaper, vars
      <3>2. out' = << >>
        BY <1>1, <3>1
      <3> QED
        BY <2>5, <3>1, <3>2
    <2>7. ASSUME NEW s \in Segments, tcp_input_process(s)
          PROVE  Ordered
      <3>1. /\ tcp_find_tcb(s.conn) = {j \in DOMAIN tcp_tcb_list : tcp_tcb_list[j].conn = s.conn}
            /\ DOMAIN tcp_tcb_list = 1 .. Len(tcp_tcb_list) /\ Len(tcp_tcb_list) \in Nat
            /\ tcp_tcb_list \in Seq(Tcbs)
        BY <1>1, <2>1, FindLemma DEF TypeOK
      <3>2. CASE PassiveOpenFails(s) \/ Ignore(s)
        BY <2>5, <3>2 DEF PassiveOpenFails, Ignore, Emit
      <3>3. CASE Reject(s)
        <4>1. out' = tcp_send_rst(s) /\ tcp_find_tcb(s.conn) = {} /\ UNCHANGED tcp_tcb_list
          BY <3>3 DEF Reject, Emit
        <4>2. \A n \in DOMAIN out' : out'[n].conn = s.conn
          BY <4>1 DEF tcp_send_rst
        <4>3. \A k \in DOMAIN tcp_tcb_list : tcp_tcb_list[k].conn # s.conn
          BY <3>1, <4>1
        <4> QED
          BY <2>3, <2>4, <4>1, <4>2, <4>3
      <3>4. CASE Handshake(s)
        <4>1. PICK k \in tcp_find_tcb(s.conn) :
                tcp_tcb_list' = [tcp_tcb_list EXCEPT ![k].snd_una = s.ack,
                                                     ![k].state = "ESTABLISHED"]
          BY <3>4 DEF Handshake
        <4>2. out' = << >>
          BY <3>4 DEF Handshake, Emit
        <4>3. /\ DOMAIN tcp_tcb_list' = DOMAIN tcp_tcb_list
              /\ \A j \in DOMAIN tcp_tcb_list :
                   /\ tcp_tcb_list'[j].conn = tcp_tcb_list[j].conn
                   /\ tcp_tcb_list'[j].iss = tcp_tcb_list[j].iss
                   /\ tcp_tcb_list'[j].snd_nxt = tcp_tcb_list[j].snd_nxt
          <5>1. k \in DOMAIN tcp_tcb_list /\ tcp_tcb_list[k] \in Tcbs
            BY <3>1
          <5> DEFINE u == [tcp_tcb_list[k] EXCEPT !.snd_una = s.ack, !.state = "ESTABLISHED"]
          <5>2. /\ u.conn = tcp_tcb_list[k].conn /\ u.iss = tcp_tcb_list[k].iss
                /\ u.snd_nxt = tcp_tcb_list[k].snd_nxt
            BY <5>1 DEF Tcbs
          <5>3. tcp_tcb_list' = [tcp_tcb_list EXCEPT ![k] = u]
            BY <4>1, <5>1
          <5> HIDE DEF u
          <5> QED
            BY <5>1, <5>2, <5>3
        <4>4. \A n \in DOMAIN out' : out'[n].conn = 0
          BY <4>2
        <4> QED
          BY <2>3, <2>4, <4>2, <4>3, <4>4
      <3>5. CASE Close(s)
        <4>1. PICK k \in DOMAIN tcp_tcb_list : tcp_tcb_list' = RemoveAt(tcp_tcb_list, k)
          BY <3>1, <3>5 DEF Close, tcp_remove_tcb
        <4>2. out' = << >>
          BY <3>5 DEF Close, Emit
        <4>3. /\ RemoveAt(tcp_tcb_list, k) \in Seq(Tcbs)
              /\ Len(RemoveAt(tcp_tcb_list, k)) = Len(tcp_tcb_list) - 1
              /\ \A j \in 1 .. k - 1 : RemoveAt(tcp_tcb_list, k)[j] = tcp_tcb_list[j]
              /\ \A j \in k .. Len(tcp_tcb_list) - 1 :
                   RemoveAt(tcp_tcb_list, k)[j] = tcp_tcb_list[j + 1]
          <5>1. k \in 1 .. Len(tcp_tcb_list) /\ tcp_tcb_list \in Seq(Tcbs)
            BY <3>1
          <5> QED
            BY <5>1, RemoveLemma, ZenonT(30)
        <4>4. ASSUME NEW j \in DOMAIN tcp_tcb_list'
              PROVE  \E i \in DOMAIN tcp_tcb_list : tcp_tcb_list'[j] = tcp_tcb_list[i]
          <5>1. j \in 1 .. Len(tcp_tcb_list) - 1
            BY <4>1, <4>3
          <5>2. CASE j < k
            <6>1. j \in 1 .. k - 1 /\ j \in DOMAIN tcp_tcb_list
              BY <3>1, <4>1, <5>1, <5>2
            <6> QED
              BY <4>1, <4>3, <6>1
          <5>3. CASE ~ (j < k)
            <6>1. j \in k .. Len(tcp_tcb_list) - 1 /\ j + 1 \in DOMAIN tcp_tcb_list
              BY <3>1, <4>1, <5>1, <5>3
            <6> QED
              BY <4>1, <4>3, <6>1
          <5> QED
            BY <5>2, <5>3
        <4>5. \A n \in DOMAIN out' : out'[n].conn = 0
          BY <4>2
        <4> QED
          BY <2>3, <2>4, <4>2, <4>4, <4>5
      <3>6. ASSUME NEW f, PassiveOpen(s, f)
            PROVE  Ordered
        <4> DEFINE w == tcp_send_synack(Work(NewTcb(s)), f)
        <4>1. /\ w \in Works /\ w.tcb.conn = s.conn /\ w.tcb.iss = tcp_global_isn
              /\ \A n \in 1 .. Len(w.out) : w.out[n].conn = s.conn
              /\ Contiguous(w.out, tcp_global_isn, w.tcb.snd_nxt)
          BY <1>1, OpenEffect
        <4>2. /\ tcp_tcb_list' = <<w.tcb>> \o tcp_tcb_list /\ out' = w.out
              /\ tcp_find_tcb(s.conn) = {}
          BY <3>6 DEF PassiveOpen, Emit
        <4> HIDE DEF w
        <4>3. \A k \in DOMAIN tcp_tcb_list : tcp_tcb_list[k].conn # s.conn
          BY <3>1, <4>2
        <4>4. \A n \in DOMAIN out' : out'[n].conn = s.conn
          BY <2>2, <4>1, <4>2
        <4>5. /\ tcp_tcb_list' \in Seq(Tcbs) /\ Len(tcp_tcb_list') = Len(tcp_tcb_list) + 1
              /\ tcp_tcb_list'[1] = w.tcb
              /\ \A k \in 1 .. Len(tcp_tcb_list) : tcp_tcb_list'[k + 1] = tcp_tcb_list[k]
          <5>1. w.tcb \in Tcbs
            BY <4>1 DEF Works
          <5> QED
            BY <3>1, <4>2, <5>1, PushLemma
        <4>6. Numbered(w.tcb, out')
          <5>1. Continues(w.tcb) = {tcp_global_isn}
            BY <1>1, <2>1, <4>1, <4>3, ContinuesLemma
          <5> QED
            BY <2>2, <4>1, <4>2, <5>1, SpeakingLemma
        <4>7. ASSUME NEW k \in DOMAIN tcp_tcb_list' PROVE Numbered(tcp_tcb_list'[k], out')
          <5>1. CASE k = 1
            BY <4>5, <4>6, <5>1
          <5>2. CASE k # 1
            <6>1. k \in 1 .. Len(tcp_tcb_list) + 1
              BY <4>5
            <6>2. k - 1 \in DOMAIN tcp_tcb_list /\ (k - 1) + 1 = k
              BY <3>1, <5>2, <6>1
            <6>3. tcp_tcb_list'[k] = tcp_tcb_list[k - 1]
              BY <3>1, <4>5, <6>2
            <6> QED
              BY <2>4, <4>3, <4>4, <6>2, <6>3
          <5> QED
            BY <5>1, <5>2
        <4> QED
          BY <2>3, <4>3, <4>4, <4>7
      <3>7. ASSUME NEW f, Established(s, f)
            PROVE  Ordered
        BY <1>1, <2>1, <3>7, EstablishedNumbers
      <3> HIDE DEF Ordered
      <3> QED
        BY <2>7, <3>2, <3>3, <3>4, <3>5, <3>6, <3>7 DEF tcp_input_process
    <2> HIDE DEF Ordered
    <2> QED
      BY <1>1, <2>6, <2>7 DEF Next
  <1>2. TypeOK /\ TcpInv /\ [Next]_vars => [Visible => Ordered]_vars
    BY <1>1
  <1> QED
    BY <1>2, Invariant, PTL DEF Spec, SentInOrder

=============================================================================
