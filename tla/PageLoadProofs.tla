--------------------------- MODULE PageLoadProofs ---------------------------
(***************************************************************************)
(* Proofs about module Arp and about the page load it is part of.          *)
(*                                                                         *)
(* Arp, for every cache size and every set of hosts and MACs: CacheInv is  *)
(* inductive together with TypeOK.  No entry is ever removed, so the empty *)
(* entries are the last ones and a host's own entry comes before all of    *)
(* them, whatever a probe has written there.                               *)
(*                                                                         *)
(* PageLoad, for every response and every size of the link: LoadInv says   *)
(* how far client and kernel have got (c and k) and what can be on its way *)
(* between them then.  The link keeps the order, so that an ACK on its way *)
(* up has no SYN behind it, and what the kernel sends is on its way down   *)
(* in the order of Rank, from the first segment the client has not had.    *)
(* From it follow that the response is whole, that no TCB is left, and     *)
(* that a page load is a behaviour of module Arp and of module Tcp.        *)
(***************************************************************************)
EXTENDS PageLoad, NumberLemmas, FiniteSetTheorems, SequenceTheorems, TLAPS

Hosts == {a \in IPs \ {0} : latest[a] # NoMac}
Cached(a) == \E n \in Entries : arp_cache[n].ip = a

(* The entries in use come first. *)
UsedFirst ==
  \A m, n \in Entries : arp_cache[m].ip = 0 /\ arp_cache[n].ip # 0 => n < m

(* Each of them is of a host that has spoken. *)
UsedByHosts ==
  \A n \in Entries : arp_cache[n].ip # 0 => latest[arp_cache[n].ip] # NoMac

(* A host is left out only by a full cache. *)
LeftOutWhenFull ==
  \A a \in Hosts : Cached(a) \/ \A n \in Entries : arp_cache[n].ip # 0

CacheInv ==
  /\ CacheCurrent
  /\ UsedFirst
  /\ UsedByHosts
  /\ LeftOutWhenFull
  /\ IsFiniteSet(Hosts)

-----------------------------------------------------------------------------
(* The variables have their types: see TypeOK. *)
LEMMA TypeInit == Init => TypeOK
  BY ArpAssumption, FS_EmptySet DEF Init, TypeOK

(* The loop of arp_cache_insert stops at the first entry it may write. *)
LEMMA FirstLemma ==
  ASSUME NEW S \in SUBSET Nat, S # {}
  PROVE  /\ First(S) \in S
         /\ \A m \in S : First(S) <= m
  BY LeastElement DEF First

(* An insertion rewrites one entry, the first that is empty or the host's, *)
(* or, when there is none, leaves a cache full of other hosts as it is.    *)
LEMMA InsertEffect ==
  ASSUME TypeOK, NEW ip \in IPs, NEW mac \in MACs,
         arp_cache' = arp_cache_insert(ip, mac)
  PROVE  /\ arp_cache' \in [Entries -> [ip : IPs, mac : MACs \cup {NoMac}]]
         /\ \/ /\ \A n \in Entries : arp_cache[n].ip \notin {0, ip}
               /\ arp_cache' = arp_cache
            \/ \E k \in Entries :
                 /\ arp_cache[k].ip \in {0, ip}
                 /\ \A n \in Entries : arp_cache[n].ip \in {0, ip} => k <= n
                 /\ arp_cache'[k] = [ip |-> ip, mac |-> mac]
                 /\ \A n \in Entries : n # k => arp_cache'[n] = arp_cache[n]
  <1>1. CASE Candidates(ip) = {}
    BY <1>1 DEF Candidates, arp_cache_insert, TypeOK
  <1>2. CASE Candidates(ip) # {}
    <2> DEFINE k == First(Candidates(ip))
    <2>1. Candidates(ip) \in SUBSET Nat
      BY ArpAssumption DEF Candidates, Entries
    <2>2. /\ k \in Candidates(ip)
          /\ \A n \in Candidates(ip) : k <= n
      BY <1>2, <2>1, FirstLemma
    <2>3. arp_cache' = [arp_cache EXCEPT ![k] = [ip |-> ip, mac |-> mac]]
      BY <1>2 DEF arp_cache_insert
    <2> HIDE DEF k
    <2>4. k \in Entries /\ arp_cache[k].ip \in {0, ip}
      BY <2>2 DEF Candidates
    <2>5. \A n \in Entries : arp_cache[n].ip \in {0, ip} => k <= n
      BY <2>2 DEF Candidates
    <2>6. arp_cache' \in [Entries -> [ip : IPs, mac : MACs \cup {NoMac}]]
      <3>1. [ip |-> ip, mac |-> mac] \in [ip : IPs, mac : MACs \cup {NoMac}]
        OBVIOUS
      <3> QED
        BY <2>3, <2>4, <3>1 DEF TypeOK
    <2>7. /\ arp_cache'[k] = [ip |-> ip, mac |-> mac]
          /\ \A n \in Entries : n # k => arp_cache'[n] = arp_cache[n]
      BY <2>3, <2>4 DEF TypeOK
    <2> QED
      BY <2>4, <2>5, <2>6, <2>7
  <1> QED
    BY <1>1, <1>2

LEMMA TypeStep == TypeOK /\ [Next]_vars => TypeOK'
  <1> SUFFICES ASSUME TypeOK, [Next]_vars PROVE TypeOK'
    OBVIOUS
  <1>1. ASSUME NEW p \in Packets, arp_handle(p)
        PROVE  TypeOK'
    <2>1. p.sender_ip \in IPs /\ p.sender_mac \in MACs
      BY DEF Packets
    <2>2. arp_cache' \in [Entries -> [ip : IPs, mac : MACs \cup {NoMac}]]
      BY <1>1, <2>1, InsertEffect DEF arp_handle
    <2>3. latest' \in [IPs -> MACs \cup {NoMac}]
      BY <1>1, <2>1 DEF arp_handle, TypeOK
    <2>4. out' = {} \/ out' = {Reply(p)}
      BY <1>1 DEF arp_handle
    <2>5. Cardinality(out') <= 1
      BY <2>4, FS_EmptySet, FS_Singleton
    <2> QED
      BY <2>2, <2>3, <2>5 DEF TypeOK, Entries
  <1>2. ASSUME NEW p \in Packets, arp_ignore(p)
        PROVE  TypeOK'
    BY <1>2, FS_EmptySet DEF arp_ignore, TypeOK, Entries
  <1>3. CASE UNCHANGED vars
    BY <1>3 DEF vars, TypeOK, Entries
  <1> QED
    BY <1>1, <1>2, <1>3 DEF Next

(* The entries and the reply keep their form, whatever comes in. *)
THEOREM TypeCorrect == Spec => []TypeOK
  BY TypeInit, TypeStep, PTL DEF Spec

-----------------------------------------------------------------------------
LEMMA CacheInvInit == Init => CacheInv
  <1> SUFFICES ASSUME Init PROVE CacheInv
    OBVIOUS
  <1>1. Hosts = {}
    BY DEF Init, Hosts
  <1> QED
    BY <1>1, FS_EmptySet
    DEF Init, CacheInv, CacheCurrent, UsedFirst, UsedByHosts, LeftOutWhenFull

(* A packet of a host: its MAC is the latest, and it is now in the cache   *)
(* unless the cache is full of others.                                     *)
LEMMA HandleStep ==
  ASSUME TypeOK, CacheInv, NEW p \in Packets, arp_handle(p)
  PROVE  CacheInv'
  <1> DEFINE ip == p.sender_ip
             mac == p.sender_mac
  <1>1. ip \in IPs /\ mac \in MACs /\ mac # NoMac
    BY ArpAssumption DEF Packets
  <1>2. /\ arp_cache' = arp_cache_insert(ip, mac)
        /\ latest' = [latest EXCEPT ![ip] = mac]
    BY DEF arp_handle
  <1> HIDE DEF ip, mac
  <1>3. /\ latest'[ip] = mac
        /\ \A a \in IPs : a # ip => latest'[a] = latest[a]
    BY <1>1, <1>2 DEF TypeOK
  <1>4. \A n \in Entries : arp_cache[n].ip \in IPs
    BY DEF TypeOK
  <1>5. IsFiniteSet(Hosts')
    <2>1. IsFiniteSet(Hosts \cup {ip})
      BY FS_AddElement DEF CacheInv
    <2>2. Hosts' \subseteq Hosts \cup {ip}
      BY <1>1, <1>3 DEF Hosts
    <2> QED
      BY <2>1, <2>2, FS_Subset
  <1>6. CASE /\ \A n \in Entries : arp_cache[n].ip \notin {0, ip}
             /\ arp_cache' = arp_cache
    <2>1. CacheCurrent'
      BY <1>3, <1>4, <1>6 DEF CacheInv, CacheCurrent, Entries
    <2>2. UsedFirst' /\ UsedByHosts'
      BY <1>3, <1>4, <1>6 DEF CacheInv, UsedFirst, UsedByHosts, Entries
    <2>3. LeftOutWhenFull'
      BY <1>6 DEF LeftOutWhenFull, Entries
    <2> QED
      BY <1>5, <2>1, <2>2, <2>3 DEF CacheInv
  <1>7. ASSUME NEW k \in Entries,
               arp_cache[k].ip \in {0, ip},
               \A n \in Entries : arp_cache[n].ip \in {0, ip} => k <= n,
               arp_cache'[k] = [ip |-> ip, mac |-> mac],
               \A n \in Entries : n # k => arp_cache'[n] = arp_cache[n]
        PROVE  CacheInv'
    <2>1. Entries \subseteq Nat /\ Entries' = Entries
      BY DEF Entries
    <2>2. /\ arp_cache'[k].ip = ip /\ arp_cache'[k].mac = mac
          /\ \A n \in Entries : n # k => arp_cache'[n].ip = arp_cache[n].ip
      BY <1>7
    \* No other entry is the host's: its own comes before the empty ones.
    <2>3. ip # 0 => \A n \in Entries : n # k => arp_cache[n].ip # ip
      <3> SUFFICES ASSUME ip # 0, NEW n \in Entries, n # k, arp_cache[n].ip = ip
                   PROVE  FALSE
        OBVIOUS
      <3>1. k <= n /\ k < n
        BY <1>7, <2>1
      <3>2. arp_cache[k].ip # ip
        BY DEF CacheInv, CacheCurrent
      <3>3. arp_cache[k].ip = 0
        BY <1>7, <3>2
      <3>4. n < k
        BY <3>3 DEF CacheInv, UsedFirst
      <3> QED
        BY <2>1, <3>1, <3>4
    <2>4. CacheCurrent'
      <3>1. \A m, n \in Entries :
              arp_cache'[m].ip = arp_cache'[n].ip /\ m # n => arp_cache'[m].ip = 0
        BY <2>2, <2>3 DEF CacheInv, CacheCurrent
      <3>2. \A n \in Entries :
              arp_cache'[n].ip # 0 => arp_cache'[n].mac = latest'[arp_cache'[n].ip]
        BY <1>3, <1>4, <1>7, <2>2, <2>3 DEF CacheInv, CacheCurrent
      <3> QED
        BY <2>1, <3>1, <3>2 DEF CacheCurrent
    <2>5. UsedFirst'
      <3> SUFFICES ASSUME NEW m \in Entries, NEW n \in Entries,
                          arp_cache'[m].ip = 0, arp_cache'[n].ip # 0
                   PROVE  n < m
        BY <2>1 DEF UsedFirst
      <3>1. CASE n = k
        <4>1. m # k /\ arp_cache[m].ip = 0
          BY <2>2, <3>1
        <4> QED
          BY <1>7, <2>1, <3>1, <4>1
      <3>2. CASE n # k
        <4>1. arp_cache[n].ip # 0
          BY <2>2, <3>2
        <4>2. CASE m = k
          BY <2>2, <2>3, <3>2, <4>1, <4>2, <1>7 DEF CacheInv, UsedFirst
        <4>3. CASE m # k
          BY <2>2, <4>1, <4>3 DEF CacheInv, UsedFirst
        <4> QED
          BY <4>2, <4>3
      <3> QED
        BY <3>1, <3>2
    <2>6. UsedByHosts'
      BY <1>1, <1>3, <1>4, <2>1, <2>2 DEF CacheInv, UsedByHosts
    <2>7. LeftOutWhenFull'
      <3> SUFFICES ASSUME NEW a \in IPs \ {0}, latest'[a] # NoMac,
                          \A n \in Entries : arp_cache'[n].ip # a,
                          NEW n \in Entries, arp_cache'[n].ip = 0
                   PROVE  FALSE
        BY <2>1 DEF LeftOutWhenFull, Hosts, Cached
      <3>1. a # ip /\ a \in Hosts
        BY <1>3, <2>2 DEF Hosts
      <3>2. CASE \E m \in Entries : arp_cache[m].ip = a
        BY <1>7, <2>2, <3>1, <3>2
      <3>3. CASE ~ \E m \in Entries : arp_cache[m].ip = a
        <4>1. \A m \in Entries : arp_cache[m].ip # 0
          BY <3>1, <3>3 DEF CacheInv, LeftOutWhenFull, Cached
        <4> QED
          BY <1>7, <2>2, <4>1
      <3> QED
        BY <3>2, <3>3
    <2> QED
      BY <1>5, <2>4, <2>5, <2>6, <2>7 DEF CacheInv
  <1> QED
    BY <1>1, <1>2, <1>6, <1>7, InsertEffect

LEMMA CacheInvStep == TypeOK /\ CacheInv /\ [Next]_vars => CacheInv'
  <1> SUFFICES ASSUME TypeOK, CacheInv, [Next]_vars PROVE CacheInv'
    OBVIOUS
  <1>1. ASSUME NEW p \in Packets, arp_handle(p)
        PROVE  CacheInv'
    BY <1>1, HandleStep
  <1>2. CASE UNCHANGED <<arp_cache, latest>>
    BY <1>2 DEF CacheInv, CacheCurrent, UsedFirst, UsedByHosts, LeftOutWhenFull,
                Hosts, Cached, Entries
  <1> QED
    BY <1>1, <1>2 DEF Next, arp_ignore, vars

LEMMA CacheInvariant == Spec => [](TypeOK /\ CacheInv)
  BY TypeInit, TypeStep, CacheInvInit, CacheInvStep, PTL DEF Spec

(* A host has at most one entry, with the MAC it announced last: the loop  *)
(* that writes the first empty entry or the host's own never passes an     *)
(* empty one on its way to the host's.                                     *)
THEOREM CacheIsCurrent == Spec => []CacheCurrent
  <1>1. TypeOK /\ CacheInv => CacheCurrent
    BY DEF CacheInv
  <1> QED
    BY <1>1, CacheInvariant, PTL

(* While no more hosts have spoken than there are entries, each of them is *)
(* cached: a host left out would mean that the entries, all of different   *)
(* other hosts, are more than those hosts.                                 *)
THEOREM EveryoneCached == Spec => []SendersCached
  <1>1. TypeOK /\ CacheInv => SendersCached
    <2> SUFFICES ASSUME TypeOK, CacheInv, Cardinality(Hosts) <= ARP_CACHE_SIZE,
                        NEW a \in Hosts
                 PROVE  \E n \in Entries : arp_cache[n] = [ip |-> a, mac |-> latest[a]]
      BY DEF SendersCached, Hosts
    <2>1. CASE Cached(a)
      <3>1. PICK n \in Entries : arp_cache[n].ip = a
        BY <2>1 DEF Cached
      <3>2. arp_cache[n].mac = latest[a]
        BY <3>1 DEF CacheInv, CacheCurrent, Hosts
      <3>3. arp_cache[n] \in [ip : IPs, mac : MACs \cup {NoMac}]
        BY DEF TypeOK
      <3> QED
        BY <3>1, <3>2, <3>3
    <2>2. CASE ~ Cached(a)
      <3> DEFINE others == Hosts \ {a}
                 host == [n \in Entries |-> arp_cache[n].ip]
      <3>1. IsFiniteSet(others) /\ Cardinality(others) = Cardinality(Hosts) - 1
        BY FS_RemoveElement DEF CacheInv
      <3>2. IsFiniteSet(Entries) /\ Cardinality(Entries) = ARP_CACHE_SIZE
        <4>1. ARP_CACHE_SIZE \in Nat
          BY ArpAssumption
        <4> QED
          BY <4>1, FS_Interval DEF Entries
      <3>3. Cardinality(others) < Cardinality(Entries)
        <4>1. Cardinality(Hosts) \in Nat
          BY FS_CardinalityType DEF CacheInv
        <4> QED
          BY <3>1, <3>2, <4>1, ArpAssumption
      <3>4. \A n \in Entries : arp_cache[n].ip # 0
        BY <2>2 DEF CacheInv, LeftOutWhenFull
      <3>5. \A n \in Entries : arp_cache[n].ip \in others
        BY <2>2, <3>4 DEF CacheInv, UsedByHosts, Hosts, Cached, TypeOK
      <3>6. host \in [Entries -> others]
        BY <3>5
      <3> HIDE DEF others, host
      <3>7. PICK m, n \in Entries : m # n /\ host[m] = host[n]
        BY <3>1, <3>2, <3>3, <3>6, FS_PigeonHole
      <3> QED
        BY <3>4, <3>7 DEF host, CacheInv, CacheCurrent
    <2> QED
      BY <2>1, <2>2
  <1> QED
    BY <1>1, CacheInvariant, PTL

-----------------------------------------------------------------------------
(* What the kernel sends in a page load: all the segments there are, in    *)
(* the order of their sequence numbers, and resets after them              *)
Num1 == (FirstIsn + 1) % SEQ_MOD
Num2 == (Num1 + RESP) % SEQ_MOD
Num3 == (Num2 + 1) % SEQ_MOD

SynAck == Segment({"SYN", "ACK"}, FirstIsn, 1, 0)
Response == Segment({"ACK"}, Num1, 2, RESP)
Fin == Segment({"FIN", "ACK"}, Num2, 2, 0)
FinalAck == Segment({"ACK"}, Num3, 2, 0)
Resets == {Segment({"RST", "ACK"}, n, 0, 0) : n \in T!SeqNums}

Replies == {[kind |-> "arp", what |-> "reply"]}
Down == Replies \cup [kind : {"tcp"}, what : {SynAck, Response, Fin, FinalAck} \cup Resets]

Rank(f) ==
  IF f.kind = "arp" THEN 0
  ELSE IF "SYN" \in f.what.flags THEN 1
  ELSE IF f.what.len # 0 THEN 2
  ELSE IF "FIN" \in f.what.flags THEN 3
  ELSE IF "RST" \in f.what.flags THEN 5
  ELSE 4

(* How far the client has got *)
ClientAt(c) ==
  /\ c = 0 => client \in [state : {"arp", "syn_sent"}, rcv_nxt : {0}, got : {0}]
  /\ c = 1 => client = [state |-> "established", rcv_nxt |-> Num1, got |-> 0]
  /\ c = 2 => client = [state |-> "established", rcv_nxt |-> Num2, got |-> RESP]
  /\ c = 3 => client = [state |-> "last_ack", rcv_nxt |-> Num3, got |-> RESP]
  /\ c = 4 => client = [state |-> "closed", rcv_nxt |-> Num3, got |-> RESP]

(* How far the kernel: no TCB yet, one in each state, none any more *)
Tcb(t, k) ==
  /\ t \in T!Tcbs
  /\ t.state = <<"SYN_RECEIVED", "ESTABLISHED", "LAST_ACK">>[k]
  /\ k <= 2 => t.snd_nxt = Num1 /\ t.rcv_nxt = 1

KernelAt(k) ==
  /\ k = 0 => tcp_tcb_list = <<>> /\ opened = 0 /\ tcp_global_isn = FirstIsn
  /\ k \in 1 .. 3 => \E t \in T!Tcbs : tcp_tcb_list = <<t>> /\ Tcb(t, k)
  /\ k = 4 => tcp_tcb_list = <<>>
  /\ k >= 1 => opened = 1

(* What each has done, the other was ready for. *)
InStep(c, k) ==
  /\ c >= 1 => k >= 1
  /\ k >= 2 => c >= 1
  /\ c >= 2 => k >= 3
  /\ c = 4 => k = 4
  /\ client.state = "arp" => k = 0

IsSyn(f) == f.kind = "tcp" /\ "SYN" \in f.what.flags
IsAck(f) == f.kind = "tcp" /\ "ACK" \in f.what.flags

Up == [kind : {"arp"}, what : {WhoHas}]
        \cup [kind : {"tcp"},
              what : {Segment({"SYN"}, 0, 0, 0)}
                       \cup {Segment({"ACK"}, 1, n, 0) : n \in T!SeqNums}
                       \cup {Segment({"ACK"}, 1, n, 1) : n \in T!SeqNums}
                       \cup {Segment({"ACK"}, 2, n, 0) : n \in T!SeqNums}
                       \cup {Segment({"FIN", "ACK"}, 2, n, 0) : n \in T!SeqNums}]

(* No SYN comes after an acknowledgement, nor after the kernel had one;    *)
(* none is sent before the client has begun.                               *)
UpOk(q, c, k, begun) ==
  /\ q \in Seq(Up)
  /\ \A i \in 1 .. Len(q) :
       /\ IsSyn(q[i]) => k <= 1 /\ begun
       /\ IsAck(q[i]) => c >= 1 /\ (q[i].what.seq = 2 => c >= 2)
  /\ \A i, j \in 1 .. Len(q) : i < j /\ IsAck(q[i]) => ~IsSyn(q[j])

UpInv(c, k) == UpOk(up, c, k, client.state # "arp")

(* The segments the client has not had are on their way, in order.         *)
SentAt(r, k) == (r = 1 /\ k >= 1) \/ (r \in 2 .. 4 /\ k >= 3) \/ (r = 5 /\ k = 4)

Before(f, g) ==
  Rank(f) = 0 \/ Rank(g) = 0 \/ Rank(f) < Rank(g) \/ (Rank(f) = 5 /\ Rank(g) = 5)

DownOk(q, c, k) ==
  /\ q \in Seq(Down)
  /\ \A i, j \in 1 .. Len(q) : i < j => Before(q[i], q[j])
  /\ \A i \in 1 .. Len(q) : Rank(q[i]) # 0 => SentAt(Rank(q[i]), k)
  /\ \A r \in 1 .. 3 :
       SentAt(r, k) => (c < r <=> \E i \in 1 .. Len(q) : Rank(q[i]) = r)

DownInv(c, k) == DownOk(down, c, k)

Load(c, k) ==
  ClientAt(c) /\ KernelAt(k) /\ InStep(c, k) /\ UpInv(c, k) /\ DownInv(c, k)

LoadInv == \E c, k \in 0 .. 4 : Load(c, k)

(* tcp_input.c:77-117: a client that has seen the end of the connection,   *)
(* or a reset, has the whole response, once, whatever was lost on the way  *)
(* to the kernel and however often it was repeated; and no later segment   *)
(* of it is taken for a new connection.                                    *)
WholeResponse ==
  /\ client.state \in {"last_ack", "closed"} => client.got = RESP
  /\ client.got \in {0, RESP}
  /\ opened <= 1

(* tcp_input.c:110-117: a client that is done has left no TCB behind. *)
NoTcbLeft == client.state = "closed" => tcp_tcb_list = <<>>

-----------------------------------------------------------------------------
LEMMA LoadConsts ==
  /\ SEQ_MOD \in Nat \ {0} /\ SEQ_MOD > 3 /\ FirstIsn \in T!SeqNums /\ RESP \in Nat \ {0}
  /\ ISN_STEP \in Nat /\ MaxOpen \in Nat
  /\ T!SeqNums = 0 .. (SEQ_MOD - 1) /\ T!SeqNums \subseteq Nat
  /\ \A n \in Nat : n % SEQ_MOD \in T!SeqNums
  /\ 1 % SEQ_MOD = 1 /\ 2 % SEQ_MOD = 2
  /\ {0, 1, 2} \subseteq T!SeqNums
  <1>1. SEQ_MOD \in Nat \ {0} /\ SEQ_MOD > 3
    BY PageLoadAssumption
  <1>2. \A n \in Nat : n % SEQ_MOD \in 0 .. (SEQ_MOD - 1)
    BY <1>1, DivModType
  <1>3. 1 % SEQ_MOD = 1 /\ 2 % SEQ_MOD = 2
    BY <1>1, ModSmall
  <1> QED
    BY <1>1, <1>2, <1>3, PageLoadAssumption DEF T!SeqNums

LEMMA NumLemma == Num1 \in T!SeqNums /\ Num2 \in T!SeqNums /\ Num3 \in T!SeqNums
  <1>1. FirstIsn + 1 \in Nat
    BY LoadConsts
  <1>2. Num1 \in T!SeqNums
    BY <1>1, LoadConsts DEF Num1
  <1>3. Num1 + RESP \in Nat
    BY <1>2, LoadConsts
  <1>4. Num2 \in T!SeqNums
    BY <1>3, LoadConsts DEF Num2
  <1>5. Num2 + 1 \in Nat
    BY <1>4, LoadConsts
  <1>6. Num3 \in T!SeqNums
    BY <1>5, LoadConsts DEF Num3
  <1> QED
    BY <1>2, <1>4, <1>6

(* The five segments of the kernel differ in rank. *)
LEMMA RankLemma ==
  ASSUME NEW f \in Down
  PROVE  /\ Rank(f) \in 0 .. 5
         /\ Rank(f) = 0 <=> f.kind = "arp"
         /\ Rank(f) # 0 => f.kind = "tcp"
         /\ Rank(f) = 1 => f.what = SynAck
         /\ Rank(f) = 2 => f.what = Response
         /\ Rank(f) = 3 => f.what = Fin
         /\ Rank(f) = 4 => f.what = FinalAck
         /\ Rank(f) = 5 => f.what \in Resets
  <1>1. CASE f \in Replies
    BY <1>1 DEF Replies, Rank
  <1>2. CASE f \in [kind : {"tcp"}, what : {SynAck, Response, Fin, FinalAck} \cup Resets]
    <2>1. f.kind = "tcp" /\ f.what \in {SynAck, Response, Fin, FinalAck} \cup Resets
      BY <1>2
    <2>2. CASE f.what = SynAck
      BY <2>1, <2>2 DEF Rank, SynAck, Segment
    <2>3. CASE f.what = Response
      BY <2>1, <2>3, LoadConsts DEF Rank, Response, Segment
    <2>4. CASE f.what = Fin
      BY <2>1, <2>4 DEF Rank, Fin, Segment
    <2>5. CASE f.what = FinalAck
      BY <2>1, <2>5 DEF Rank, FinalAck, Segment
    <2>6. CASE f.what \in Resets
      BY <2>1, <2>6 DEF Rank, Resets, Segment
    <2> QED
      BY <2>1, <2>2, <2>3, <2>4, <2>5, <2>6
  <1> QED
    BY <1>1, <1>2 DEF Down

LEMMA SentRanks ==
  /\ Arrived("tcp", SynAck) \in Down /\ Rank(Arrived("tcp", SynAck)) = 1
  /\ Arrived("tcp", Response) \in Down /\ Rank(Arrived("tcp", Response)) = 2
  /\ Arrived("tcp", Fin) \in Down /\ Rank(Arrived("tcp", Fin)) = 3
  /\ Arrived("tcp", FinalAck) \in Down /\ Rank(Arrived("tcp", FinalAck)) = 4
  /\ \A s \in Resets : Arrived("tcp", s) \in Down /\ Rank(Arrived("tcp", s)) = 5
  /\ Arrived("arp", "reply") \in Down /\ Rank(Arrived("arp", "reply")) = 0
  <1>1. /\ Arrived("tcp", SynAck) \in Down /\ Arrived("tcp", Response) \in Down
        /\ Arrived("tcp", Fin) \in Down /\ Arrived("tcp", FinalAck) \in Down
        /\ \A s \in Resets : Arrived("tcp", s) \in Down
        /\ Arrived("arp", "reply") \in Down
    BY DEF Arrived, Down, Replies
  <1>2. Rank(Arrived("tcp", SynAck)) = 1
    BY DEF Arrived, Rank, SynAck, Segment
  <1>3. Rank(Arrived("tcp", Response)) = 2
    BY LoadConsts DEF Arrived, Rank, Response, Segment
  <1>4. Rank(Arrived("tcp", Fin)) = 3
    BY DEF Arrived, Rank, Fin, Segment
  <1>5. Rank(Arrived("tcp", FinalAck)) = 4
    BY DEF Arrived, Rank, FinalAck, Segment
  <1>6. \A s \in Resets : Rank(Arrived("tcp", s)) = 5
    BY DEF Arrived, Rank, Resets, Segment
  <1>7. Rank(Arrived("arp", "reply")) = 0
    BY DEF Arrived, Rank
  <1> QED
    BY <1>1, <1>2, <1>3, <1>4, <1>5, <1>6, <1>7

-----------------------------------------------------------------------------
(* What the kernel does with a segment, wherever it has got; no allocation *)
(* fails. *)
Rec(n, t, segs) == [n |-> n, tcb |-> t, out |-> segs]

NextNum(t, flags, len) == (t.snd_nxt + T!SpaceOf(flags, len)) % SEQ_MOD

Sent(n, t, segs, flags, len) ==
  Rec(n + 1, [t EXCEPT !.snd_nxt = NextNum(t, flags, len)],
      Append(segs, Segment(flags, t.snd_nxt, t.rcv_nxt, len)))

LEMMA SendLemma ==
  ASSUME NEW n \in Nat, NEW t \in T!Tcbs, NEW segs, NEW flags, NEW len
  PROVE  T!tcp_send_segment(Rec(n, t, segs), flags, len, {}) = Sent(n, t, segs, flags, len)
  <1>1. t.conn = Conn
    BY DEF T!Tcbs
  <1> QED
    BY <1>1 DEF Sent, NextNum, Rec, T!tcp_send_segment, T!Seq32, Segment

LEMMA SpaceLemma ==
  /\ T!SpaceOf({"SYN", "ACK"}, 0) = 1
  /\ T!SpaceOf({"FIN", "ACK"}, 0) = 1
  /\ T!SpaceOf({"ACK"}, 0) = 0
  /\ T!SpaceOf({"ACK"}, RESP) = RESP
  BY LoadConsts DEF T!SpaceOf

Fails0 == T!Fails = {{}} /\ T!FailsUpTo(1) = {{}}

LEMMA NoFailure == Fails0
  <1>1. T!Fails = {{}}
    BY DEF T!Fails
  <1> QED
    BY <1>1 DEF Fails0, T!FailsUpTo

(* Which TCB a segment finds *)
LEMMA FoundNone ==
  ASSUME tcp_tcb_list = <<>>
  PROVE  T!tcp_find_tcb(Conn) = {}
  BY DEF T!tcp_find_tcb

LEMMA FoundOne ==
  ASSUME NEW t \in T!Tcbs, tcp_tcb_list = <<t>>
  PROVE  T!tcp_find_tcb(Conn) = {1}
  <1>1. t.conn = Conn /\ DOMAIN tcp_tcb_list = {1} /\ tcp_tcb_list[1] = t
    BY DEF T!Tcbs
  <1>2. 1 .. (1 - 1) = {}
    OBVIOUS
  <1> QED
    BY <1>1, <1>2 DEF T!tcp_find_tcb

LEMMA ListAppended ==
  ASSUME NEW S, NEW a \in S, NEW b \in S, NEW c \in S
  PROVE  Append(<<a>>, b) = <<a, b>> /\ Append(<<a, b>>, c) = <<a, b, c>>
  <1>1. <<a>> \in Seq(S) /\ <<a, b>> \in Seq(S) /\ <<a, b, c>> \in Seq(S)
    OBVIOUS
  <1>2. /\ Append(<<a, b>>, c) \in Seq(S) /\ Len(Append(<<a, b>>, c)) = 3
        /\ \A i \in 1 .. 3 : Append(<<a, b>>, c)[i] = <<a, b, c>>[i]
    BY <1>1, AppendProperties
  <1>3. /\ Append(<<a>>, b) \in Seq(S) /\ Len(Append(<<a>>, b)) = 2
        /\ \A i \in 1 .. 2 : Append(<<a>>, b)[i] = <<a, b>>[i]
    BY <1>1, AppendProperties
  <1>4. Append(<<a, b>>, c) = <<a, b, c>>
    BY <1>1, <1>2, SeqEqual
  <1>5. Append(<<a>>, b) = <<a, b>>
    BY <1>1, <1>3, SeqEqual
  <1> QED
    BY <1>4, <1>5

LEMMA ThreeSent ==
  /\ Append(<<Response>>, Fin) = <<Response, Fin>>
  /\ Append(<<Response, Fin>>, FinalAck) = <<Response, Fin, FinalAck>>
  <1> DEFINE S == {Response, Fin, FinalAck}
  <1>1. Response \in S /\ Fin \in S /\ FinalAck \in S
    OBVIOUS
  <1> QED
    BY <1>1, ListAppended

Kernel(s) == T!tcp_input_process(s)

LEMMA KernelSyn0 ==
  ASSUME KernelAt(0), Kernel(Segment({"SYN"}, 0, 0, 0))
  PROVE  KernelAt(1)' /\ tcp_out' = <<SynAck>>
  <1> DEFINE s == Segment({"SYN"}, 0, 0, 0)
             t == T!NewTcb(s)
             u == [t EXCEPT !.snd_nxt = NextNum(t, {"SYN", "ACK"}, 0)]
  <1>1. s.conn = Conn /\ s.flags = {"SYN"} /\ s.seq = 0
    BY DEF Segment
  <1>2. tcp_tcb_list = <<>> /\ opened = 0 /\ tcp_global_isn = FirstIsn
    BY DEF KernelAt
  <1>3. T!tcp_find_tcb(s.conn) = {}
    BY <1>1, <1>2, FoundNone
  <1> HIDE DEF s
  <1>4. t = [conn |-> Conn, state |-> "SYN_RECEIVED", snd_una |-> FirstIsn,
             snd_nxt |-> FirstIsn, rcv_nxt |-> 1, iss |-> FirstIsn, fins |-> 0, answers |-> 0]
    <2>1. (s.seq + 1) % SEQ_MOD = 1
      BY <1>1, LoadConsts
    <2> QED
      BY <1>1, <1>2, <2>1 DEF T!NewTcb, T!Seq32
  <1> HIDE DEF t
  <1>5. t \in T!Tcbs /\ t.snd_nxt = FirstIsn /\ t.rcv_nxt = 1 /\ t.state = "SYN_RECEIVED"
    BY <1>4, LoadConsts DEF T!Tcbs, T!States
  <1>6. NextNum(t, {"SYN", "ACK"}, 0) = Num1
    BY <1>5, SpaceLemma DEF Num1, NextNum
  <1>8. T!PassiveOpen(s, {})
    BY <1>1, <1>3, NoFailure DEF Kernel, s, T!tcp_input_process, T!PassiveOpen, T!PassiveOpenFails,
       T!Reject, T!Handshake, T!Established, T!Close, T!Ignore, Fails0
  <1>9. T!Work(t) = Rec(0, t, <<>>)
    BY DEF T!Work, Rec
  <1>10. T!tcp_send_synack(T!Work(t), {}) = Rec(1, u, <<SynAck>>)
    <2>1. T!tcp_send_segment(Rec(0, t, <<>>), {"SYN", "ACK"}, 0, {}) =
            Sent(0, t, <<>>, {"SYN", "ACK"}, 0)
      BY <1>5, SendLemma
    <2> QED
      BY <1>5, <1>9, <2>1 DEF T!tcp_send_synack, SynAck, Sent
  <1>11. /\ tcp_tcb_list' = <<u>> \o tcp_tcb_list /\ tcp_out' = <<SynAck>>
         /\ opened' = 1
    BY <1>2, <1>8, <1>10 DEF T!PassiveOpen, T!Emit, Rec, t
  <1>12. u \in T!Tcbs /\ u.state = "SYN_RECEIVED" /\ u.snd_nxt = Num1 /\ u.rcv_nxt = 1
    BY <1>5, <1>6, NumLemma DEF T!Tcbs
  <1> HIDE DEF u
  <1>13. tcp_tcb_list' = <<u>>
    BY <1>2, <1>11
  <1>14. Tcb(u, 1)
    BY <1>12 DEF Tcb
  <1> QED
    BY <1>11, <1>12, <1>13, <1>14 DEF KernelAt, Tcb

LEMMA KernelSyn1 ==
  ASSUME KernelAt(1), Kernel(Segment({"SYN"}, 0, 0, 0))
  PROVE  KernelAt(1)' /\ tcp_out' = <<>>
  <1> DEFINE s == Segment({"SYN"}, 0, 0, 0)
  <1>1. s.conn = Conn /\ s.flags = {"SYN"}
    BY DEF Segment
  <1>2. PICK t \in T!Tcbs : tcp_tcb_list = <<t>> /\ Tcb(t, 1)
    BY DEF KernelAt
  <1>3. T!tcp_find_tcb(s.conn) = {1} /\ tcp_tcb_list[1].state = "SYN_RECEIVED"
    BY <1>1, <1>2, FoundOne DEF Tcb
  <1> HIDE DEF s
  <1>4. T!Ignore(s)
    BY <1>1, <1>3, NoFailure DEF Kernel, s, T!tcp_input_process, T!PassiveOpen, T!PassiveOpenFails,
       T!Reject, T!Handshake, T!Established, T!Close, T!Ignore, T!RemovingFlags, Fails0
  <1>5. UNCHANGED <<tcp_tcb_list, tcp_global_isn, opened>> /\ tcp_out' = <<>>
    BY <1>4 DEF T!Ignore, T!Emit
  <1> QED
    BY <1>5 DEF KernelAt, Tcb

LEMMA KernelAck1 ==
  ASSUME KernelAt(1), NEW s, Kernel(s),
         s.conn = Conn, "ACK" \in s.flags, s.ack \in T!SeqNums
  PROVE  KernelAt(2)' /\ tcp_out' = <<>>
  <1>1. PICK t \in T!Tcbs : tcp_tcb_list = <<t>> /\ Tcb(t, 1)
    BY DEF KernelAt
  <1>2. T!tcp_find_tcb(s.conn) = {1} /\ tcp_tcb_list[1].state = "SYN_RECEIVED"
    BY <1>1, FoundOne DEF Tcb
  <1>3. T!Handshake(s)
    BY <1>2, NoFailure DEF Kernel, T!tcp_input_process, T!PassiveOpen, T!PassiveOpenFails,
       T!Reject, T!Handshake, T!Established, T!Close, T!Ignore, T!RemovingFlags, Fails0
  <1> DEFINE u == [t EXCEPT !.snd_una = s.ack, !.state = "ESTABLISHED"]
  <1>4. /\ tcp_tcb_list' = [tcp_tcb_list EXCEPT ![1].snd_una = s.ack, ![1].state = "ESTABLISHED"]
        /\ tcp_out' = <<>> /\ opened' = opened
    BY <1>2, <1>3 DEF T!Handshake, T!Emit
  <1>5. tcp_tcb_list' = <<u>>
    BY <1>1, <1>4
  <1>6. u \in T!Tcbs /\ u.state = "ESTABLISHED" /\ u.snd_nxt = Num1 /\ u.rcv_nxt = 1
    <2> DEFINE v == [t EXCEPT !.snd_una = s.ack]
    <2>1. v \in T!Tcbs /\ v.snd_nxt = Num1 /\ v.rcv_nxt = 1
      BY <1>1 DEF Tcb, T!Tcbs
    <2>2. u = [v EXCEPT !.state = "ESTABLISHED"]
      OBVIOUS
    <2> HIDE DEF v, u
    <2> QED
      BY <2>1, <2>2 DEF T!Tcbs, T!States
  <1> HIDE DEF u
  <1>7. Tcb(u, 2) /\ opened' = 1
    BY <1>4, <1>6 DEF Tcb, KernelAt
  <1> QED
    BY <1>4, <1>5, <1>6, <1>7 DEF KernelAt, Tcb

(* An acknowledgement of the client's without data or FIN *)
LEMMA KernelEmpty2 ==
  ASSUME KernelAt(2), NEW n, Kernel(Segment({"ACK"}, 1, n, 0))
  PROVE  KernelAt(2)' /\ tcp_out' = <<>>
  <1> DEFINE s == Segment({"ACK"}, 1, n, 0)
  <1>1. s.conn = Conn /\ s.flags = {"ACK"} /\ s.len = 0
    BY DEF Segment
  <1>2. PICK t \in T!Tcbs : tcp_tcb_list = <<t>> /\ Tcb(t, 2)
    BY DEF KernelAt
  <1>3. T!tcp_find_tcb(s.conn) = {1} /\ tcp_tcb_list[1] = t /\ t.state = "ESTABLISHED"
    BY <1>1, <1>2, FoundOne DEF Tcb
  <1> HIDE DEF s
  <1>4. T!Established(s, {})
    BY <1>1, <1>3, NoFailure DEF Kernel, s, T!tcp_input_process, T!PassiveOpen, T!PassiveOpenFails,
       T!Reject, T!Handshake, T!Close, T!Ignore, T!RemovingFlags, Fails0
  <1>5. T!Finish(T!Receive(T!Work(t), s, {}), s, {}) = T!Work(t)
    BY <1>1 DEF T!Finish, T!Receive
  <1>6. T!Work(t).tcb = t /\ T!Work(t).out = <<>>
    BY DEF T!Work
  <1>7. /\ tcp_tcb_list' = [tcp_tcb_list EXCEPT ![1] = t]
        /\ tcp_out' = <<>> /\ opened' = opened
    BY <1>3, <1>4, <1>5, <1>6 DEF T!Established, T!Emit
  <1>8. tcp_tcb_list' = <<t>>
    BY <1>2, <1>7
  <1> QED
    BY <1>2, <1>7, <1>8 DEF KernelAt, Tcb

(* The request: the response, the FIN and the acknowledgement go out. *)
LEMMA KernelRequest2 ==
  ASSUME KernelAt(2), NEW n, Kernel(Segment({"ACK"}, 1, n, 1))
  PROVE  KernelAt(3)' /\ tcp_out' = <<Response, Fin, FinalAck>>
  <1> DEFINE s == Segment({"ACK"}, 1, n, 1)
  <1>1. s.conn = Conn /\ s.flags = {"ACK"} /\ s.len = 1 /\ s.seq = 1
    BY DEF Segment
  <1>2. PICK t \in T!Tcbs : tcp_tcb_list = <<t>> /\ Tcb(t, 2)
    BY DEF KernelAt
  <1>3. /\ T!tcp_find_tcb(s.conn) = {1} /\ tcp_tcb_list[1] = t
        /\ t.state = "ESTABLISHED" /\ t.snd_nxt = Num1 /\ t.rcv_nxt = 1
    BY <1>1, <1>2, FoundOne DEF Tcb
  <1> HIDE DEF s
  <1>4. T!Established(s, {})
    BY <1>1, <1>3, NoFailure DEF Kernel, s, T!tcp_input_process, T!PassiveOpen, T!PassiveOpenFails,
       T!Reject, T!Handshake, T!Close, T!Ignore, T!RemovingFlags, Fails0
  \* The TCB as it goes through the calls
  <1> DEFINE two == 2
             t1 == [t EXCEPT !.rcv_nxt = two]
             t2 == [t1 EXCEPT !.answers = @ + 1]
             t3 == [t2 EXCEPT !.snd_nxt = NextNum(t2, {"ACK"}, RESP)]
             t4 == [t3 EXCEPT !.state = "LAST_ACK"]
             t5 == [t4 EXCEPT !.fins = @ + 1]
             t6 == [t5 EXCEPT !.snd_nxt = NextNum(t5, {"FIN", "ACK"}, 0)]
             t7 == [t6 EXCEPT !.snd_nxt = NextNum(t6, {"ACK"}, 0)]
             w0 == Rec(0, t, <<>>)
             w1 == Rec(0, t1, <<>>)
             w2 == Rec(0, t2, <<>>)
             w3 == Rec(1, t3, <<Response>>)
             w5 == Rec(1, t5, <<Response>>)
             w6 == Rec(2, t6, <<Response, Fin>>)
             w7 == Rec(3, t7, <<Response, Fin, FinalAck>>)
  <1>5. two \in T!SeqNums /\ two = 2 /\ T!Seq32(1 + 1) = two
    BY LoadConsts DEF T!Seq32
  <1> HIDE DEF two
  <1>6. /\ t1 \in T!Tcbs /\ t1.rcv_nxt = two /\ t1.snd_nxt = Num1 /\ t1.state = "ESTABLISHED"
    BY <1>3, <1>5 DEF T!Tcbs
  <1>7. T!Receive(T!Work(t), s, {}) = T!tcp_send_ack(T!socket_dispatch(w1, {}), {})
    <2>1. T!Work(t) = w0 /\ [w0 EXCEPT !.tcb.rcv_nxt = T!Seq32(@ + 1)] = w1
      BY <1>3, <1>5 DEF T!Work, Rec
    <2>2. w0.tcb.rcv_nxt = 1
      BY <1>3 DEF Rec
    <2> QED
      BY <1>1, <2>1, <2>2 DEF T!Receive
  <1> HIDE DEF t1
  <1>8. t2 \in T!Tcbs /\ t2.rcv_nxt = two /\ t2.snd_nxt = Num1 /\ t2.state = "ESTABLISHED"
    BY <1>6 DEF T!Tcbs
  <1>9. T!tcp_send_data(w1, RESP, {}) = T!tcp_send_segment(w2, {"ACK"}, RESP, {})
    BY <1>6 DEF T!tcp_send_data, Rec
  <1> HIDE DEF t2
  <1>10. NextNum(t2, {"ACK"}, RESP) = Num2
    BY <1>8, SpaceLemma DEF NextNum, Num2
  <1>11. T!tcp_send_segment(w2, {"ACK"}, RESP, {}) = w3
    <2>1. T!tcp_send_segment(w2, {"ACK"}, RESP, {}) = Sent(0, t2, <<>>, {"ACK"}, RESP)
      BY <1>8, SendLemma
    <2> QED
      BY <1>5, <1>8, <2>1 DEF Sent, Response
  <1>12. t3 \in T!Tcbs /\ t3.rcv_nxt = two /\ t3.snd_nxt = Num2 /\ t3.state = "ESTABLISHED"
    BY <1>8, <1>10, NumLemma DEF T!Tcbs
  <1> HIDE DEF t3
  <1>13. t4 \in T!Tcbs /\ t4.rcv_nxt = two /\ t4.snd_nxt = Num2 /\ t4.state = "LAST_ACK"
    BY <1>12 DEF T!Tcbs, T!States
  <1>14. T!tcp_close(w3, {}) = T!tcp_send_fin(Rec(1, t4, <<Response>>), {})
    BY <1>12 DEF T!tcp_close, Rec
  <1> HIDE DEF t4
  <1>15. t5 \in T!Tcbs /\ t5.rcv_nxt = two /\ t5.snd_nxt = Num2 /\ t5.state = "LAST_ACK"
    BY <1>13 DEF T!Tcbs
  <1>16. T!tcp_send_fin(Rec(1, t4, <<Response>>), {}) =
           T!tcp_send_segment(w5, {"FIN", "ACK"}, 0, {})
    BY <1>13 DEF T!tcp_send_fin, Rec
  <1> HIDE DEF t5
  <1>17. NextNum(t5, {"FIN", "ACK"}, 0) = Num3
    BY <1>15, SpaceLemma DEF NextNum, Num3
  <1>18. T!tcp_send_segment(w5, {"FIN", "ACK"}, 0, {}) = w6
    <2>1. T!tcp_send_segment(w5, {"FIN", "ACK"}, 0, {}) =
            Sent(1, t5, <<Response>>, {"FIN", "ACK"}, 0)
      BY <1>15, SendLemma
    <2>2. Append(<<Response>>, Segment({"FIN", "ACK"}, Num2, 2, 0)) = <<Response, Fin>>
      BY ThreeSent DEF Fin
    <2>3. 1 + 1 = 2
      OBVIOUS
    <2> QED
      BY <1>5, <1>15, <2>1, <2>2, <2>3 DEF Sent
  <1>19. t6 \in T!Tcbs /\ t6.rcv_nxt = two /\ t6.snd_nxt = Num3 /\ t6.state = "LAST_ACK"
    BY <1>15, <1>17, NumLemma DEF T!Tcbs
  <1> HIDE DEF t6
  <1>20. T!tcp_send_ack(w6, {}) = w7
    <2>1. T!tcp_send_segment(w6, {"ACK"}, 0, {}) = Sent(2, t6, <<Response, Fin>>, {"ACK"}, 0)
      BY <1>19, SendLemma
    <2>2. Append(<<Response, Fin>>, Segment({"ACK"}, Num3, 2, 0)) = <<Response, Fin, FinalAck>>
      BY ThreeSent DEF FinalAck
    <2>3. 2 + 1 = 3
      OBVIOUS
    <2> QED
      BY <1>5, <1>19, <2>1, <2>2, <2>3 DEF T!tcp_send_ack, Sent
  <1>21. NextNum(t6, {"ACK"}, 0) \in T!SeqNums
    <2>1. Num3 + 0 \in Nat
      BY NumLemma, LoadConsts
    <2>2. NextNum(t6, {"ACK"}, 0) = (Num3 + 0) % SEQ_MOD
      BY <1>19, SpaceLemma DEF NextNum
    <2> QED
      BY <2>1, <2>2, LoadConsts
  <1>22. t7 \in T!Tcbs /\ t7.state = "LAST_ACK"
    BY <1>19, <1>21 DEF T!Tcbs
  <1> HIDE DEF t7
  <1>23. T!Receive(T!Work(t), s, {}) = w7
    BY <1>7, <1>9, <1>11, <1>14, <1>16, <1>18, <1>20 DEF T!socket_dispatch
  <1>24. T!Finish(w7, s, {}) = w7
    BY <1>1 DEF T!Finish
  <1>25. w7.tcb = t7 /\ w7.out = <<Response, Fin, FinalAck>>
    BY DEF Rec
  <1> HIDE DEF w7
  <1>26. /\ tcp_tcb_list' = [tcp_tcb_list EXCEPT ![1] = t7]
         /\ tcp_out' = <<Response, Fin, FinalAck>> /\ opened' = opened
    BY <1>3, <1>4, <1>23, <1>24, <1>25 DEF T!Established, T!Emit
  <1>27. tcp_tcb_list' = <<t7>>
    BY <1>2, <1>26
  <1>28. Tcb(t7, 3) /\ opened' = 1
    BY <1>22, <1>26 DEF Tcb, KernelAt
  <1> QED
    BY <1>22, <1>26, <1>27, <1>28 DEF KernelAt, Tcb

(* Any acknowledgement ends the connection. *)
LEMMA KernelAck3 ==
  ASSUME KernelAt(3), NEW s, Kernel(s), s.conn = Conn, "ACK" \in s.flags
  PROVE  KernelAt(4)' /\ tcp_out' = <<>>
  <1>1. PICK t \in T!Tcbs : tcp_tcb_list = <<t>> /\ Tcb(t, 3)
    BY DEF KernelAt
  <1>2. T!tcp_find_tcb(s.conn) = {1} /\ tcp_tcb_list[1].state = "LAST_ACK"
    BY <1>1, FoundOne DEF Tcb
  <1>3. T!Close(s)
    BY <1>2, NoFailure DEF Kernel, T!tcp_input_process, T!PassiveOpen, T!PassiveOpenFails,
       T!Reject, T!Handshake, T!Established, T!Close, T!Ignore, T!RemovingFlags, Fails0
  <1>4. tcp_tcb_list' = T!tcp_remove_tcb(1) /\ tcp_out' = <<>> /\ opened' = opened
    BY <1>2, <1>3 DEF T!Close, T!Emit
  <1>5. T!tcp_remove_tcb(1) = <<>>
    <2>1. Len(tcp_tcb_list) = 1
      BY <1>1
    <2>2. 1 .. (1 - 1) = {}
      OBVIOUS
    <2> QED
      BY <2>1, <2>2 DEF T!tcp_remove_tcb, T!RemoveAt
  <1> QED
    BY <1>4, <1>5 DEF KernelAt

(* Nor is anything but a SYN taken any more. *)
LEMMA KernelReset4 ==
  ASSUME KernelAt(4), NEW s, Kernel(s), s.conn = Conn, "SYN" \notin s.flags,
         s.ack \in T!SeqNums
  PROVE  /\ KernelAt(4)'
         /\ tcp_out' = <<Segment({"RST", "ACK"}, s.ack, 0, 0)>>
         /\ Segment({"RST", "ACK"}, s.ack, 0, 0) \in Resets
  <1>1. T!tcp_find_tcb(s.conn) = {}
    BY FoundNone DEF KernelAt
  <1>2. T!Reject(s)
    BY <1>1, NoFailure DEF Kernel, T!tcp_input_process, T!PassiveOpen, T!PassiveOpenFails,
       T!Reject, T!Handshake, T!Established, T!Close, T!Ignore, Fails0
  <1>3. /\ tcp_tcb_list' = tcp_tcb_list /\ opened' = opened
        /\ tcp_out' = <<Segment({"RST", "ACK"}, s.ack, 0, 0)>>
    BY <1>2 DEF T!Reject, T!Emit, T!tcp_send_rst, Segment
  <1> QED
    BY <1>3 DEF KernelAt, Resets

-----------------------------------------------------------------------------
(* The two directions of the link *)
Steps == 0 .. 4

LEMMA TailLemma ==
  ASSUME NEW S, NEW q \in Seq(S), q # <<>>
  PROVE  /\ Tail(q) \in Seq(S) /\ Len(q) \in Nat \ {0} /\ Len(Tail(q)) = Len(q) - 1
         /\ Head(q) = q[1] /\ Head(q) \in S
         /\ \A i \in 1 .. Len(Tail(q)) : i + 1 \in 1 .. Len(q) /\ Tail(q)[i] = q[i + 1]
  <1>1. /\ Tail(q) \in Seq(S) /\ Len(Tail(q)) = Len(q) - 1
        /\ Head(q) = q[1] /\ Head(q) \in S
        /\ \A i \in 1 .. Len(Tail(q)) : Tail(q)[i] = q[i + 1]
    BY HeadTailProperties
  <1>2. Len(q) \in Nat /\ Len(q) # 0
    BY EmptySeq, LenProperties
  <1> QED
    BY <1>1, <1>2

LEMMA UpTail ==
  ASSUME NEW q, NEW c \in Steps, NEW k \in Steps, NEW begun, UpOk(q, c, k, begun), q # <<>>
  PROVE  /\ Head(q) \in Up
         /\ IsSyn(Head(q)) => k <= 1 /\ begun
         /\ IsAck(Head(q)) => c >= 1 /\ (Head(q).what.seq = 2 => c >= 2)
         /\ UpOk(Tail(q), c, k, begun)
         /\ IsAck(Head(q)) => \A l \in Steps : UpOk(Tail(q), c, l, begun)
  <1>1. q \in Seq(Up)
    BY DEF UpOk
  <1>2. /\ Tail(q) \in Seq(Up) /\ Len(q) \in Nat \ {0} /\ Len(Tail(q)) = Len(q) - 1
        /\ Head(q) = q[1] /\ Head(q) \in Up
        /\ \A i \in 1 .. Len(Tail(q)) : i + 1 \in 1 .. Len(q) /\ Tail(q)[i] = q[i + 1]
    BY <1>1, TailLemma
  <1>3. 1 \in 1 .. Len(q)
    BY <1>2
  <1>4. /\ IsSyn(Head(q)) => k <= 1 /\ begun
        /\ IsAck(Head(q)) => c >= 1 /\ (Head(q).what.seq = 2 => c >= 2)
    BY <1>2, <1>3 DEF UpOk
  <1>5. \A i \in 1 .. Len(Tail(q)) :
          /\ IsSyn(Tail(q)[i]) => k <= 1 /\ begun
          /\ IsAck(Tail(q)[i]) => c >= 1 /\ (Tail(q)[i].what.seq = 2 => c >= 2)
    BY <1>2 DEF UpOk
  <1>6. \A i, j \in 1 .. Len(Tail(q)) : i < j /\ IsAck(Tail(q)[i]) => ~IsSyn(Tail(q)[j])
    <2> SUFFICES ASSUME NEW i \in 1 .. Len(Tail(q)), NEW j \in 1 .. Len(Tail(q)), i < j,
                        IsAck(Tail(q)[i])
                 PROVE  ~IsSyn(Tail(q)[j])
      OBVIOUS
    <2>1. /\ i + 1 \in 1 .. Len(q) /\ j + 1 \in 1 .. Len(q) /\ i + 1 < j + 1
          /\ Tail(q)[i] = q[i + 1] /\ Tail(q)[j] = q[j + 1]
      BY <1>2
    <2> QED
      BY <2>1 DEF UpOk
  <1>7. IsAck(Head(q)) => \A i \in 1 .. Len(Tail(q)) : ~IsSyn(Tail(q)[i])
    <2> SUFFICES ASSUME IsAck(Head(q)), NEW i \in 1 .. Len(Tail(q)) PROVE ~IsSyn(Tail(q)[i])
      OBVIOUS
    <2>1. i + 1 \in 1 .. Len(q) /\ 1 < i + 1 /\ Tail(q)[i] = q[i + 1]
      BY <1>2
    <2> QED
      BY <1>2, <1>3, <2>1 DEF UpOk
  <1> QED
    BY <1>2, <1>4, <1>5, <1>6, <1>7 DEF UpOk

LEMMA UpAdd ==
  ASSUME NEW q, NEW c \in Steps, NEW k \in Steps, NEW begun, UpOk(q, c, k, begun),
         NEW f \in Up,
         IsSyn(f) => k <= 1 /\ begun /\ c = 0,
         IsAck(f) => c >= 1 /\ (f.what.seq = 2 => c >= 2)
  PROVE  UpOk(Append(q, f), c, k, begun)
  <1> DEFINE s == Append(q, f)
  <1>1. q \in Seq(Up)
    BY DEF UpOk
  <1>2. /\ s \in Seq(Up) /\ Len(q) \in Nat /\ Len(s) = Len(q) + 1
        /\ \A i \in 1 .. Len(q) : s[i] = q[i]
        /\ s[Len(q) + 1] = f
    BY <1>1, AppendProperties, LenProperties
  <1> HIDE DEF s
  <1>3. \A i \in 1 .. Len(s) : (i \in 1 .. Len(q) /\ s[i] = q[i]) \/ (i = Len(q) + 1 /\ s[i] = f)
    BY <1>2
  <1>4. \A i \in 1 .. Len(s) :
          /\ IsSyn(s[i]) => k <= 1 /\ begun
          /\ IsAck(s[i]) => c >= 1 /\ (s[i].what.seq = 2 => c >= 2)
    BY <1>3 DEF UpOk
  <1>5. \A i, j \in 1 .. Len(s) : i < j /\ IsAck(s[i]) => ~IsSyn(s[j])
    <2> SUFFICES ASSUME NEW i \in 1 .. Len(s), NEW j \in 1 .. Len(s), i < j, IsAck(s[i]),
                        IsSyn(s[j])
                 PROVE  FALSE
      OBVIOUS
    <2>1. i \in 1 .. Len(q) /\ s[i] = q[i]
      BY <1>2, <1>3
    <2>2. c >= 1
      BY <2>1 DEF UpOk
    <2>3. j \in 1 .. Len(q) /\ s[j] = q[j]
      BY <1>3, <2>2
    <2> QED
      BY <2>1, <2>3 DEF UpOk
  <1>6. UpOk(s, c, k, begun)
    BY <1>2, <1>4, <1>5 DEF UpOk
  <1> QED
    BY <1>6 DEF s

LEMMA UpLater ==
  ASSUME NEW q, NEW c \in Steps, NEW k \in Steps, NEW begun, UpOk(q, c, k, begun),
         NEW d \in Steps, c <= d, NEW now, begun => now
  PROVE  UpOk(q, d, k, now)
  BY DEF UpOk, Steps

(* The first frame on its way down is the next the client has to have, or  *)
(* one that changes nothing, or a reset after all of them.                 *)
LEMMA DownHead ==
  ASSUME NEW q, NEW c \in Steps, NEW k \in Steps, DownOk(q, c, k), q # <<>>
  PROVE  /\ Head(q) \in Down
         /\ Rank(Head(q)) # 0 => SentAt(Rank(Head(q)), k)
         /\ Rank(Head(q)) \in 1 .. 3 => c = Rank(Head(q)) - 1
         /\ Rank(Head(q)) \in 4 .. 5 => c >= 3
  <1> DEFINE r0 == Rank(Head(q))
  <1>1. q \in Seq(Down)
    BY DEF DownOk
  <1>2. Head(q) \in Down /\ Head(q) = q[1] /\ Len(q) \in Nat \ {0}
    BY <1>1, TailLemma
  <1>3. 1 \in 1 .. Len(q) /\ r0 \in 0 .. 5
    BY <1>2, RankLemma
  <1>4. r0 # 0 => SentAt(r0, k)
    BY <1>2, <1>3 DEF DownOk
  <1>5. \A r \in 1 .. 3 : r < r0 => c >= r
    <2> SUFFICES ASSUME NEW r \in 1 .. 3, r < r0, ~(c >= r) PROVE FALSE
      OBVIOUS
    <2>1. SentAt(r, k)
      BY <1>3, <1>4 DEF SentAt, Steps
    <2>2. c < r
      BY DEF Steps
    <2>3. PICK i \in 1 .. Len(q) : Rank(q[i]) = r
      BY <2>1, <2>2 DEF DownOk
    <2>4. i # 1
      BY <1>2, <2>3
    <2>5. 1 < i
      BY <1>2, <2>4
    <2>6. Before(q[1], q[i])
      BY <1>3, <2>5 DEF DownOk
    <2> QED
      BY <1>2, <1>3, <2>3, <2>6 DEF Before
  <1>6. r0 \in 1 .. 3 => c < r0
    BY <1>2, <1>3, <1>4 DEF DownOk
  <1> HIDE DEF r0
  <1>7. r0 \in 1 .. 3 => c = r0 - 1
    <2>1. r0 = 1 => c = 0
      BY <1>6 DEF Steps
    <2>2. r0 = 2 => c = 1
      BY <1>5, <1>6 DEF Steps
    <2>3. r0 = 3 => c = 2
      BY <1>5, <1>6 DEF Steps
    <2> QED
      BY <2>1, <2>2, <2>3
  <1>8. r0 \in 4 .. 5 => c >= 3
    BY <1>5
  <1> QED
    BY <1>2, <1>4, <1>7, <1>8 DEF r0

LEMMA DownTail ==
  ASSUME NEW q, NEW c \in Steps, NEW k \in Steps, DownOk(q, c, k), q # <<>>,
         NEW d \in Steps,
         IF Rank(Head(q)) \in 1 .. 3 THEN d = Rank(Head(q))
         ELSE d = c \/ (d >= 3 /\ c >= 3)
  PROVE  DownOk(Tail(q), d, k)
  <1> DEFINE s == Tail(q)
             r0 == Rank(Head(q))
  <1>1. q \in Seq(Down)
    BY DEF DownOk
  <1>2. /\ s \in Seq(Down) /\ Len(q) \in Nat \ {0} /\ Len(s) = Len(q) - 1
        /\ Head(q) = q[1] /\ Head(q) \in Down
        /\ \A i \in 1 .. Len(s) : i + 1 \in 1 .. Len(q) /\ s[i] = q[i + 1]
    BY <1>1, TailLemma
  <1>3. r0 \in 0 .. 5 /\ 1 \in 1 .. Len(q)
    BY <1>2, RankLemma
  <1>4. \A j \in 1 .. Len(s) : Before(q[1], s[j])
    <2> SUFFICES ASSUME NEW j \in 1 .. Len(s) PROVE Before(q[1], s[j])
      OBVIOUS
    <2>1. j + 1 \in 1 .. Len(q) /\ s[j] = q[j + 1] /\ 1 < j + 1
      BY <1>2
    <2> QED
      BY <1>3, <2>1 DEF DownOk
  <1>5. \A i, j \in 1 .. Len(s) : i < j => Before(s[i], s[j])
    <2> SUFFICES ASSUME NEW i \in 1 .. Len(s), NEW j \in 1 .. Len(s), i < j
                 PROVE  Before(s[i], s[j])
      OBVIOUS
    <2>1. /\ i + 1 \in 1 .. Len(q) /\ j + 1 \in 1 .. Len(q) /\ i + 1 < j + 1
          /\ s[i] = q[i + 1] /\ s[j] = q[j + 1]
      BY <1>2
    <2> QED
      BY <2>1 DEF DownOk
  <1>6. \A i \in 1 .. Len(s) : Rank(s[i]) # 0 => SentAt(Rank(s[i]), k)
    BY <1>2 DEF DownOk
  <1>7. \A r \in 1 .. 3 : r # r0 =>
          ((\E i \in 1 .. Len(s) : Rank(s[i]) = r) <=> (\E i \in 1 .. Len(q) : Rank(q[i]) = r))
    <2> SUFFICES ASSUME NEW r \in 1 .. 3, r # r0
                 PROVE  (\E i \in 1 .. Len(s) : Rank(s[i]) = r) <=>
                          (\E i \in 1 .. Len(q) : Rank(q[i]) = r)
      OBVIOUS
    <2>1. ASSUME NEW i \in 1 .. Len(q), Rank(q[i]) = r
          PROVE  \E j \in 1 .. Len(s) : Rank(s[j]) = r
      <3>1. i # 1
        BY <1>2, <2>1
      <3>2. i - 1 \in 1 .. Len(s) /\ (i - 1) + 1 = i
        BY <1>2, <3>1
      <3>3. s[i - 1] = q[i]
        BY <1>2, <3>2
      <3> QED
        BY <2>1, <3>2, <3>3
    <2> QED
      BY <1>2, <2>1
  <1> HIDE DEF s
  <1>8. \A r \in 1 .. 3 : SentAt(r, k) => (d < r <=> \E i \in 1 .. Len(s) : Rank(s[i]) = r)
    <2> SUFFICES ASSUME NEW r \in 1 .. 3, SentAt(r, k)
                 PROVE  d < r <=> \E i \in 1 .. Len(s) : Rank(s[i]) = r
      OBVIOUS
    <2>1. c < r <=> \E i \in 1 .. Len(q) : Rank(q[i]) = r
      BY DEF DownOk
    <2>2. r0 \in 1 .. 3 => d = r0 /\ c = r0 - 1
      BY DownHead
    <2>3. CASE r = r0
      <3>1. ~(d < r)
        BY <2>2, <2>3
      <3>2. \A i \in 1 .. Len(s) : Rank(s[i]) # r
        BY <1>2, <1>4, <2>3 DEF Before
      <3> QED
        BY <3>1, <3>2
    <2>4. CASE r # r0
      <3>1. c < r <=> d < r
        BY <2>2, <2>4 DEF Steps
      <3> QED
        BY <1>7, <2>1, <2>4, <3>1
    <2> QED
      BY <2>3, <2>4
  <1>9. DownOk(s, d, k)
    BY <1>2, <1>5, <1>6, <1>8 DEF DownOk
  <1> QED
    BY <1>9 DEF s

(* What the kernel sends comes after what it has sent. *)
LEMMA DownAdd ==
  ASSUME NEW q, NEW c \in Steps, NEW k \in Steps, DownOk(q, c, k), NEW l \in Steps, k <= l,
         NEW more \in Seq(Down),
         \A i \in 1 .. Len(more) :
           /\ Rank(more[i]) # 0 => SentAt(Rank(more[i]), l)
           /\ \A r \in 1 .. 5 :
                SentAt(r, k) => \/ Rank(more[i]) = 0 \/ r < Rank(more[i])
                                \/ (r = 5 /\ Rank(more[i]) = 5),
         \A i, j \in 1 .. Len(more) : i < j => Before(more[i], more[j]),
         \A r \in 1 .. 3 : SentAt(r, l) /\ ~SentAt(r, k) =>
                             c < r /\ \E i \in 1 .. Len(more) : Rank(more[i]) = r
  PROVE  DownOk(q \o more, c, l)
  <1> DEFINE s == q \o more
  <1>1. q \in Seq(Down)
    BY DEF DownOk
  <1>2. Len(q) \in Nat /\ Len(more) \in Nat
    BY <1>1, LenProperties
  <1>3. /\ s \in Seq(Down) /\ Len(s) = Len(q) + Len(more)
        /\ \A i \in 1 .. Len(q) + Len(more) :
             s[i] = IF i <= Len(q) THEN q[i] ELSE more[i - Len(q)]
    BY <1>1, ConcatProperties
  <1> HIDE DEF s
  <1>4. \A i \in 1 .. Len(s) : \/ i \in 1 .. Len(q) /\ s[i] = q[i]
                               \/ i > Len(q) /\ i - Len(q) \in 1 .. Len(more)
                                  /\ s[i] = more[i - Len(q)]
    BY <1>2, <1>3
  <1>5. \A i \in 1 .. Len(q) : i \in 1 .. Len(s) /\ s[i] = q[i]
    BY <1>2, <1>3
  <1>6. \A i \in 1 .. Len(more) : Len(q) + i \in 1 .. Len(s) /\ s[Len(q) + i] = more[i]
    <2> SUFFICES ASSUME NEW i \in 1 .. Len(more)
                 PROVE  Len(q) + i \in 1 .. Len(s) /\ s[Len(q) + i] = more[i]
      OBVIOUS
    <2>1. Len(q) + i \in 1 .. Len(s) /\ ~(Len(q) + i <= Len(q)) /\ (Len(q) + i) - Len(q) = i
      BY <1>2, <1>3
    <2> QED
      BY <1>3, <2>1
  <1>7. \A r \in 1 .. 5 : SentAt(r, k) => SentAt(r, l)
    BY DEF SentAt, Steps
  <1>8. \A i \in 1 .. Len(s) : Rank(s[i]) # 0 => SentAt(Rank(s[i]), l)
    <2> SUFFICES ASSUME NEW i \in 1 .. Len(s), Rank(s[i]) # 0 PROVE SentAt(Rank(s[i]), l)
      OBVIOUS
    <2>1. CASE i \in 1 .. Len(q) /\ s[i] = q[i]
      <3>1. q[i] \in Down
        BY <1>1, <2>1, ElementOfSeq
      <3>2. Rank(q[i]) \in 1 .. 5
        BY <2>1, <3>1, RankLemma
      <3>3. SentAt(Rank(q[i]), k)
        BY <2>1 DEF DownOk
      <3> QED
        BY <1>7, <2>1, <3>2, <3>3
    <2>2. CASE i - Len(q) \in 1 .. Len(more) /\ s[i] = more[i - Len(q)]
      BY <2>2
    <2> QED
      BY <1>4, <2>1, <2>2
  <1>9. \A i, j \in 1 .. Len(s) : i < j => Before(s[i], s[j])
    <2> SUFFICES ASSUME NEW i \in 1 .. Len(s), NEW j \in 1 .. Len(s), i < j
                 PROVE  Before(s[i], s[j])
      OBVIOUS
    <2>1. CASE j \in 1 .. Len(q) /\ s[j] = q[j]
      <3>1. i \in 1 .. Len(q)
        BY <1>2, <2>1
      <3> QED
        BY <1>5, <2>1, <3>1 DEF DownOk
    <2>2. CASE j > Len(q) /\ j - Len(q) \in 1 .. Len(more) /\ s[j] = more[j - Len(q)]
      <3>1. CASE i \in 1 .. Len(q) /\ s[i] = q[i]
        <4>1. q[i] \in Down
          BY <1>1, <3>1, ElementOfSeq
        <4>2. Rank(q[i]) \in 0 .. 5
          BY <4>1, RankLemma
        <4>3. Rank(q[i]) # 0 => SentAt(Rank(q[i]), k)
          BY <3>1 DEF DownOk
        <4> QED
          BY <2>2, <3>1, <4>2, <4>3 DEF Before
      <3>2. CASE i > Len(q) /\ i - Len(q) \in 1 .. Len(more) /\ s[i] = more[i - Len(q)]
        <4>1. i - Len(q) < j - Len(q)
          BY <1>2
        <4> QED
          BY <2>2, <3>2, <4>1
      <3> QED
        BY <1>4, <3>1, <3>2
    <2> QED
      BY <1>4, <2>1, <2>2
  <1>10. \A r \in 1 .. 3 : SentAt(r, l) => (c < r <=> \E i \in 1 .. Len(s) : Rank(s[i]) = r)
    <2> SUFFICES ASSUME NEW r \in 1 .. 3, SentAt(r, l)
                 PROVE  c < r <=> \E i \in 1 .. Len(s) : Rank(s[i]) = r
      OBVIOUS
    <2>1. CASE SentAt(r, k)
      <3>1. c < r <=> \E i \in 1 .. Len(q) : Rank(q[i]) = r
        BY <2>1 DEF DownOk
      <3>2. \A i \in 1 .. Len(more) : Rank(more[i]) # r
        BY <2>1
      <3> QED
        BY <1>4, <1>5, <3>1, <3>2
    <2>2. CASE ~SentAt(r, k)
      BY <1>6, <2>2
    <2> QED
      BY <2>1, <2>2
  <1>11. DownOk(s, c, l)
    BY <1>3, <1>8, <1>9, <1>10 DEF DownOk
  <1> QED
    BY <1>11 DEF s

LEMMA DownSame ==
  ASSUME NEW q, NEW c \in Steps, NEW k \in Steps, DownOk(q, c, k), NEW l \in Steps, k <= l,
         \A r \in 1 .. 3 : SentAt(r, l) => SentAt(r, k)
  PROVE  DownOk(q, c, l)
  <1>1. \A i \in 1 .. Len(q) : Rank(q[i]) # 0 => SentAt(Rank(q[i]), l)
    BY DEF DownOk, SentAt, Steps
  <1> QED
    BY <1>1 DEF DownOk

(* The segments of a step as frames *)
AsFrames(segs) == [n \in DOMAIN segs |-> Arrived("tcp", segs[n])]
Segs == {SynAck, Response, Fin, FinalAck} \cup Resets

LEMMA FramesLemma ==
  ASSUME NEW segs \in Seq(Segs)
  PROVE  /\ AsFrames(segs) \in Seq(Down) /\ Len(AsFrames(segs)) = Len(segs)
         /\ \A i \in 1 .. Len(segs) : AsFrames(segs)[i] = Arrived("tcp", segs[i])
  <1>1. Len(segs) \in Nat /\ DOMAIN segs = 1 .. Len(segs)
    BY LenProperties
  <1>2. \A i \in 1 .. Len(segs) : segs[i] \in Segs
    BY ElementOfSeq
  <1>3. \A i \in 1 .. Len(segs) : Arrived("tcp", segs[i]) \in Down
    BY <1>2, SentRanks DEF Segs
  <1>4. AsFrames(segs) = [n \in 1 .. Len(segs) |-> Arrived("tcp", segs[n])]
    BY <1>1 DEF AsFrames
  <1>5. AsFrames(segs) \in [1 .. Len(segs) -> Down]
    BY <1>3, <1>4
  <1>6. AsFrames(segs) \in Seq(Down) /\ Len(AsFrames(segs)) = Len(segs)
    BY <1>1, <1>5
  <1> QED
    BY <1>4, <1>6

LEMMA DownNothing ==
  ASSUME NEW q \in Seq(Down)
  PROVE  q \o AsFrames(<<>>) = q
  <1>1. AsFrames(<<>>) = <<>>
    BY DEF AsFrames
  <1> QED
    BY <1>1, ConcatEmptySeq

LEMMA DownSynAck ==
  ASSUME NEW q, DownOk(q, 0, 0)
  PROVE  DownOk(q \o AsFrames(<<SynAck>>), 0, 1)
  <1> DEFINE segs == <<SynAck>>
             more == AsFrames(segs)
  <1>1. segs \in Seq(Segs) /\ Len(segs) = 1 /\ segs[1] = SynAck
    BY DEF Segs
  <1> HIDE DEF segs
  <1>2. more \in Seq(Down) /\ Len(more) = 1 /\ more[1] = Arrived("tcp", SynAck)
    BY <1>1, FramesLemma
  <1>3. Rank(more[1]) = 1
    BY <1>2, SentRanks
  <1> HIDE DEF more
  <1>4. \A r \in 0 .. 5 : ~SentAt(r, 0) /\ (SentAt(r, 1) <=> r = 1)
    BY DEF SentAt
  <1>5. \A i \in 1 .. Len(more) :
          /\ Rank(more[i]) # 0 => SentAt(Rank(more[i]), 1)
          /\ \A r \in 1 .. 5 :
               SentAt(r, 0) => \/ Rank(more[i]) = 0 \/ r < Rank(more[i])
                               \/ (r = 5 /\ Rank(more[i]) = 5)
    BY <1>2, <1>3, <1>4
  <1>6. \A i, j \in 1 .. Len(more) : i < j => Before(more[i], more[j])
    BY <1>2
  <1>7. \A r \in 1 .. 3 : SentAt(r, 1) /\ ~SentAt(r, 0) =>
                            0 < r /\ \E i \in 1 .. Len(more) : Rank(more[i]) = r
    BY <1>2, <1>3, <1>4
  <1>8. 0 \in Steps /\ 1 \in Steps
    BY DEF Steps
  <1>9. DownOk(q \o more, 0, 1)
    BY <1>2, <1>5, <1>6, <1>7, <1>8, DownAdd
  <1> QED
    BY <1>9 DEF more, segs

LEMMA DownAnswer ==
  ASSUME NEW q, DownOk(q, 1, 2)
  PROVE  DownOk(q \o AsFrames(<<Response, Fin, FinalAck>>), 1, 3)
  <1> DEFINE segs == <<Response, Fin, FinalAck>>
             more == AsFrames(segs)
  <1>1. /\ segs \in Seq(Segs) /\ Len(segs) = 3
        /\ segs[1] = Response /\ segs[2] = Fin /\ segs[3] = FinalAck
    BY DEF Segs
  <1> HIDE DEF segs
  <1>2. /\ more \in Seq(Down) /\ Len(more) = 3 /\ more[1] = Arrived("tcp", Response)
        /\ more[2] = Arrived("tcp", Fin) /\ more[3] = Arrived("tcp", FinalAck)
    BY <1>1, FramesLemma
  <1>3. Rank(more[1]) = 2 /\ Rank(more[2]) = 3 /\ Rank(more[3]) = 4
    BY <1>2, SentRanks
  <1> HIDE DEF more
  <1>4. \A i \in 1 .. Len(more) : Rank(more[i]) = i + 1
    BY <1>2, <1>3
  <1>5. \A r \in 0 .. 5 : (SentAt(r, 2) <=> r = 1) /\ (SentAt(r, 3) <=> r \in 1 .. 4)
    BY DEF SentAt
  <1>6. \A i \in 1 .. Len(more) :
          /\ Rank(more[i]) # 0 => SentAt(Rank(more[i]), 3)
          /\ \A r \in 1 .. 5 :
               SentAt(r, 2) => \/ Rank(more[i]) = 0 \/ r < Rank(more[i])
                               \/ (r = 5 /\ Rank(more[i]) = 5)
    <2> SUFFICES ASSUME NEW i \in 1 .. Len(more)
                 PROVE  /\ SentAt(i + 1, 3)
                        /\ \A r \in 1 .. 5 : SentAt(r, 2) => r < i + 1
      BY <1>4
    <2>1. i \in 1 .. 3 /\ i + 1 \in 1 .. 4 /\ i + 1 \in 0 .. 5 /\ 1 < i + 1
      BY <1>2
    <2> QED
      BY <1>5, <2>1
  <1>7. \A i, j \in 1 .. Len(more) : i < j => Before(more[i], more[j])
    <2> SUFFICES ASSUME NEW i \in 1 .. Len(more), NEW j \in 1 .. Len(more), i < j
                 PROVE  Before(more[i], more[j])
      OBVIOUS
    <2>1. Rank(more[i]) = i + 1 /\ Rank(more[j]) = j + 1 /\ i + 1 < j + 1
      BY <1>2, <1>4
    <2> QED
      BY <2>1 DEF Before
  <1>8. \A r \in 1 .. 3 : SentAt(r, 3) /\ ~SentAt(r, 2) =>
                            1 < r /\ \E i \in 1 .. Len(more) : Rank(more[i]) = r
    <2> SUFFICES ASSUME NEW r \in 1 .. 3, r # 1
                 PROVE  1 < r /\ \E i \in 1 .. Len(more) : Rank(more[i]) = r
      BY <1>5
    <2>1. r = 2 \/ r = 3
      OBVIOUS
    <2> QED
      BY <1>2, <1>3, <2>1
  <1>9. 1 \in Steps /\ 2 \in Steps /\ 3 \in Steps
    BY DEF Steps
  <1>10. DownOk(q \o more, 1, 3)
    BY <1>2, <1>6, <1>7, <1>8, <1>9, DownAdd
  <1> QED
    BY <1>10 DEF more, segs

(* A reset, or an ARP reply *)
LEMMA DownOne ==
  ASSUME NEW q, NEW c \in Steps, NEW k \in Steps, DownOk(q, c, k), NEW f \in Down,
         Rank(f) = 0 \/ (Rank(f) = 5 /\ k = 4)
  PROVE  DownOk(q \o <<f>>, c, k)
  <1> DEFINE more == <<f>>
  <1>1. more \in Seq(Down) /\ Len(more) = 1 /\ more[1] = f
    OBVIOUS
  <1> HIDE DEF more
  <1>2. \A i \in 1 .. Len(more) :
          /\ Rank(more[i]) # 0 => SentAt(Rank(more[i]), k)
          /\ \A r \in 1 .. 5 :
               SentAt(r, k) => \/ Rank(more[i]) = 0 \/ r < Rank(more[i])
                               \/ (r = 5 /\ Rank(more[i]) = 5)
    BY <1>1 DEF SentAt
  <1>3. \A i, j \in 1 .. Len(more) : i < j => Before(more[i], more[j])
    BY <1>1
  <1>4. \A r \in 1 .. 3 : SentAt(r, k) /\ ~SentAt(r, k) =>
                            c < r /\ \E i \in 1 .. Len(more) : Rank(more[i]) = r
    OBVIOUS
  <1>5. k <= k
    BY DEF Steps
  <1>6. DownOk(q \o more, c, k)
    BY <1>1, <1>2, <1>3, <1>4, <1>5, DownAdd
  <1> QED
    BY <1>6 DEF more

-----------------------------------------------------------------------------
(* LoadInv is inductive. *)

LEMMA ClientFrames ==
  ASSUME NEW n \in T!SeqNums
  PROVE  /\ Arrived("arp", WhoHas) \in Up
         /\ ~IsSyn(Arrived("arp", WhoHas)) /\ ~IsAck(Arrived("arp", WhoHas))
         /\ Arrived("tcp", Segment({"SYN"}, 0, 0, 0)) \in Up
         /\ ~IsAck(Arrived("tcp", Segment({"SYN"}, 0, 0, 0)))
         /\ \A seq \in 1 .. 2, len \in 0 .. 1 : seq + len <= 2 =>
              /\ Arrived("tcp", Segment({"ACK"}, seq, n, len)) \in Up
              /\ ~IsSyn(Arrived("tcp", Segment({"ACK"}, seq, n, len)))
              /\ Arrived("tcp", Segment({"ACK"}, seq, n, len)).what.seq = seq
         /\ Arrived("tcp", Segment({"FIN", "ACK"}, 2, n, 0)) \in Up
         /\ ~IsSyn(Arrived("tcp", Segment({"FIN", "ACK"}, 2, n, 0)))
  <1>1. /\ Arrived("arp", WhoHas) \in Up
        /\ ~IsSyn(Arrived("arp", WhoHas)) /\ ~IsAck(Arrived("arp", WhoHas))
    BY DEF Arrived, Up, IsSyn, IsAck
  <1>2. /\ Arrived("tcp", Segment({"SYN"}, 0, 0, 0)) \in Up
        /\ ~IsAck(Arrived("tcp", Segment({"SYN"}, 0, 0, 0)))
    BY DEF Arrived, Up, IsSyn, IsAck, Segment
  <1>3. /\ Arrived("tcp", Segment({"FIN", "ACK"}, 2, n, 0)) \in Up
        /\ ~IsSyn(Arrived("tcp", Segment({"FIN", "ACK"}, 2, n, 0)))
    BY DEF Arrived, Up, IsSyn, IsAck, Segment
  <1>4. ASSUME NEW seq \in 1 .. 2, NEW len \in 0 .. 1, seq + len <= 2
        PROVE  /\ Arrived("tcp", Segment({"ACK"}, seq, n, len)) \in Up
               /\ ~IsSyn(Arrived("tcp", Segment({"ACK"}, seq, n, len)))
               /\ Arrived("tcp", Segment({"ACK"}, seq, n, len)).what.seq = seq
    <2>1. (seq = 1 /\ len = 0) \/ (seq = 1 /\ len = 1) \/ (seq = 2 /\ len = 0)
      BY <1>4
    <2>2. Arrived("tcp", Segment({"ACK"}, seq, n, len)) \in Up
      BY <2>1 DEF Arrived, Up
    <2>3. /\ ~IsSyn(Arrived("tcp", Segment({"ACK"}, seq, n, len)))
          /\ Arrived("tcp", Segment({"ACK"}, seq, n, len)).what.seq = seq
      BY DEF Arrived, IsSyn, Segment
    <2> QED
      BY <2>2, <2>3
  <1> QED
    BY <1>1, <1>2, <1>3, <1>4

LEMMA SendsUp ==
  ASSUME NEW c \in Steps, NEW k \in Steps, NEW begun, UpOk(up, c, k, begun),
         NEW f \in Up, SendUp(f),
         IsSyn(f) => k <= 1 /\ begun /\ c = 0,
         IsAck(f) => c >= 1 /\ (f.what.seq = 2 => c >= 2)
  PROVE  UpOk(up', c, k, begun)
  <1>1. up' = Append(up, f) \/ up' = up
    BY DEF SendUp
  <1> QED
    BY <1>1, UpAdd

LEMMA ClientSendsLoad ==
  ASSUME NEW c \in Steps, NEW k \in Steps, Load(c, k), ClientSends
  PROVE  Load(c, k)'
  <1>1. UNCHANGED <<tcp_tcb_list, tcp_global_isn, opened, client, down>>
    BY DEF ClientSends, tcp_vars
  <1>2. ClientAt(c)' /\ KernelAt(k)' /\ InStep(c, k)' /\ DownInv(c, k)'
    BY <1>1 DEF Load, ClientAt, KernelAt, InStep, DownInv
  <1>3. UpOk(up, c, k, client.state # "arp") /\ InStep(c, k)
    BY DEF Load, UpInv
  <1>4. client.state # "closed" /\ SendUp(Unacknowledged)
    BY DEF ClientSends
  <1>5. c # 4
    BY <1>4 DEF Load, ClientAt
  <1>6. UpOk(up', c, k, client.state # "arp")
    <2>1. CASE c = 0
      <3>1. client.state \in {"arp", "syn_sent"}
        BY <2>1 DEF Load, ClientAt
      <3>2. CASE client.state = "arp"
        <4>1. Unacknowledged = Arrived("arp", WhoHas)
          BY <3>2 DEF Unacknowledged
        <4> QED
          BY <1>3, <1>4, <4>1, ClientFrames, SendsUp, LoadConsts
      <3>3. CASE client.state = "syn_sent"
        <4>1. Unacknowledged = Arrived("tcp", Segment({"SYN"}, 0, 0, 0))
          BY <3>3 DEF Unacknowledged
        <4>2. k <= 1
          BY <1>3, <2>1 DEF InStep, Steps
        <4>3. client.state # "arp"
          BY <3>3
        <4> QED
          BY <1>3, <1>4, <2>1, <4>1, <4>2, <4>3, ClientFrames, SendsUp, LoadConsts
      <3> QED
        BY <3>1, <3>2, <3>3
    <2>2. CASE c \in 1 .. 2
      <3> DEFINE f == Arrived("tcp", Segment({"ACK"}, 1, client.rcv_nxt, 1))
      <3>1. client.state = "established" /\ client.rcv_nxt \in T!SeqNums
        BY <2>2, NumLemma DEF Load, ClientAt
      <3>2. Unacknowledged = f
        BY <3>1 DEF Unacknowledged
      <3>3. f \in Up /\ ~IsSyn(f) /\ f.what.seq = 1
        BY <3>1, ClientFrames
      <3> HIDE DEF f
      <3> QED
        BY <1>3, <1>4, <2>2, <3>2, <3>3, SendsUp
    <2>3. CASE c = 3
      <3> DEFINE f == Arrived("tcp", Segment({"FIN", "ACK"}, 2, client.rcv_nxt, 0))
      <3>1. client.state = "last_ack" /\ client.rcv_nxt \in T!SeqNums
        BY <2>3, NumLemma DEF Load, ClientAt
      <3>2. Unacknowledged = f
        BY <3>1 DEF Unacknowledged
      <3>3. f \in Up /\ ~IsSyn(f)
        BY <3>1, ClientFrames
      <3> HIDE DEF f
      <3> QED
        <4>1. c >= 1 /\ c >= 2
          BY <2>3
        <4> QED
          BY <1>3, <1>4, <3>2, <3>3, <4>1, SendsUp
    <2> QED
      BY <1>5, <2>1, <2>2, <2>3 DEF Steps
  <1> QED
    BY <1>1, <1>2, <1>6 DEF Load, UpInv

LEMMA ClientReceivesLoad ==
  ASSUME NEW c \in Steps, NEW k \in Steps, Load(c, k), ClientReceives
  PROVE  \E d \in Steps : Load(d, k)'
  <1> DEFINE f == Head(down)
             s == f.what
             begun == client.state # "arp"
  <1>1. /\ UNCHANGED <<tcp_tcb_list, tcp_global_isn, opened>>
        /\ down # <<>> /\ down' = Tail(down)
        /\ IF f.kind = "tcp" THEN ClientTakes(s)
           ELSE /\ client' = [client EXCEPT !.state = IF @ = "arp" THEN "syn_sent" ELSE @]
                /\ UNCHANGED up
    BY DEF ClientReceives, tcp_vars
  <1>2. KernelAt(k)'
    BY <1>1 DEF Load, KernelAt
  <1>3. ClientAt(c) /\ InStep(c, k) /\ UpOk(up, c, k, begun) /\ DownOk(down, c, k)
    BY DEF Load, UpInv, DownInv
  <1>4. /\ f \in Down
        /\ Rank(f) # 0 => SentAt(Rank(f), k)
        /\ Rank(f) \in 1 .. 3 => c = Rank(f) - 1
        /\ Rank(f) \in 4 .. 5 => c >= 3
    BY <1>1, <1>3, DownHead
  <1>5. Rank(f) \in 0 .. 5
    BY <1>4, RankLemma
  <1>6. ASSUME NEW d \in Steps, c <= d,
               IF Rank(f) \in 1 .. 3 THEN d = Rank(f) ELSE d = c \/ (d >= 3 /\ c >= 3),
               ClientAt(d)', InStep(d, k)', UpOk(up', d, k, (client.state # "arp")')
        PROVE  Load(d, k)'
    <2>1. DownOk(Tail(down), d, k)
      BY <1>1, <1>3, <1>6, DownTail
    <2> QED
      BY <1>1, <1>2, <1>6, <2>1 DEF Load, UpInv, DownInv
  <1>7. CASE Rank(f) = 0
    <2>1. f.kind = "arp"
      BY <1>4, <1>7, RankLemma
    <2>2. up' = up /\ client' = [client EXCEPT !.state = IF @ = "arp" THEN "syn_sent" ELSE @]
      BY <1>1, <2>1
    <2>3. ClientAt(c)' /\ (begun => client'.state # "arp") /\ client'.state # "arp"
      <3>1. CASE c = 0
        BY <1>3, <2>2, <3>1 DEF ClientAt
      <3>2. CASE c # 0
        <4>1. client' = client /\ client.state # "arp"
          <5>1. c = 1 \/ c = 2 \/ c = 3 \/ c = 4
            BY <3>2 DEF Steps
          <5> QED
            BY <1>3, <2>2, <5>1 DEF ClientAt
        <4> QED
          BY <1>3, <4>1 DEF ClientAt
      <3> QED
        BY <3>1, <3>2
    <2>4. InStep(c, k)'
      BY <1>3, <2>3 DEF InStep
    <2>5. c <= c
      BY DEF Steps
    <2>6. UpOk(up', c, k, (client.state # "arp")')
      BY <1>3, <2>2, <2>3, <2>5, UpLater
    <2>7. ~(Rank(f) \in 1 .. 3)
      BY <1>7
    <2> QED
      BY <1>6, <2>3, <2>4, <2>5, <2>6, <2>7
  <1>8. CASE Rank(f) = 1
    <2>1. f.kind = "tcp" /\ s = SynAck /\ c = 0
      BY <1>4, <1>8, RankLemma
    <2>2. k >= 1 /\ client.state = "syn_sent"
      <3>1. k >= 1
        BY <1>4, <1>8 DEF SentAt, Steps
      <3> QED
        BY <1>3, <2>1, <3>1 DEF InStep, ClientAt
    <2>3. s.flags = {"SYN", "ACK"} /\ s.seq = FirstIsn
      BY <2>1 DEF SynAck, Segment
    <2> DEFINE g == Arrived("tcp", Segment({"ACK"}, 1, Num1, 0))
    <2>4. /\ client' = [client EXCEPT !.state = "established", !.rcv_nxt = Num1]
          /\ SendUp(g)
      <3>1. (s.seq + 1) % SEQ_MOD = Num1
        BY <2>3 DEF Num1
      <3> QED
        BY <1>1, <2>1, <2>2, <2>3, <3>1 DEF ClientTakes, Ack
    <2>5. g \in Up /\ ~IsSyn(g) /\ g.what.seq = 1
      BY NumLemma, ClientFrames
    <2> HIDE DEF g
    <2>6. client' = [state |-> "established", rcv_nxt |-> Num1, got |-> 0]
      BY <1>3, <2>1, <2>4 DEF ClientAt
    <2>7. ClientAt(1)' /\ client'.state # "arp"
      BY <2>6 DEF ClientAt
    <2>8. InStep(1, k)'
      BY <2>2, <2>7 DEF InStep
    <2>9. UpOk(up, 1, k, TRUE)
      <3>1. UpOk(up, 0, k, begun) /\ 0 \in Steps /\ 1 \in Steps /\ 0 <= 1
        BY <1>3, <2>1 DEF Steps
      <3> QED
        BY <3>1, UpLater
    <2>10. UpOk(up', 1, k, TRUE)
      <3>1. 1 >= 1 /\ 1 \in Steps /\ ~(g.what.seq = 2)
        BY <2>5 DEF Steps
      <3> QED
        BY <2>4, <2>5, <2>9, <3>1, SendsUp
    <2>11. (client.state # "arp")' = TRUE
      BY <2>7
    <2>12. UpOk(up', 1, k, (client.state # "arp")')
      BY <2>10, <2>11
    <2>13. 1 \in Steps /\ c <= 1 /\ Rank(f) \in 1 .. 3
      BY <1>8, <2>1 DEF Steps
    <2> QED
      BY <1>6, <1>8, <2>7, <2>8, <2>12, <2>13
  <1>9. CASE Rank(f) = 2
    <2>1. f.kind = "tcp" /\ s = Response /\ c = 1
      BY <1>4, <1>9, RankLemma
    <2>2. k >= 3
      BY <1>4, <1>9 DEF SentAt, Steps
    <2>3. /\ s.flags = {"ACK"} /\ s.seq = Num1 /\ s.len = RESP
          /\ client = [state |-> "established", rcv_nxt |-> Num1, got |-> 0]
      BY <1>3, <2>1 DEF Response, Segment, ClientAt
    <2> DEFINE g == Arrived("tcp", Segment({"ACK"}, 2, Num2, 0))
    <2>4. /\ client' = [state |-> "established", rcv_nxt |-> Num2, got |-> RESP]
          /\ SendUp(g)
      <3>1. RESP > 0 /\ 0 + RESP = RESP /\ Num1 + RESP + 0 = Num1 + RESP
        BY NumLemma, LoadConsts
      <3>2. (s.seq + s.len + (IF "FIN" \in s.flags THEN 1 ELSE 0)) % SEQ_MOD = Num2
        BY <2>3, <3>1 DEF Num2
      <3> QED
        BY <1>1, <2>1, <2>3, <3>1, <3>2 DEF ClientTakes, Ack
    <2>5. g \in Up /\ ~IsSyn(g) /\ g.what.seq = 2
      BY NumLemma, ClientFrames
    <2> HIDE DEF g
    <2>7. ClientAt(2)' /\ client'.state # "arp" /\ begun
      BY <2>3, <2>4 DEF ClientAt
    <2>8. InStep(2, k)'
      <3>1. k >= 1 /\ k >= 2 /\ ~(2 = 4)
        BY <2>2 DEF Steps
      <3> QED
        BY <2>2, <2>7, <3>1 DEF InStep
    <2>9. UpOk(up, 2, k, TRUE)
      <3>1. UpOk(up, 1, k, begun) /\ 1 \in Steps /\ 2 \in Steps /\ 1 <= 2
        BY <1>3, <2>1 DEF Steps
      <3> QED
        BY <3>1, UpLater
    <2>10. UpOk(up', 2, k, TRUE)
      <3>1. 2 >= 1 /\ 2 >= 2 /\ 2 \in Steps
        BY DEF Steps
      <3> QED
        BY <2>4, <2>5, <2>9, <3>1, SendsUp
    <2>11. (client.state # "arp")' = TRUE
      BY <2>7
    <2>12. UpOk(up', 2, k, (client.state # "arp")')
      BY <2>10, <2>11
    <2>13. 2 \in Steps /\ c <= 2 /\ Rank(f) \in 1 .. 3
      BY <1>9, <2>1 DEF Steps
    <2> QED
      BY <1>6, <1>9, <2>7, <2>8, <2>12, <2>13
  <1>10. CASE Rank(f) = 3
    <2>1. f.kind = "tcp" /\ s = Fin /\ c = 2
      BY <1>4, <1>10, RankLemma
    <2>2. k >= 3
      BY <1>4, <1>10 DEF SentAt, Steps
    <2>3. /\ s.flags = {"FIN", "ACK"} /\ s.seq = Num2 /\ s.len = 0
          /\ client = [state |-> "established", rcv_nxt |-> Num2, got |-> RESP]
      BY <1>3, <2>1 DEF Fin, Segment, ClientAt
    <2> DEFINE g == Arrived("tcp", Segment({"ACK"}, 2, Num3, 0))
    <2>4. /\ client' = [state |-> "last_ack", rcv_nxt |-> Num3, got |-> RESP]
          /\ SendUp(g)
      <3>1. RESP + 0 = RESP /\ Num2 + 0 + 1 = Num2 + 1
        BY NumLemma, LoadConsts
      <3>2. (s.seq + s.len + (IF "FIN" \in s.flags THEN 1 ELSE 0)) % SEQ_MOD = Num3
        BY <2>3, <3>1 DEF Num3
      <3> QED
        BY <1>1, <2>1, <2>3, <3>1, <3>2 DEF ClientTakes, Ack
    <2>5. g \in Up /\ ~IsSyn(g) /\ g.what.seq = 2
      BY NumLemma, ClientFrames
    <2> HIDE DEF g
    <2>7. ClientAt(3)' /\ client'.state # "arp" /\ begun
      BY <2>3, <2>4 DEF ClientAt
    <2>8. InStep(3, k)'
      <3>1. k >= 1 /\ k >= 2 /\ ~(3 = 4)
        BY <2>2 DEF Steps
      <3> QED
        BY <2>2, <2>7, <3>1 DEF InStep
    <2>9. UpOk(up, 3, k, TRUE)
      <3>1. UpOk(up, 2, k, begun) /\ 2 \in Steps /\ 3 \in Steps /\ 2 <= 3
        BY <1>3, <2>1 DEF Steps
      <3> QED
        BY <3>1, UpLater
    <2>10. UpOk(up', 3, k, TRUE)
      <3>1. 3 >= 1 /\ 3 >= 2 /\ 3 \in Steps
        BY DEF Steps
      <3> QED
        BY <2>4, <2>5, <2>9, <3>1, SendsUp
    <2>11. (client.state # "arp")' = TRUE
      BY <2>7
    <2>12. UpOk(up', 3, k, (client.state # "arp")')
      BY <2>10, <2>11
    <2>13. 3 \in Steps /\ c <= 3 /\ Rank(f) \in 1 .. 3
      BY <1>10, <2>1 DEF Steps
    <2> QED
      BY <1>6, <1>10, <2>7, <2>8, <2>12, <2>13
  <1>11. CASE Rank(f) = 4
    <2>1. f.kind = "tcp" /\ s = FinalAck /\ (c = 3 \/ c = 4)
      BY <1>4, <1>11, RankLemma DEF Steps
    <2>2. s.flags = {"ACK"} /\ s.ack = 2 /\ client.state \in {"last_ack", "closed"}
      BY <1>3, <2>1 DEF FinalAck, Segment, ClientAt
    <2>3. client' = client /\ up' = up
      BY <1>1, <2>1, <2>2 DEF ClientTakes
    <2>4. ClientAt(c)' /\ InStep(c, k)' /\ UpOk(up', c, k, (client.state # "arp")')
      BY <1>3, <2>3 DEF ClientAt, InStep
    <2>5. c <= c /\ ~(Rank(f) \in 1 .. 3)
      BY <1>11 DEF Steps
    <2> QED
      BY <1>6, <2>4, <2>5
  <1>12. CASE Rank(f) = 5
    <2>1. f.kind = "tcp" /\ s \in Resets /\ (c = 3 \/ c = 4) /\ k = 4
      BY <1>4, <1>12, RankLemma DEF Steps, SentAt
    <2>2. "RST" \in s.flags
      <3>1. PICK n \in T!SeqNums : s = Segment({"RST", "ACK"}, n, 0, 0)
        BY <2>1 DEF Resets
      <3> QED
        BY <3>1 DEF Segment
    <2>3. client' = [client EXCEPT !.state = "closed"] /\ up' = up
      BY <1>1, <2>1, <2>2 DEF ClientTakes
    <2>4. client' = [state |-> "closed", rcv_nxt |-> Num3, got |-> RESP] /\ begun
      BY <1>3, <2>1, <2>3 DEF ClientAt
    <2>5. ClientAt(4)' /\ client'.state # "arp"
      BY <2>4 DEF ClientAt
    <2>6. InStep(4, k)'
      BY <2>1, <2>5 DEF InStep
    <2>7. c <= 4 /\ 4 \in Steps /\ ~(Rank(f) \in 1 .. 3) /\ 4 >= 3 /\ c >= 3
      BY <1>12, <2>1 DEF Steps
    <2>8. UpOk(up', 4, k, (client.state # "arp")')
      BY <1>3, <2>3, <2>5, <2>7, UpLater
    <2> QED
      BY <1>6, <2>5, <2>6, <2>7, <2>8
  <1> QED
    BY <1>5, <1>7, <1>8, <1>9, <1>10, <1>11, <1>12

(* A segment that the kernel takes *)
LEMMA UpSegments ==
  ASSUME NEW f \in Up, f.kind = "tcp"
  PROVE  /\ f.what.conn = Conn
         /\ \/ f.what = Segment({"SYN"}, 0, 0, 0) /\ IsSyn(f) /\ ~IsAck(f)
            \/ /\ IsAck(f) /\ ~IsSyn(f) /\ "ACK" \in f.what.flags /\ "SYN" \notin f.what.flags
               /\ f.what.ack \in T!SeqNums
               /\ \/ f.what.seq = 2
                  \/ \E n \in T!SeqNums : f.what = Segment({"ACK"}, 1, n, 0)
                  \/ \E n \in T!SeqNums : f.what = Segment({"ACK"}, 1, n, 1)
  <1> DEFINE s == f.what
  <1>1. \/ s = Segment({"SYN"}, 0, 0, 0)
        \/ \E n \in T!SeqNums : s = Segment({"ACK"}, 1, n, 0)
        \/ \E n \in T!SeqNums : s = Segment({"ACK"}, 1, n, 1)
        \/ \E n \in T!SeqNums : s = Segment({"ACK"}, 2, n, 0)
        \/ \E n \in T!SeqNums : s = Segment({"FIN", "ACK"}, 2, n, 0)
    BY DEF Up
  <1> HIDE DEF s
  <1>2. ASSUME s = Segment({"SYN"}, 0, 0, 0)
        PROVE  s.conn = Conn /\ IsSyn(f) /\ ~IsAck(f)
    BY <1>2 DEF s, Segment, IsSyn, IsAck
  <1>3. ASSUME NEW n \in T!SeqNums, s = Segment({"ACK"}, 1, n, 0)
        PROVE  /\ s.conn = Conn /\ s.ack \in T!SeqNums
               /\ s.flags = {"ACK"}
    BY <1>3 DEF Segment
  <1>4. ASSUME NEW n \in T!SeqNums, s = Segment({"ACK"}, 1, n, 1)
        PROVE  /\ s.conn = Conn /\ s.ack \in T!SeqNums
               /\ s.flags = {"ACK"}
    BY <1>4 DEF Segment
  <1>5. ASSUME NEW n \in T!SeqNums, s = Segment({"ACK"}, 2, n, 0)
        PROVE  /\ s.conn = Conn /\ s.ack \in T!SeqNums /\ s.seq = 2
               /\ s.flags = {"ACK"}
    BY <1>5 DEF Segment
  <1>6. ASSUME NEW n \in T!SeqNums, s = Segment({"FIN", "ACK"}, 2, n, 0)
        PROVE  /\ s.conn = Conn /\ s.ack \in T!SeqNums /\ s.seq = 2
               /\ s.flags = {"FIN", "ACK"}
    BY <1>6 DEF Segment
  <1>7. ASSUME s.flags = {"ACK"} \/ s.flags = {"FIN", "ACK"}
        PROVE  IsAck(f) /\ ~IsSyn(f) /\ "ACK" \in s.flags /\ "SYN" \notin s.flags
    BY <1>7 DEF s, IsAck, IsSyn
  <1>8. \/ s = Segment({"SYN"}, 0, 0, 0) /\ s.conn = Conn /\ IsSyn(f) /\ ~IsAck(f)
        \/ /\ s.conn = Conn /\ s.ack \in T!SeqNums
           /\ s.flags = {"ACK"} \/ s.flags = {"FIN", "ACK"}
           /\ \/ s.seq = 2
              \/ \E n \in T!SeqNums : s = Segment({"ACK"}, 1, n, 0)
              \/ \E n \in T!SeqNums : s = Segment({"ACK"}, 1, n, 1)
    <2>1. CASE s = Segment({"SYN"}, 0, 0, 0)
      BY <1>2, <2>1
    <2>2. CASE \E n \in T!SeqNums : s = Segment({"ACK"}, 1, n, 0)
      BY <1>3, <2>2
    <2>3. CASE \E n \in T!SeqNums : s = Segment({"ACK"}, 1, n, 1)
      BY <1>4, <2>3
    <2>4. CASE \E n \in T!SeqNums : s = Segment({"ACK"}, 2, n, 0)
      BY <1>5, <2>4
    <2>5. CASE \E n \in T!SeqNums : s = Segment({"FIN", "ACK"}, 2, n, 0)
      BY <1>6, <2>5
    <2> QED
      BY <1>1, <2>1, <2>2, <2>3, <2>4, <2>5
  <1> QED
    BY <1>7, <1>8 DEF s

(* The stage l is where the kernel is after a segment in stage k. *)
Taken(f, c, k, l) ==
  /\ k <= l /\ (l = k \/ l <= 1 \/ IsAck(f))
  /\ KernelAt(l)' /\ InStep(c, l) /\ DownOk(down', c, l)

LEMMA KernelStep ==
  ASSUME NEW c \in Steps, NEW k \in Steps, InStep(c, k), KernelAt(k), DownOk(down, c, k),
         NEW f \in Up, f.kind = "tcp", Kernel(f.what),
         IsSyn(f) => k <= 1 /\ client.state # "arp",
         IsAck(f) => c >= 1 /\ (f.what.seq = 2 => c >= 2),
         down' = down \o AsFrames(tcp_out')
  PROVE  \E l \in Steps : Taken(f, c, k, l)
  <1> DEFINE s == f.what
  <1>1. s.conn = Conn
    BY UpSegments
  <1>2. down \in Seq(Down)
    BY DEF DownOk
  <1>3. k <= k /\ down \o AsFrames(<<>>) = down
    BY <1>2, DownNothing DEF Steps
  <1>4. CASE IsSyn(f)
    <2>1. s = Segment({"SYN"}, 0, 0, 0)
      BY <1>4, UpSegments
    <2>2. CASE k = 0
      <3>1. c = 0 /\ 0 \in Steps /\ 1 \in Steps
        BY <2>2 DEF InStep, Steps
      <3>2. KernelAt(1)' /\ tcp_out' = <<SynAck>>
        BY <2>1, <2>2, KernelSyn0
      <3>3. DownOk(down', 0, 1)
        BY <2>2, <3>1, <3>2, DownSynAck
      <3>4. InStep(0, 1)
        BY <1>4 DEF InStep
      <3>5. 0 <= 1 /\ 1 <= 1
        OBVIOUS
      <3> QED
        BY <2>2, <3>1, <3>2, <3>3, <3>4, <3>5 DEF Taken
    <2>3. CASE k = 1
      <3>1. KernelAt(1)' /\ tcp_out' = <<>>
        BY <2>1, <2>3, KernelSyn1
      <3> QED
        BY <1>3, <2>3, <3>1 DEF Taken
    <2> QED
      BY <1>4, <2>2, <2>3 DEF Steps
  <1>5. CASE ~IsSyn(f)
    <2>1. /\ IsAck(f) /\ "ACK" \in s.flags /\ "SYN" \notin s.flags /\ s.ack \in T!SeqNums
          /\ \/ s.seq = 2
             \/ \E n \in T!SeqNums : s = Segment({"ACK"}, 1, n, 0)
             \/ \E n \in T!SeqNums : s = Segment({"ACK"}, 1, n, 1)
      BY <1>5, UpSegments
    <2>2. c >= 1 /\ (s.seq = 2 => c >= 2)
      BY <2>1
    <2>3. k >= 1 /\ (k <= 2 => c = 1)
      BY <2>2 DEF InStep, Steps
    <2>4. CASE k = 1
      <3>1. KernelAt(2)' /\ tcp_out' = <<>>
        BY <1>1, <2>1, <2>4, KernelAck1
      <3>2. c = 1 /\ 2 \in Steps /\ 1 \in Steps /\ 1 <= 2
        BY <2>3, <2>4 DEF Steps
      <3>3. \A r \in 1 .. 3 : SentAt(r, 2) => SentAt(r, 1)
        BY DEF SentAt
      <3>4. DownOk(down', c, 2)
        BY <1>3, <2>4, <3>1, <3>2, <3>3, DownSame
      <3>5. InStep(c, 2)
        BY <2>2, <2>4, <3>2 DEF InStep
      <3> QED
        BY <2>1, <2>4, <3>1, <3>2, <3>4, <3>5 DEF Taken
    <2>5. CASE k = 2
      <3>1. c = 1 /\ ~(c >= 2) /\ 3 \in Steps /\ 2 <= 3
        BY <2>3, <2>5 DEF Steps
      <3>2. \/ \E n \in T!SeqNums : s = Segment({"ACK"}, 1, n, 0)
            \/ \E n \in T!SeqNums : s = Segment({"ACK"}, 1, n, 1)
        BY <2>1, <2>2, <3>1
      <3>3. ASSUME NEW n \in T!SeqNums, s = Segment({"ACK"}, 1, n, 0)
            PROVE  Taken(f, c, k, 2)
        <4>1. KernelAt(2)' /\ tcp_out' = <<>>
          BY <2>5, <3>3, KernelEmpty2
        <4> QED
          BY <1>3, <2>5, <4>1 DEF Taken
      <3>4. ASSUME NEW n \in T!SeqNums, s = Segment({"ACK"}, 1, n, 1)
            PROVE  Taken(f, c, k, 3)
        <4>1. KernelAt(3)' /\ tcp_out' = <<Response, Fin, FinalAck>>
          BY <2>5, <3>4, KernelRequest2
        <4>2. DownOk(down', 1, 3)
          BY <2>5, <3>1, <4>1, DownAnswer
        <4>3. InStep(1, 3)
          BY <2>5, <3>1 DEF InStep
        <4> QED
          BY <2>1, <2>5, <3>1, <4>1, <4>2, <4>3 DEF Taken
      <3> QED
        BY <2>5, <3>1, <3>2, <3>3, <3>4
    <2>6. CASE k = 3
      <3>1. KernelAt(4)' /\ tcp_out' = <<>>
        BY <1>1, <2>1, <2>6, KernelAck3
      <3>2. 4 \in Steps /\ 3 <= 4 /\ (c >= 2 => 4 >= 3)
        BY DEF Steps
      <3>3. \A r \in 1 .. 3 : SentAt(r, 4) => SentAt(r, 3)
        BY DEF SentAt
      <3>4. DownOk(down', c, 4)
        BY <1>3, <2>6, <3>1, <3>2, <3>3, DownSame
      <3>5. InStep(c, 4)
        BY <2>2, <2>6, <3>2 DEF InStep
      <3> QED
        BY <2>1, <2>6, <3>1, <3>2, <3>4, <3>5 DEF Taken
    <2>7. CASE k = 4
      <3> DEFINE r == Segment({"RST", "ACK"}, s.ack, 0, 0)
      <3>1. KernelAt(4)' /\ tcp_out' = <<r>> /\ r \in Resets
        BY <1>1, <2>1, <2>7, KernelReset4
      <3> HIDE DEF r
      <3>2. AsFrames(<<r>>) = <<Arrived("tcp", r)>>
        BY DEF AsFrames
      <3>3. Arrived("tcp", r) \in Down /\ Rank(Arrived("tcp", r)) = 5
        BY <3>1, SentRanks
      <3>4. DownOk(down', c, 4)
        BY <2>7, <3>1, <3>2, <3>3, DownOne
      <3> QED
        BY <1>3, <2>7, <3>1, <3>4 DEF Taken
    <2> QED
      BY <2>3, <2>4, <2>5, <2>6, <2>7 DEF Steps
  <1> QED
    BY <1>4, <1>5

LEMMA KernelTakesLoad ==
  ASSUME NEW c \in Steps, NEW k \in Steps, Load(c, k), KernelTakes
  PROVE  \E l \in Steps : Load(c, l)'
  <1> DEFINE f == Head(up)
             begun == client.state # "arp"
  <1>1. up # <<>> /\ up' = Tail(up) /\ client' = client
    BY DEF KernelTakes
  <1>2. ClientAt(c) /\ KernelAt(k) /\ InStep(c, k) /\ UpOk(up, c, k, begun) /\ DownOk(down, c, k)
    BY DEF Load, UpInv, DownInv
  <1>3. /\ f \in Up
        /\ IsSyn(f) => k <= 1 /\ begun
        /\ IsAck(f) => c >= 1 /\ (f.what.seq = 2 => c >= 2)
        /\ UpOk(up', c, k, begun)
        /\ IsAck(f) => \A l \in Steps : UpOk(up', c, l, begun)
    BY <1>1, <1>2, UpTail
  <1>4. ClientAt(c)' /\ (\A l \in Steps : InStep(c, l) => InStep(c, l)')
        /\ \A l \in Steps : UpOk(up', c, l, begun) => UpInv(c, l)'
    BY <1>1, <1>2 DEF ClientAt, InStep, UpInv
  <1>5. CASE /\ f.kind = "arp"
             /\ HandlesArp(f.what)
             /\ down' = IF out' # {} THEN Append(down, Arrived("arp", "reply")) ELSE down
    <2>1. KernelAt(k)'
      BY <1>2, <1>5 DEF HandlesArp, tcp_vars, KernelAt
    <2>2. DownOk(down', c, k)
      <3>1. down \in Seq(Down) /\ Arrived("arp", "reply") \in Down
        BY <1>2, SentRanks DEF DownOk
      <3>2. Append(down, Arrived("arp", "reply")) = down \o <<Arrived("arp", "reply")>>
        BY <3>1, AppendIsConcat
      <3>3. DownOk(down \o <<Arrived("arp", "reply")>>, c, k)
        BY <1>2, SentRanks, DownOne
      <3> QED
        BY <1>2, <1>5, <3>2, <3>3
    <2> QED
      BY <1>2, <1>3, <1>4, <2>1, <2>2 DEF Load, DownInv
  <1>6. CASE /\ f.kind = "tcp"
             /\ T!tcp_input_process(f.what)
             /\ down' = down \o [n \in DOMAIN tcp_out' |-> Arrived("tcp", tcp_out'[n])]
    <2>1. down' = down \o AsFrames(tcp_out') /\ Kernel(f.what)
      BY <1>6 DEF AsFrames, Kernel
    <2> HIDE DEF f
    <2>2. PICK l \in Steps : Taken(f, c, k, l)
      BY <1>2, <1>3, <1>6, <2>1, KernelStep
    <2>3. UpOk(up', c, l, begun)
      <3>1. CASE l = k
        BY <1>3, <3>1
      <3>2. CASE l <= 1
        BY <1>3, <3>2 DEF UpOk
      <3>3. CASE IsAck(f)
        BY <1>3, <3>3
      <3> QED
        BY <2>2, <3>1, <3>2, <3>3 DEF Taken
    <2>4. KernelAt(l)' /\ InStep(c, l)' /\ DownOk(down', c, l)
      BY <1>4, <2>2 DEF Taken
    <2> QED
      BY <1>4, <2>3, <2>4 DEF Load, DownInv
  <1> QED
    BY <1>5, <1>6 DEF KernelTakes

LEMMA LoadStart == PLInit => LoadInv
  <1> SUFFICES ASSUME PLInit PROVE LoadInv
    OBVIOUS
  <1>1. client = [state |-> "arp", rcv_nxt |-> 0, got |-> 0] /\ up = <<>> /\ down = <<>>
    BY DEF PLInit
  <1>2. tcp_tcb_list = <<>> /\ opened = 0 /\ tcp_global_isn = FirstIsn
    BY DEF PLInit, T!Init
  <1>3. ClientAt(0)
    BY <1>1 DEF ClientAt
  <1>4. KernelAt(0)
    BY <1>2 DEF KernelAt
  <1>5. InStep(0, 0)
    BY DEF InStep
  <1>6. UpInv(0, 0)
    BY <1>1, EmptySeq DEF UpInv, UpOk
  <1>7. DownInv(0, 0)
    <2>1. \A r \in 1 .. 3 : ~SentAt(r, 0)
      BY DEF SentAt
    <2> QED
      BY <1>1, <2>1, EmptySeq DEF DownInv, DownOk
  <1> QED
    BY <1>3, <1>4, <1>5, <1>6, <1>7 DEF Load, LoadInv

LEMMA LoadStep == LoadInv /\ [PLNext]_pl_vars => LoadInv'
  <1> SUFFICES ASSUME LoadInv, [PLNext]_pl_vars PROVE LoadInv'
    OBVIOUS
  <1>1. PICK c \in Steps, k \in Steps : Load(c, k)
    BY DEF LoadInv, Steps
  <1>2. SUFFICES \E d \in Steps, l \in Steps : Load(d, l)'
    BY DEF LoadInv, Steps
  <1>3. CASE ClientSends
    BY <1>1, <1>3, ClientSendsLoad
  <1>4. CASE ClientReceives
    BY <1>1, <1>4, ClientReceivesLoad
  <1>5. CASE KernelTakes
    BY <1>1, <1>5, KernelTakesLoad
  <1>6. CASE FrameLost \/ KernelDrops
    <2>1. /\ UNCHANGED <<tcp_tcb_list, tcp_global_isn, opened, client, down>>
          /\ up # <<>> /\ up' = Tail(up)
      BY <1>6 DEF FrameLost, KernelDrops, tcp_vars
    <2>2. UpOk(Tail(up), c, k, client.state # "arp")
      BY <1>1, <2>1, UpTail DEF Load, UpInv
    <2>3. Load(c, k)'
      BY <1>1, <2>1, <2>2 DEF Load, ClientAt, KernelAt, InStep, UpInv, DownInv
    <2> QED
      BY <2>3
  <1>7. CASE UNCHANGED <<tcp_tcb_list, tcp_global_isn, opened, client, up, down>>
    BY <1>1, <1>7 DEF Load, ClientAt, KernelAt, InStep, UpInv, DownInv
  <1>8. NeighbourSpeaks \/ Housekeeping \/ UNCHANGED pl_vars
          => UNCHANGED <<tcp_tcb_list, tcp_global_isn, opened, client, up, down>>
    BY DEF NeighbourSpeaks, HandlesArp, Housekeeping, T!health_update_tcp_stats, T!net_tx_reaper,
           pl_vars, tcp_vars
  <1> QED
    BY <1>3, <1>4, <1>5, <1>6, <1>7, <1>8 DEF PLNext, KernelReceives

LEMMA LoadInvariant == PLSpec => []LoadInv
  BY LoadStart, LoadStep, PTL DEF PLSpec

(* Whatever is lost on the way to the kernel and whatever is repeated, a   *)
(* client that has seen the end has the response, all of it and once.      *)
THEOREM ResponseIsWhole == PLSpec => []WholeResponse
  <1>1. LoadInv => WholeResponse
    <2> SUFFICES ASSUME NEW c \in Steps, NEW k \in Steps, Load(c, k) PROVE WholeResponse
      BY DEF LoadInv, Steps
    <2>1. opened <= 1
      BY DEF Load, KernelAt, Steps
    <2>2. c = 0 \/ c = 1 \/ c = 2 \/ c = 3 \/ c = 4
      BY DEF Steps
    <2> QED
      BY <2>1, <2>2 DEF Load, ClientAt, WholeResponse
  <1> QED
    BY <1>1, LoadInvariant, PTL

(* The reset that closes the client is sent only after the TCB is gone,    *)
(* and nothing the client sent before it makes another.                    *)
THEOREM ClosedLeavesNoTcb == PLSpec => []NoTcbLeft
  <1>1. LoadInv => NoTcbLeft
    <2> SUFFICES ASSUME NEW c \in Steps, NEW k \in Steps, Load(c, k), client.state = "closed"
                 PROVE  tcp_tcb_list = <<>>
      BY DEF LoadInv, NoTcbLeft, Steps
    <2>1. c = 0 \/ c = 1 \/ c = 2 \/ c = 3 \/ c = 4
      BY DEF Steps
    <2>2. c = 4
      BY <2>1 DEF Load, ClientAt
    <2> QED
      BY <2>2 DEF Load, InStep, KernelAt
  <1> QED
    BY <1>1, LoadInvariant, PTL

-----------------------------------------------------------------------------
(* What the page load does to the ARP cache is what module Arp does. *)
LEMMA WhoHasPacket == WhoHas \in Packets
  BY ArpAssumption, PageLoadAssumption DEF WhoHas, Packets

LEMMA ArpStep == LoadInv /\ [PLNext]_pl_vars => [Next]_vars
  <1> SUFFICES ASSUME LoadInv, PLNext PROVE [Next]_vars
    BY DEF pl_vars, vars
  <1>1. ASSUME NEW p \in Packets, HandlesArp(p)
        PROVE  Next
    BY <1>1 DEF HandlesArp, Next
  <1>2. CASE KernelTakes
    <2>1. PICK c \in Steps, k \in Steps : Load(c, k)
      BY DEF LoadInv, Steps
    <2>2. Head(up) \in Up
      <3>1. UpOk(up, c, k, client.state # "arp") /\ up # <<>>
        BY <1>2, <2>1 DEF Load, UpInv, KernelTakes
      <3> QED
        BY <3>1, UpTail
    <2>3. Head(up).kind = "arp" => Head(up).what = WhoHas
      BY <2>2 DEF Up
    <2> QED
      BY <1>1, <1>2, <2>3, WhoHasPacket DEF KernelTakes
  <1>3. CASE NeighbourSpeaks
    BY <1>1, <1>3, PageLoadAssumption DEF NeighbourSpeaks
  <1>4. CASE ClientSends \/ ClientReceives \/ KernelDrops \/ FrameLost \/ Housekeeping
    BY <1>4 DEF ClientSends, ClientReceives, KernelDrops, FrameLost, Housekeeping
  <1> QED
    BY <1>2, <1>3, <1>4 DEF PLNext, KernelReceives

(* A page load is a behaviour of module Arp: what is shown of it there     *)
(* holds here.                                                             *)
THEOREM LoadIsArp == PLSpec => Spec
  <1>1. PLInit => Init
    BY DEF PLInit
  <1> QED
    BY <1>1, ArpStep, LoadInvariant, PTL DEF PLSpec, Spec

(* The client's entry and the neighbours' are current all through a page   *)
(* load.                                                                   *)
THEOREM LoadCacheIsCurrent == PLSpec => []CacheCurrent
  BY LoadIsArp, CacheIsCurrent, PTL

(* Nor does a page load lose an entry that there was room for. *)
THEOREM LoadEveryoneCached == PLSpec => []SendersCached
  BY LoadIsArp, EveryoneCached, PTL

(* And what it does to the connection is what module Tcp does. *)
LEMMA UpAreSegments ==
  ASSUME NEW f \in Up, f.kind = "tcp"
  PROVE  f.what \in ClientSegments
  <1>1. \A n \in T!SeqNums : n \in 0 .. (SEQ_MOD - 1)
    BY DEF T!SeqNums
  <1>2. 0 \in 0 .. (SEQ_MOD - 1)
    BY LoadConsts
  <1>3. ASSUME NEW flags \in {{"SYN"}, {"ACK"}, {"FIN", "ACK"}}, NEW seq \in 0 .. 2,
               NEW n \in 0 .. (SEQ_MOD - 1), NEW len \in 0 .. 1
        PROVE  Segment(flags, seq, n, len) \in ClientSegments
    BY DEF Segment, ClientSegments
  <1>4. \/ f.what = Segment({"SYN"}, 0, 0, 0)
        \/ \E n \in T!SeqNums : f.what = Segment({"ACK"}, 1, n, 0)
        \/ \E n \in T!SeqNums : f.what = Segment({"ACK"}, 1, n, 1)
        \/ \E n \in T!SeqNums : f.what = Segment({"ACK"}, 2, n, 0)
        \/ \E n \in T!SeqNums : f.what = Segment({"FIN", "ACK"}, 2, n, 0)
    BY DEF Up
  <1>5. 0 \in 0 .. 2 /\ 1 \in 0 .. 2 /\ 2 \in 0 .. 2 /\ 0 \in 0 .. 1 /\ 1 \in 0 .. 1
    OBVIOUS
  <1> QED
    BY <1>1, <1>2, <1>3, <1>4, <1>5

(* The assumptions of module Tcp hold of the constants it is given here.   *)
LEMMA TcpAssumptionsHold == T!TcpAssumption /\ T!SegmentAssumption
  <1>1. T!TcpAssumption
    BY PageLoadAssumption DEF T!TcpAssumption
  <1>2. ClientSegments \subseteq [conn : {Conn}, flags : SUBSET T!Flag, seq : 0 .. (SEQ_MOD - 1),
                                  ack : 0 .. (SEQ_MOD - 1), len : Nat]
    <2>1. 0 .. 2 \subseteq 0 .. (SEQ_MOD - 1) /\ 0 .. 1 \subseteq Nat
      BY LoadConsts
    <2>2. {{"SYN"}, {"ACK"}, {"FIN", "ACK"}} \subseteq SUBSET T!Flag
      BY DEF T!Flag
    <2> QED
      BY <2>1, <2>2 DEF ClientSegments
  <1> QED
    BY <1>1, <1>2 DEF T!SegmentAssumption

LEMMA TcpStep == LoadInv /\ [PLNext]_pl_vars => [T!Next]_(T!vars)
  <1> SUFFICES ASSUME LoadInv, PLNext PROVE T!Next \/ UNCHANGED tcp_vars
    BY DEF pl_vars, tcp_vars, T!vars
  <1>1. CASE KernelTakes
    <2>1. PICK c \in Steps, k \in Steps : Load(c, k)
      BY DEF LoadInv, Steps
    <2>2. Head(up) \in Up
      <3>1. UpOk(up, c, k, client.state # "arp") /\ up # <<>>
        BY <1>1, <2>1 DEF Load, UpInv, KernelTakes
      <3> QED
        BY <3>1, UpTail
    <2>3. Head(up).kind = "tcp" => Head(up).what \in ClientSegments
      BY <2>2, UpAreSegments
    <2> QED
      BY <1>1, <2>3 DEF KernelTakes, HandlesArp, T!Next
  <1>2. CASE Housekeeping
    BY <1>2 DEF Housekeeping, T!Next
  <1>3. CASE ClientSends \/ ClientReceives \/ KernelDrops \/ FrameLost \/ NeighbourSpeaks
    BY <1>3 DEF ClientSends, ClientReceives, KernelDrops, FrameLost, NeighbourSpeaks, HandlesArp
  <1> QED
    BY <1>1, <1>2, <1>3 DEF PLNext, KernelReceives

(* A page load is a behaviour of module Tcp, with the segments of this     *)
(* client, whatever the link loses: what is shown of the server there      *)
(* holds here.                                                             *)
THEOREM LoadIsTcp == PLSpec => T!Spec
  <1>1. PLInit => T!Init
    BY DEF PLInit
  <1> QED
    BY <1>1, TcpStep, LoadInvariant, PTL DEF PLSpec, T!Spec

=============================================================================
