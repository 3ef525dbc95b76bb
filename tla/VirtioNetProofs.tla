-------------------------- MODULE VirtioNetProofs ---------------------------
(***************************************************************************)
(* Proofs about module VirtioNet, for queues of every size, every width of *)
(* the ring indices that the sizes divide, and every set of buffers.       *)
(*                                                                         *)
(* The proof has three layers.  Window is a stretch of a ring between two  *)
(* wrapping indices; the entries published and the receipts written are    *)
(* windows, and the operations write behind one, make it longer or shorter *)
(* (lemmas Window...).  Places says of sequences and sets of descriptors   *)
(* what DescInOnePlace says of the rings; the five moves of VirtQueueSpec  *)
(* keep it (lemmas Move...).  A queue's operation does one move and the    *)
(* corresponding change of the free list (lemmas Queue...).                *)
(*                                                                         *)
(* The invariant of the transmit queue (TxInv) is proved of Spec with no   *)
(* further assumption.  That of the receive queue (RxInv) and the ranges   *)
(* of the driver's variables (Shape) need the device to see what the       *)
(* prefill wrote in the order it was written, hypothesis PrefillOrdered:   *)
(* the code has no barrier there.                                          *)
(***************************************************************************)
EXTENDS VirtioNet, NumberLemmas, FiniteSetTheorems, SequenceTheorems, TLAPS

IdxVals == 0 .. (IdxMod - 1)

(* What queues of this size are made of: QueueType, as a set *)
Rings(size, Addrs) ==
  [size : {size},
   addr : [0 .. (size - 1) -> Addrs \cup {NULL}],
   next : [0 .. (size - 1) -> 0 .. (size - 1) \cup {NoDesc}],
   free_head : 0 .. (size - 1) \cup {NoDesc},
   num_free : 0 .. size,
   avail_ring : [0 .. (size - 1) -> 0 .. (size - 1) \cup {NoDesc}],
   avail_idx : IdxVals,
   used_ring : [0 .. (size - 1) -> [id : 0 .. (size - 1), len : Lens]],
   used_idx : IdxVals,
   last_used_idx : IdxVals]

Out(avail, held, used, filled) == filled \cup SeqElems(avail) \cup held \cup SeqElems(used)

(* Every descriptor that is out is in one place. *)
Places(avail, held, used, filled, D) ==
  /\ avail \in Seq(D) /\ used \in Seq(D) /\ held \subseteq D /\ filled \subseteq D
  /\ OnePlace(avail, held, used, filled)

(* The others are on the free list. *)
Chained(q, chain, out) ==
  IsFreeChain(q, chain) /\ SeqElems(chain) = Descs(q) \ out

-----------------------------------------------------------------------------
(* Indices that wrap, and slots *)
RingSize(size) == size \in Nat \ {0} /\ size < IdxMod /\ IdxMod % size = 0

(* How many entries there are between two indices, and the slot of the n-th *)
Count(lo, hi) == (hi - lo) % IdxMod
Slot(lo, n, size) == ((lo + n - 1) % IdxMod) % size
Window(f, lo, hi, size) == [n \in 1 .. Count(lo, hi) |-> f[Slot(lo, n, size)]]

(* w holds the c entries of f from lo on. *)
Holds(w, f, lo, c, size, S) ==
  w \in Seq(S) /\ Len(w) = c /\ \A n \in 1 .. c : w[n] = f[Slot(lo, n, size)]

LEMMA ConstLemma ==
  /\ IdxMod \in Nat \ {0} /\ IdxMod > 1
  /\ RingSize(RxSize) /\ RingSize(TxSize)
  /\ MaxReplies \in Nat
  BY IdxAssumption, NetAssumption DEF RingSize

LEMMA WrapLemma ==
  ASSUME NEW a \in Int, -IdxMod <= a, a < IdxMod + IdxMod
  PROVE  a % IdxMod = IF a < 0 THEN a + IdxMod ELSE IF a < IdxMod THEN a ELSE a - IdxMod
  <1>1. IdxMod \in Nat \ {0} /\ IdxMod * (-1) = -IdxMod /\ IdxMod * 0 = 0 /\ IdxMod * 1 = IdxMod
    BY ConstLemma
  <1>2. CASE a < 0
    <2>1. a + IdxMod \in 0 .. IdxMod - 1 /\ a = IdxMod * (-1) + (a + IdxMod) /\ -1 \in Int
      BY <1>1, <1>2
    <2> QED
      BY <1>1, <1>2, <2>1, IntDivModUnique
  <1>3. CASE 0 <= a /\ a < IdxMod
    BY <1>1, <1>3, ModSmall
  <1>4. CASE IdxMod <= a
    <2>1. a - IdxMod \in 0 .. IdxMod - 1 /\ a = IdxMod * 1 + (a - IdxMod) /\ 1 \in Int
      BY <1>1, <1>4
    <2>2. ~ (a < 0) /\ ~ (a < IdxMod)
      BY <1>1, <1>4
    <2> QED
      BY <1>1, <2>1, <2>2, IntDivModUnique
  <1> QED
    BY <1>1, <1>2, <1>3, <1>4

LEMMA CountLemma ==
  ASSUME NEW lo \in IdxVals, NEW hi \in IdxVals
  PROVE  /\ Count(lo, hi) \in IdxVals
         /\ Count(lo, hi) \in Nat
         /\ (lo + Count(lo, hi)) % IdxMod = hi
         /\ Count(lo, hi) = 0 <=> lo = hi
         /\ (hi + 1) % IdxMod \in IdxVals
         /\ Count(lo, hi) + 1 < IdxMod => Count(lo, (hi + 1) % IdxMod) = Count(lo, hi) + 1
         /\ Count(lo, hi) > 0 => Count((lo + 1) % IdxMod, hi) = Count(lo, hi) - 1
  <1>1. IdxMod \in Nat /\ IdxMod > 1 /\ lo \in Int /\ hi \in Int
        /\ 0 <= lo /\ lo < IdxMod /\ 0 <= hi /\ hi < IdxMod
    BY ConstLemma DEF IdxVals
  <1> DEFINE c == Count(lo, hi)
             up == (hi + 1) % IdxMod
             lp == (lo + 1) % IdxMod
  <1>2. c = IF hi < lo THEN hi - lo + IdxMod ELSE hi - lo
    <2>1. hi - lo \in Int /\ -IdxMod <= hi - lo /\ hi - lo < IdxMod + IdxMod /\ hi - lo < IdxMod
      BY <1>1
    <2>2. c = IF hi - lo < 0 THEN hi - lo + IdxMod
              ELSE IF hi - lo < IdxMod THEN hi - lo ELSE hi - lo - IdxMod
      BY <2>1, WrapLemma DEF Count
    <2> QED
      BY <1>1, <2>1, <2>2
  <1>3. up = IF hi = IdxMod - 1 THEN 0 ELSE hi + 1
    <2>1. hi + 1 \in Int /\ -IdxMod <= hi + 1 /\ hi + 1 < IdxMod + IdxMod
      BY <1>1
    <2>2. up = IF hi + 1 < 0 THEN hi + 1 + IdxMod
               ELSE IF hi + 1 < IdxMod THEN hi + 1 ELSE hi + 1 - IdxMod
      BY <1>1, <2>1, WrapLemma
    <2> QED
      BY <1>1, <2>1, <2>2
  <1>4. lp = IF lo = IdxMod - 1 THEN 0 ELSE lo + 1
    <2>1. lo + 1 \in Int /\ -IdxMod <= lo + 1 /\ lo + 1 < IdxMod + IdxMod
      BY <1>1
    <2>2. lp = IF lo + 1 < 0 THEN lo + 1 + IdxMod
               ELSE IF lo + 1 < IdxMod THEN lo + 1 ELSE lo + 1 - IdxMod
      BY <1>1, <2>1, WrapLemma
    <2> QED
      BY <1>1, <2>1, <2>2
  <1> HIDE DEF c, up, lp
  <1>5. c \in Int /\ 0 <= c /\ c < IdxMod /\ (c = 0 <=> lo = hi)
    BY <1>1, <1>2
  <1>6. (lo + c) % IdxMod = hi
    <2>1. lo + c \in Int /\ -IdxMod <= lo + c /\ lo + c < IdxMod + IdxMod
      BY <1>1, <1>5
    <2>2. (lo + c) % IdxMod = IF lo + c < 0 THEN lo + c + IdxMod
                              ELSE IF lo + c < IdxMod THEN lo + c ELSE lo + c - IdxMod
      BY <1>1, <1>5, <2>1, WrapLemma, SMTT(30)
    <2> QED
      BY <1>1, <1>2, <2>1, <2>2
  <1>7. up \in Int /\ 0 <= up /\ up < IdxMod
    BY <1>1, <1>3
  <1>8. ASSUME c + 1 < IdxMod PROVE Count(lo, up) = c + 1
    <2>1. up - lo \in Int /\ -IdxMod <= up - lo /\ up - lo < IdxMod + IdxMod
      BY <1>1, <1>7
    <2>2. (up - lo) % IdxMod = IF up - lo < 0 THEN up - lo + IdxMod
                               ELSE IF up - lo < IdxMod THEN up - lo ELSE up - lo - IdxMod
      BY <1>1, <2>1, WrapLemma
    <2> QED
      BY <1>1, <1>2, <1>3, <1>8, <2>2 DEF Count
  <1>9. ASSUME c > 0 PROVE Count(lp, hi) = c - 1
    <2>1. hi - lp \in Int /\ -IdxMod <= hi - lp /\ hi - lp < IdxMod + IdxMod
      BY <1>1, <1>4
    <2>2. (hi - lp) % IdxMod = IF hi - lp < 0 THEN hi - lp + IdxMod
                               ELSE IF hi - lp < IdxMod THEN hi - lp ELSE hi - lp - IdxMod
      BY <1>1, <2>1, WrapLemma
    <2> QED
      BY <1>1, <1>2, <1>4, <1>9, <2>2 DEF Count
  <1> QED
    BY <1>1, <1>5, <1>6, <1>7, <1>8, <1>9 DEF c, up, lp, IdxVals

LEMMA SlotLemma ==
  ASSUME NEW size, RingSize(size), NEW lo \in IdxVals, NEW n \in Nat
  PROVE  /\ Slot(lo, n, size) \in 0 .. size - 1
         /\ Slot(lo, n, size) = (lo + n - 1) % size
         /\ Slot((lo + 1) % IdxMod, n, size) = Slot(lo, n + 1, size)
         /\ Slot(lo, 1, size) = lo % size
         /\ lo % size \in 0 .. size - 1
         /\ \A hi \in IdxVals : Slot(lo, Count(lo, hi) + 1, size) = hi % size
  <1>1. IdxMod \in Nat \ {0} /\ size \in Nat \ {0} /\ IdxMod % size = 0 /\ lo \in Int
        /\ lo \in 0 .. IdxMod - 1
    BY ConstLemma DEF RingSize, IdxVals
  <1> DEFINE a == lo + n - 1
  <1>2. a \in Int
    BY <1>1
  <1>3. (a % IdxMod) % size = a % size
    BY <1>1, <1>2, ModOfMod
  <1>4. a % size \in 0 .. size - 1 /\ lo % size \in 0 .. size - 1
    BY <1>1, <1>2, IntDivModType
  <1>5. Slot((lo + 1) % IdxMod, n, size) = Slot(lo, n + 1, size)
    <2> DEFINE p == (lo + 1) % IdxMod
    <2>1. lo + 1 \in Int /\ n - 1 \in Int /\ (lo + 1) + (n - 1) = lo + (n + 1) - 1
      BY <1>1
    <2>2. (((lo + 1) % IdxMod) + (n - 1)) % IdxMod = ((lo + 1) + (n - 1)) % IdxMod
      BY <1>1, <2>1, ModAdd
    <2>3. p \in Int
      BY <1>1, <2>1, IntDivModType
    <2>4. p + n - 1 = p + (n - 1)
      BY <2>3
    <2> QED
      BY <2>1, <2>2, <2>4 DEF Slot
  <1>6. Slot(lo, 1, size) = lo % size
    <2>1. lo + 1 - 1 = lo /\ lo % IdxMod = lo
      BY <1>1, ModSmall
    <2> QED
      BY <2>1 DEF Slot
  <1>7. ASSUME NEW hi \in IdxVals PROVE Slot(lo, Count(lo, hi) + 1, size) = hi % size
    <2>1. Count(lo, hi) \in Nat /\ (lo + Count(lo, hi)) % IdxMod = hi
      BY CountLemma
    <2>2. lo + (Count(lo, hi) + 1) - 1 = lo + Count(lo, hi)
      BY <1>1, <2>1
    <2> QED
      BY <2>1, <2>2 DEF Slot
  <1> QED
    BY <1>3, <1>4, <1>5, <1>6, <1>7 DEF Slot

(* Entries less than a ring apart are in different slots. *)
LEMMA SlotDistinct ==
  ASSUME NEW size, RingSize(size), NEW lo \in IdxVals, NEW m \in Nat, NEW n \in Nat,
         m < n, n - m < size
  PROVE  Slot(lo, m, size) # Slot(lo, n, size)
  <1> DEFINE a == lo + m - 1
             d == n - m
  <1>1. size \in Nat \ {0} /\ a \in Int /\ d \in Int /\ -size < d /\ d < size /\ d # 0
        /\ lo + n - 1 = a + d
    BY DEF RingSize, IdxVals
  <1>2. Slot(lo, m, size) = a % size /\ Slot(lo, n, size) = (a + d) % size
    BY <1>1, SlotLemma
  <1> HIDE DEF a, d
  <1>3. (a + d) % size # a % size
    BY <1>1, ModDistinct
  <1> QED
    BY <1>2, <1>3

-----------------------------------------------------------------------------
(* Windows of a ring f of entries in S *)
LEMMA WindowType ==
  ASSUME NEW size, RingSize(size), NEW S, NEW f \in [0 .. (size - 1) -> S],
         NEW lo \in IdxVals, NEW hi \in IdxVals
  PROVE  /\ Holds(Window(f, lo, hi, size), f, lo, Count(lo, hi), size, S)
         /\ Window(f, lo, hi, size) # << >> <=> lo # hi
  <1>1. Count(lo, hi) \in Nat /\ (Count(lo, hi) = 0 <=> lo = hi)
    BY CountLemma
  <1> DEFINE c == Count(lo, hi)
             e(n) == f[Slot(lo, n, size)]
             w == [n \in 1 .. c |-> e(n)]
  <1>2. \A n \in 1 .. c : e(n) \in S
    BY <1>1, SlotLemma
  <1>3. c \in Nat
    BY <1>1
  <1> HIDE DEF c, e
  <1>4. w \in Seq(S)
    BY <1>2, <1>3, IsASeq
  <1>5. DOMAIN w = 1 .. c
    OBVIOUS
  <1>6. Len(w) = c
    <2> HIDE DEF w
    <2>1. Len(w) \in Nat /\ DOMAIN w = 1 .. Len(w)
      BY <1>4
    <2> QED
      BY <1>3, <1>5, <2>1
  <1>7. \A n \in 1 .. c : w[n] = e(n)
    OBVIOUS
  <1>8. w = Window(f, lo, hi, size)
    BY DEF Window, c, e
  <1> HIDE DEF w
  <1>9. w # << >> <=> c # 0
    BY <1>4, <1>6, EmptySeq
  <1> QED
    BY <1>1, <1>4, <1>6, <1>7, <1>8, <1>9 DEF c, e, Holds

Written(g, f, x, v) == g = [f EXCEPT ![x] = v]

(* A write behind the last entry is not seen through the window. *)
LEMMA WindowWrite ==
  ASSUME NEW size, RingSize(size), NEW f, DOMAIN f = 0 .. (size - 1), NEW v,
         NEW lo \in IdxVals, NEW hi \in IdxVals, Count(lo, hi) < size,
         NEW g, Written(g, f, hi % size, v)
  PROVE  /\ Window(g, lo, hi, size) = Window(f, lo, hi, size)
         /\ g[hi % size] = v
  <1>1. Count(lo, hi) \in Nat
    BY CountLemma
  <1>2. Slot(lo, Count(lo, hi) + 1, size) = hi % size /\ hi % size \in 0 .. size - 1
    BY <1>1, SlotLemma
  <1>3. ASSUME NEW n \in 1 .. Count(lo, hi) PROVE g[Slot(lo, n, size)] = f[Slot(lo, n, size)]
    <2>1. n \in Nat /\ Count(lo, hi) + 1 \in Nat /\ n < Count(lo, hi) + 1
          /\ (Count(lo, hi) + 1) - n < size
      BY <1>1 DEF RingSize
    <2>2. Slot(lo, n, size) # hi % size
      BY <1>2, <2>1, SlotDistinct
    <2>3. Slot(lo, n, size) \in 0 .. size - 1
      BY <2>1, SlotLemma
    <2> QED
      BY <2>2, <2>3 DEF Written
  <1>4. Window(g, lo, hi, size) = Window(f, lo, hi, size)
    BY <1>3 DEF Window
  <1> QED
    BY <1>2, <1>4 DEF Written

(* The index moves past it: the window has it as its last entry. *)
LEMMA WindowGrow ==
  ASSUME NEW size, RingSize(size), NEW S, NEW f \in [0 .. (size - 1) -> S],
         NEW lo \in IdxVals, NEW hi \in IdxVals, Count(lo, hi) < size
  PROVE  Window(f, lo, (hi + 1) % IdxMod, size) = Append(Window(f, lo, hi, size), f[hi % size])
  <1> DEFINE c == Count(lo, hi)
             up == (hi + 1) % IdxMod
             w == Window(f, lo, hi, size)
             x == f[hi % size]
             v == Window(f, lo, up, size)
  <1>1. c \in Nat /\ up \in IdxVals /\ Count(lo, up) = c + 1
    <2>1. Count(lo, hi) + 1 < IdxMod
      BY CountLemma, ConstLemma DEF RingSize
    <2> QED
      BY <2>1, CountLemma
  <1>2. Holds(w, f, lo, c, size, S)
    BY WindowType
  <1> HIDE DEF up, w, c, v
  <1>3. Holds(v, f, lo, c + 1, size, S)
    <2>1. Holds(v, f, lo, Count(lo, up), size, S)
      BY <1>1, WindowType DEF v
    <2> QED
      BY <1>1, <2>1
  <1>4. x \in S /\ Slot(lo, c + 1, size) = hi % size
    BY SlotLemma, <1>1 DEF c
  <1> HIDE DEF x
  <1>5. Append(w, x) \in Seq(S) /\ Len(Append(w, x)) = c + 1 /\ Append(w, x)[c + 1] = x
        /\ \A n \in 1 .. c : Append(w, x)[n] = w[n]
    BY <1>1, <1>2, <1>4 DEF Holds
  <1>6. \A n \in 1 .. c + 1 : v[n] = Append(w, x)[n]
    <2> TAKE n \in 1 .. c + 1
    <2>1. CASE n = c + 1
      BY <1>3, <1>4, <1>5, <2>1 DEF x, Holds
    <2>2. CASE n \in 1 .. c
      BY <1>2, <1>3, <1>5, <2>2 DEF Holds
    <2>3. n = c + 1 \/ n \in 1 .. c
      BY <1>1
    <2> QED
      BY <2>1, <2>2, <2>3
  <1>7. v = Append(w, x)
    BY <1>1, <1>3, <1>5, <1>6, SeqEqual DEF Holds
  <1> QED
    BY <1>7 DEF v, up, w, x

(* The first entry is taken off. *)
LEMMA WindowShrink ==
  ASSUME NEW size, RingSize(size), NEW S, NEW f \in [0 .. (size - 1) -> S],
         NEW lo \in IdxVals, NEW hi \in IdxVals, lo # hi
  PROVE  /\ Window(f, (lo + 1) % IdxMod, hi, size) = Tail(Window(f, lo, hi, size))
         /\ Head(Window(f, lo, hi, size)) = f[lo % size]
         /\ Window(f, lo, hi, size) # << >>
  <1> DEFINE c == Count(lo, hi)
             lp == (lo + 1) % IdxMod
             w == Window(f, lo, hi, size)
             v == Window(f, lp, hi, size)
  <1>1. c \in Nat /\ c > 0 /\ lp \in IdxVals /\ Count(lp, hi) = c - 1
    <2>1. Count(lo, hi) > 0
      BY CountLemma
    <2> QED
      BY <2>1, CountLemma
  <1>2. Holds(w, f, lo, c, size, S)
    BY WindowType
  <1>3. w # << >>
    BY WindowType
  <1>4. \A n \in Nat : Slot(lp, n, size) = Slot(lo, n + 1, size)
    BY SlotLemma
  <1>5. Slot(lo, 1, size) = lo % size
    BY SlotLemma
  <1> HIDE DEF lp, w, c, v
  <1>6. Holds(v, f, lp, c - 1, size, S)
    <2>1. Holds(v, f, lp, Count(lp, hi), size, S)
      BY <1>1, WindowType DEF v
    <2> QED
      BY <1>1, <2>1
  <1>7. Tail(w) \in Seq(S) /\ Len(Tail(w)) = c - 1 /\ \A n \in 1 .. c - 1 : Tail(w)[n] = w[n + 1]
    BY <1>1, <1>2, <1>3, HeadTailProperties DEF Holds
  <1>8. \A n \in 1 .. c - 1 : v[n] = Tail(w)[n]
    <2> TAKE n \in 1 .. c - 1
    <2>1. n \in Nat /\ n + 1 \in 1 .. c
      BY <1>1
    <2> QED
      BY <1>2, <1>4, <1>6, <1>7, <2>1 DEF Holds
  <1>9. v = Tail(w)
    BY <1>1, <1>6, <1>7, <1>8, SeqEqual DEF Holds
  <1>10. Head(w) = f[lo % size]
    BY <1>1, <1>2, <1>3, <1>5 DEF Holds
  <1> QED
    BY <1>3, <1>9, <1>10 DEF v, lp, w

(* A receipt's descriptor, the rest of it left out *)
Ids(q) == [n \in 0 .. (q.size - 1) |-> q.used_ring[n].id]

LEMMA RingsAreWindows ==
  ASSUME NEW size, RingSize(size), NEW Addrs, NEW q \in Rings(size, Addrs), NEW la \in IdxVals
  PROVE  /\ AvailSeq(q, la) = Window(q.avail_ring, la, q.avail_idx, size)
         /\ UsedSeq(q) = Window(Ids(q), q.last_used_idx, q.used_idx, size)
         /\ Ids(q) \in [0 .. (size - 1) -> 0 .. (size - 1)]
         /\ avail_pending(q, la) = Count(la, q.avail_idx)
  <1>1. q.size = size
    BY DEF Rings
  <1>2. AvailSeq(q, la) = Window(q.avail_ring, la, q.avail_idx, size)
    BY <1>1 DEF AvailSeq, Window, avail_pending, Count, Slot
  <1>3. Ids(q) \in [0 .. (size - 1) -> 0 .. (size - 1)]
    BY <1>1 DEF Rings, Ids
  <1> DEFINE lo == q.last_used_idx
             c == Count(q.last_used_idx, q.used_idx)
  <1>4. lo \in IdxVals
    BY DEF Rings
  <1>5. c \in Nat
    BY CountLemma DEF Rings
  <1>6. UsedSeq(q) = [n \in 1 .. c |-> q.used_ring[Slot(lo, n, size)].id]
    BY <1>1 DEF UsedSeq, Count, Slot
  <1> HIDE DEF lo, c
  <1>7. \A n \in 1 .. c : Ids(q)[Slot(lo, n, size)] = q.used_ring[Slot(lo, n, size)].id
    <2> TAKE n \in 1 .. c
    <2>1. n \in Nat
      BY <1>5
    <2>2. Slot(lo, n, size) \in 0 .. size - 1
      BY <1>4, <2>1, SlotLemma
    <2> QED
      BY <1>1, <2>2 DEF Ids
  <1>8. Window(Ids(q), lo, q.used_idx, size) = [n \in 1 .. c |-> Ids(q)[Slot(lo, n, size)]]
    BY DEF Window, c, lo
  <1>9. UsedSeq(q) = Window(Ids(q), lo, q.used_idx, size)
    BY <1>6, <1>7, <1>8
  <1> QED
    BY <1>2, <1>3, <1>9 DEF lo, avail_pending, Count

-----------------------------------------------------------------------------
(* Sequences without repetition, and the five moves *)
Inj(s) == \A m, n \in DOMAIN s : s[m] = s[n] => m = n

LEMMA ElemsAppend ==
  ASSUME NEW D, NEW s \in Seq(D), NEW x \in D
  PROVE  /\ Append(s, x) \in Seq(D)
         /\ SeqElems(Append(s, x)) = SeqElems(s) \cup {x}
         /\ Inj(s) /\ x \notin SeqElems(s) => Inj(Append(s, x))
  <1> DEFINE a == Append(s, x)
             l == Len(s)
  <1>1. l \in Nat /\ DOMAIN s = 1 .. l
    OBVIOUS
  <1>2. a \in Seq(D) /\ Len(a) = l + 1 /\ DOMAIN a = 1 .. l + 1
    OBVIOUS
  <1>3. a[l + 1] = x /\ \A n \in 1 .. l : a[n] = s[n]
    OBVIOUS
  <1> HIDE DEF a, l
  <1>4. 1 .. l + 1 = (1 .. l) \cup {l + 1} /\ l + 1 \notin 1 .. l
    BY <1>1
  <1>5. SeqElems(a) = SeqElems(s) \cup {x}
    BY <1>1, <1>2, <1>3, <1>4 DEF SeqElems
  <1>6. ASSUME Inj(s), x \notin SeqElems(s) PROVE Inj(a)
    <2> SUFFICES ASSUME NEW m \in DOMAIN a, NEW n \in DOMAIN a, a[m] = a[n] PROVE m = n
      BY DEF Inj
    <2>1. \A k \in 1 .. l : a[k] \in SeqElems(s)
      BY <1>1, <1>3 DEF SeqElems
    <2>2. CASE m \in 1 .. l /\ n \in 1 .. l
      BY <1>1, <1>3, <1>6, <2>2 DEF Inj
    <2>3. CASE m = l + 1 /\ n \in 1 .. l
      BY <1>3, <1>6, <2>1, <2>3
    <2>4. CASE m \in 1 .. l /\ n = l + 1
      BY <1>3, <1>6, <2>1, <2>4
    <2>5. CASE m = l + 1 /\ n = l + 1
      BY <2>5
    <2> QED
      BY <1>2, <1>4, <2>2, <2>3, <2>4, <2>5
  <1> QED
    BY <1>2, <1>5, <1>6 DEF a

LEMMA ElemsTail ==
  ASSUME NEW D, NEW s \in Seq(D), s # << >>
  PROVE  /\ Tail(s) \in Seq(D) /\ Head(s) \in D
         /\ SeqElems(s) = {Head(s)} \cup SeqElems(Tail(s))
         /\ Inj(s) => Inj(Tail(s)) /\ Head(s) \notin SeqElems(Tail(s))
  <1> DEFINE t == Tail(s)
             l == Len(s)
             h == Head(s)
  <1>1. l \in Nat /\ l > 0 /\ DOMAIN s = 1 .. l /\ h = s[1] /\ h \in D
    <2>1. l \in Nat \ {0} /\ DOMAIN s = 1 .. l
      BY EmptySeq
    <2>2. h = s[1] /\ h \in D
      BY HeadTailProperties
    <2> QED
      BY <2>1, <2>2
  <1>2. t \in Seq(D) /\ DOMAIN t = 1 .. l - 1 /\ \A n \in 1 .. l - 1 : t[n] = s[n + 1]
    <2>1. t \in Seq(D) /\ Len(t) = l - 1 /\ \A n \in 1 .. Len(t) : t[n] = s[n + 1]
      BY HeadTailProperties
    <2> HIDE DEF t
    <2>2. DOMAIN t = 1 .. Len(t)
      BY <2>1
    <2> QED
      BY <2>1, <2>2
  <1> HIDE DEF t, l, h
  <1>3. \A n \in 1 .. l - 1 : n + 1 \in 1 .. l
    BY <1>1
  <1>4. 1 \in 1 .. l /\ \A n \in 1 .. l : n = 1 \/ (n - 1 \in 1 .. l - 1 /\ (n - 1) + 1 = n)
    BY <1>1
  <1>5. SeqElems(s) = {h} \cup SeqElems(t)
    <2>1. ASSUME NEW x \in SeqElems(s) PROVE x = h \/ x \in SeqElems(t)
      <3>1. PICK n \in 1 .. l : x = s[n]
        BY <1>1 DEF SeqElems
      <3>2. CASE n = 1
        BY <1>1, <3>1, <3>2
      <3>3. CASE n - 1 \in 1 .. l - 1 /\ (n - 1) + 1 = n
        <4> DEFINE m == n - 1
        <4>1. m \in 1 .. l - 1 /\ m + 1 = n
          BY <3>3
        <4> HIDE DEF m
        <4>2. t[m] = x
          BY <1>2, <3>1, <4>1
        <4> QED
          BY <1>2, <4>1, <4>2 DEF SeqElems
      <3> QED
        BY <1>4, <3>2, <3>3
    <2>2. h \in SeqElems(s) /\ \A x \in SeqElems(t) : x \in SeqElems(s)
      BY <1>1, <1>2, <1>3, <1>4, SMTT(30) DEF SeqElems
    <2> QED
      BY <2>1, <2>2
  <1>6. ASSUME Inj(s) PROVE Inj(t) /\ h \notin SeqElems(t)
    <2>1. \A m, n \in 1 .. l - 1 : t[m] = t[n] => m + 1 = n + 1
      BY <1>1, <1>2, <1>3, <1>6 DEF Inj
    <2>2. \A m, n \in 1 .. l - 1 : m + 1 = n + 1 => m = n
      BY <1>1
    <2>3. \A n \in 1 .. l - 1 : t[n] # h
      <3> TAKE n \in 1 .. l - 1
      <3>1. n + 1 # 1 /\ n + 1 \in 1 .. l
        BY <1>1
      <3> QED
        BY <1>1, <1>2, <1>4, <1>6, <3>1 DEF Inj
    <2>4. Inj(t)
      BY <1>2, <2>1, <2>2 DEF Inj
    <2> QED
      BY <1>2, <2>3, <2>4 DEF SeqElems
  <1> QED
    BY <1>1, <1>2, <1>5, <1>6 DEF t, h

(* A sequence of different descriptors that leaves one out is not full. *)
LEMMA InjBound ==
  ASSUME NEW size \in Nat, NEW s \in Seq(0 .. (size - 1)), Inj(s),
         NEW x \in 0 .. (size - 1), x \notin SeqElems(s)
  PROVE  Len(s) < size
  <1> DEFINE S == 1 .. Len(s)
             T == (0 .. (size - 1)) \ {x}
  <1>1. Len(s) \in Nat /\ DOMAIN s = S
    OBVIOUS
  <1>2. IsFiniteSet(S) /\ Cardinality(S) = Len(s)
    <2>1. 1 \in Int /\ Len(s) \in Int
      OBVIOUS
    <2>2. IsFiniteSet(S) /\ Cardinality(S) = IF 1 > Len(s) THEN 0 ELSE Len(s) - 1 + 1
      BY <2>1, FS_Interval
    <2> QED
      BY <1>1, <2>2
  <1>3. IsFiniteSet(0 .. (size - 1)) /\ Cardinality(0 .. (size - 1)) = size
    <2>1. 0 \in Int /\ size - 1 \in Int
      OBVIOUS
    <2>2. IsFiniteSet(0 .. (size - 1))
          /\ Cardinality(0 .. (size - 1)) = IF 0 > size - 1 THEN 0 ELSE size - 1 - 0 + 1
      BY <2>1, FS_Interval
    <2> QED
      BY <2>2
  <1>4. IsFiniteSet(T) /\ Cardinality(T) = size - 1
    BY <1>3, FS_RemoveElement
  <1> HIDE DEF S, T
  <1>5. s \in [S -> T]
    <2>1. \A n \in S : s[n] \in 0 .. (size - 1) /\ s[n] # x
      BY <1>1 DEF SeqElems, S
    <2>2. s = [n \in S |-> s[n]]
      BY <1>1
    <2> QED
      BY <2>1, <2>2 DEF T
  <1>6. SUFFICES ASSUME Len(s) > size - 1 PROVE FALSE
    BY <1>1
  <1>7. \E m, n \in S : m # n /\ s[m] = s[n]
    BY <1>2, <1>4, <1>5, <1>6, FS_PigeonHole
  <1> QED
    BY <1>1, <1>7 DEF Inj

(* Fill: a free descriptor is filled. *)
LEMMA MoveFill ==
  ASSUME NEW D, NEW avail, NEW held, NEW used, Places(avail, held, used, {}, D),
         NEW d \in D, d \notin Out(avail, held, used, {})
  PROVE  /\ Places(avail, held, used, {d}, D)
         /\ Out(avail, held, used, {d}) = Out(avail, held, used, {}) \cup {d}
  BY DEF Places, OnePlace, Out

(* Publish: a filled descriptor joins the ones published. *)
LEMMA MovePublish ==
  ASSUME NEW D, NEW avail, NEW held, NEW used, NEW d, Places(avail, held, used, {d}, D)
  PROVE  /\ Places(Append(avail, d), held, used, {}, D)
         /\ Out(Append(avail, d), held, used, {}) = Out(avail, held, used, {d})
  <1>1. d \in D /\ avail \in Seq(D) /\ Inj(avail) /\ d \notin SeqElems(avail)
    BY DEF Places, OnePlace, Inj
  <1>2. /\ Append(avail, d) \in Seq(D) /\ Inj(Append(avail, d))
        /\ SeqElems(Append(avail, d)) = SeqElems(avail) \cup {d}
    BY <1>1, ElemsAppend
  <1>3. OnePlace(Append(avail, d), held, used, {})
    BY <1>2 DEF Places, OnePlace, Inj
  <1> QED
    BY <1>2, <1>3 DEF Places, Out

(* Take: the device takes the first one published. *)
LEMMA MoveTake ==
  ASSUME NEW D, NEW avail, NEW held, NEW used, NEW filled, Places(avail, held, used, filled, D),
         avail # << >>
  PROVE  /\ Places(Tail(avail), held \cup {Head(avail)}, used, filled, D)
         /\ Out(Tail(avail), held \cup {Head(avail)}, used, filled) = Out(avail, held, used, filled)
  <1>1. avail \in Seq(D) /\ Inj(avail)
    BY DEF Places, OnePlace, Inj
  <1>2. /\ Tail(avail) \in Seq(D) /\ Head(avail) \in D /\ Inj(Tail(avail))
        /\ SeqElems(avail) = {Head(avail)} \cup SeqElems(Tail(avail))
        /\ Head(avail) \notin SeqElems(Tail(avail))
    BY <1>1, ElemsTail
  <1>3. OnePlace(Tail(avail), held \cup {Head(avail)}, used, filled)
    BY <1>2 DEF Places, OnePlace, Inj
  <1> QED
    BY <1>2, <1>3 DEF Places, Out

(* Complete: the device has finished with one it holds. *)
LEMMA MoveComplete ==
  ASSUME NEW D, NEW avail, NEW held, NEW used, NEW filled, Places(avail, held, used, filled, D),
         NEW d \in held
  PROVE  /\ Places(avail, held \ {d}, Append(used, d), filled, D)
         /\ Out(avail, held \ {d}, Append(used, d), filled) = Out(avail, held, used, filled)
  <1>1. d \in D /\ used \in Seq(D) /\ Inj(used) /\ d \notin SeqElems(used)
    BY DEF Places, OnePlace, Inj
  <1>2. /\ Append(used, d) \in Seq(D) /\ Inj(Append(used, d))
        /\ SeqElems(Append(used, d)) = SeqElems(used) \cup {d}
    BY <1>1, ElemsAppend
  <1>3. OnePlace(avail, held \ {d}, Append(used, d), filled)
    BY <1>2 DEF Places, OnePlace, Inj
  <1> QED
    BY <1>2, <1>3 DEF Places, Out

(* Reclaim: the driver consumes the first receipt. *)
LEMMA MoveReclaim ==
  ASSUME NEW D, NEW avail, NEW held, NEW used, NEW filled, Places(avail, held, used, filled, D),
         used # << >>
  PROVE  /\ Places(avail, held, Tail(used), filled, D)
         /\ Head(used) \in D
         /\ Out(avail, held, Tail(used), filled) = Out(avail, held, used, filled) \ {Head(used)}
         /\ Head(used) \in Out(avail, held, used, filled)
  <1>1. used \in Seq(D) /\ Inj(used)
    BY DEF Places, OnePlace, Inj
  <1>2. /\ Tail(used) \in Seq(D) /\ Head(used) \in D /\ Inj(Tail(used))
        /\ SeqElems(used) = {Head(used)} \cup SeqElems(Tail(used))
        /\ Head(used) \notin SeqElems(Tail(used))
    BY <1>1, ElemsTail
  <1>3. OnePlace(avail, held, Tail(used), filled)
    BY <1>2 DEF Places, OnePlace, Inj
  <1>4. Out(avail, held, Tail(used), filled) = Out(avail, held, used, filled) \ {Head(used)}
    BY <1>2 DEF Places, OnePlace, Out
  <1> QED
    BY <1>2, <1>3, <1>4 DEF Places, Out

-----------------------------------------------------------------------------
(* The operations of a queue.  A queue is sound when its records are of    *)
(* their types, every descriptor that is out is in one place and chain     *)
(* lists the others.                                                       *)
OutOf(q, la, held, filled) == Out(AvailSeq(q, la), held, UsedSeq(q), filled)

QueueSound(q, la, held, filled, chain, size, Addrs) ==
  /\ q \in Rings(size, Addrs)
  /\ Places(AvailSeq(q, la), held, UsedSeq(q), filled, 0 .. (size - 1))
  /\ Chained(q, chain, OutOf(q, la, held, filled))

(* The free list, spelled out *)
FreeChain(q, chain, out, size) ==
  /\ q.num_free \in 0 .. size
  /\ chain \in [1 .. q.num_free -> 0 .. (size - 1)]
  /\ \A m, n \in 1 .. q.num_free : chain[m] = chain[n] => m = n
  /\ q.num_free > 0 => chain[1] = q.free_head
  /\ \A n \in 1 .. (q.num_free - 1) : q.next[chain[n]] = chain[n + 1]
  /\ \A x \in 0 .. (size - 1) : x \notin out <=> \E n \in 1 .. q.num_free : x = chain[n]
  /\ \A n \in 1 .. q.num_free : chain[n] \notin out

LEMMA ChainFacts ==
  ASSUME NEW size, RingSize(size), NEW Addrs, NEW q, NEW la, NEW held, NEW filled, NEW chain,
         QueueSound(q, la, held, filled, chain, size, Addrs)
  PROVE  /\ q.size = size /\ Descs(q) = 0 .. (size - 1)
         /\ size \in Nat \ {0} /\ size < IdxMod /\ IdxMod \in Nat
         /\ FreeChain(q, chain, OutOf(q, la, held, filled), size)
  <1>1. q.size = size /\ q.num_free \in 0 .. size
    BY DEF QueueSound, Rings
  <1>2. Descs(q) = 0 .. (size - 1)
    BY <1>1 DEF Descs
  <1>3. Chained(q, chain, OutOf(q, la, held, filled))
    BY DEF QueueSound
  <1> DEFINE out == OutOf(q, la, held, filled)
  <1> HIDE DEF out
  <1>4. IsFreeChain(q, chain) /\ SeqElems(chain) = (0 .. (size - 1)) \ out
    BY <1>2, <1>3 DEF Chained, out
  <1>5. /\ chain \in [1 .. q.num_free -> 0 .. (size - 1)]
        /\ \A m, n \in 1 .. q.num_free : chain[m] = chain[n] => m = n
        /\ q.num_free > 0 => chain[1] = q.free_head
        /\ \A n \in 1 .. (q.num_free - 1) : q.next[chain[n]] = chain[n + 1]
    BY <1>2, <1>4 DEF IsFreeChain
  <1>6. DOMAIN chain = 1 .. q.num_free
    BY <1>5
  <1>7. SeqElems(chain) = {chain[n] : n \in 1 .. q.num_free}
    BY <1>6 DEF SeqElems
  <1>8. \A x \in 0 .. (size - 1) : x \notin out <=> \E n \in 1 .. q.num_free : x = chain[n]
    BY <1>4, <1>7
  <1>9. \A n \in 1 .. q.num_free : chain[n] \notin out
    BY <1>4, <1>7
  <1>10. size \in Nat \ {0} /\ size < IdxMod /\ IdxMod \in Nat
    BY ConstLemma DEF RingSize
  <1> QED
    BY <1>1, <1>2, <1>5, <1>8, <1>9, <1>10 DEF out, FreeChain

LEMMA ChainIntro ==
  ASSUME NEW size, NEW Addrs, NEW q \in Rings(size, Addrs), NEW out, NEW chain,
         FreeChain(q, chain, out, size)
  PROVE  Chained(q, chain, out)
  <1>1. q.size = size
    BY DEF Rings
  <1>2. Descs(q) = 0 .. (size - 1)
    BY <1>1 DEF Descs
  <1>3. IsFreeChain(q, chain)
    BY <1>2 DEF IsFreeChain, FreeChain
  <1>4. DOMAIN chain = 1 .. q.num_free
    BY DEF FreeChain
  <1>5. SeqElems(chain) = {chain[n] : n \in 1 .. q.num_free}
    BY <1>4 DEF SeqElems
  <1>6. SeqElems(chain) = (0 .. (size - 1)) \ out
    BY <1>5 DEF FreeChain
  <1> QED
    BY <1>2, <1>3, <1>6 DEF Chained

(* Fewer entries than slots, while some descriptor is elsewhere *)
LEMMA RoomAvail ==
  ASSUME NEW size, RingSize(size), NEW Addrs, NEW q \in Rings(size, Addrs), NEW la \in IdxVals,
         Inj(AvailSeq(q, la)), NEW x \in 0 .. (size - 1), x \notin SeqElems(AvailSeq(q, la)),
         AvailSeq(q, la) \in Seq(0 .. (size - 1))
  PROVE  Count(la, q.avail_idx) < size
  <1>1. q.avail_idx \in IdxVals /\ size \in Nat
        /\ q.avail_ring \in [0 .. (size - 1) -> 0 .. (size - 1) \cup {NoDesc}]
    BY DEF Rings, RingSize
  <1>2. Holds(AvailSeq(q, la), q.avail_ring, la, Count(la, q.avail_idx), size,
              0 .. (size - 1) \cup {NoDesc})
    BY <1>1, WindowType, RingsAreWindows
  <1>3. Len(AvailSeq(q, la)) = Count(la, q.avail_idx)
    BY <1>2 DEF Holds
  <1>4. Len(AvailSeq(q, la)) < size
    BY <1>1, InjBound
  <1> QED
    BY <1>3, <1>4

LEMMA RoomUsed ==
  ASSUME NEW size, RingSize(size), NEW Addrs, NEW q \in Rings(size, Addrs),
         Inj(UsedSeq(q)), NEW x \in 0 .. (size - 1), x \notin SeqElems(UsedSeq(q)),
         UsedSeq(q) \in Seq(0 .. (size - 1))
  PROVE  Count(q.last_used_idx, q.used_idx) < size
  <1>1. q.last_used_idx \in IdxVals /\ q.used_idx \in IdxVals /\ size \in Nat
    BY DEF Rings, RingSize
  <1>2. /\ UsedSeq(q) = Window(Ids(q), q.last_used_idx, q.used_idx, size)
        /\ Ids(q) \in [0 .. (size - 1) -> 0 .. (size - 1)]
    BY <1>1, RingsAreWindows
  <1>3. Holds(UsedSeq(q), Ids(q), q.last_used_idx, Count(q.last_used_idx, q.used_idx), size,
              0 .. (size - 1))
    BY <1>1, <1>2, WindowType, ZenonT(60)
  <1>4. Len(UsedSeq(q)) = Count(q.last_used_idx, q.used_idx)
    BY <1>3 DEF Holds
  <1>5. Len(UsedSeq(q)) < size
    BY <1>1, InjBound
  <1> QED
    BY <1>4, <1>5

LEMMA SameUsed ==
  ASSUME NEW q, NEW r, r.size = q.size, r.used_ring = q.used_ring, r.used_idx = q.used_idx,
         r.last_used_idx = q.last_used_idx
  PROVE  UsedSeq(r) = UsedSeq(q)
  BY DEF UsedSeq

LEMMA SameAvail ==
  ASSUME NEW q, NEW r, r.size = q.size, r.avail_ring = q.avail_ring, r.avail_idx = q.avail_idx,
         NEW la
  PROVE  AvailSeq(r, la) = AvailSeq(q, la)
  BY DEF AvailSeq, avail_pending

(* virtqueue_add_descriptor and the store of its result in the ring *)
Added(q, b) == write_avail_slot(virtqueue_add_descriptor(q, b), added_head(q))

LEMMA RingsIntro ==
  ASSUME NEW size, NEW Addrs,
         NEW addr \in [0 .. (size - 1) -> Addrs \cup {NULL}],
         NEW next \in [0 .. (size - 1) -> 0 .. (size - 1) \cup {NoDesc}],
         NEW free_head \in 0 .. (size - 1) \cup {NoDesc},
         NEW num_free \in 0 .. size,
         NEW avail_ring \in [0 .. (size - 1) -> 0 .. (size - 1) \cup {NoDesc}],
         NEW avail_idx \in IdxVals,
         NEW used_ring \in [0 .. (size - 1) -> [id : 0 .. (size - 1), len : Lens]],
         NEW used_idx \in IdxVals,
         NEW last_used_idx \in IdxVals
  PROVE  [size |-> size, addr |-> addr, next |-> next, free_head |-> free_head,
          num_free |-> num_free, avail_ring |-> avail_ring, avail_idx |-> avail_idx,
          used_ring |-> used_ring, used_idx |-> used_idx,
          last_used_idx |-> last_used_idx] \in Rings(size, Addrs)
  BY DEF Rings

AddedTo(r, q, b) ==
  /\ r.num_free = q.num_free - 1
  /\ r.free_head = q.next[q.free_head]
  /\ r.next = [q.next EXCEPT ![q.free_head] = 0]
  /\ r.addr = [q.addr EXCEPT ![q.free_head] = b]
  /\ r.avail_ring = [q.avail_ring EXCEPT ![q.avail_idx % q.size] = q.free_head]
  /\ r.avail_idx = q.avail_idx /\ r.size = q.size /\ r.used_ring = q.used_ring
  /\ r.used_idx = q.used_idx /\ r.last_used_idx = q.last_used_idx

LEMMA AddedRecord ==
  ASSUME NEW size, RingSize(size), NEW Addrs, NEW q \in Rings(size, Addrs), NEW b \in Addrs,
         q.num_free > 0, q.free_head \in 0 .. (size - 1),
         NEW r, r = Added(q, b)
  PROVE  r \in Rings(size, Addrs) /\ AddedTo(r, q, b)
  <1>1. /\ q.size = size /\ q.num_free \in 0 .. size /\ size \in Nat \ {0}
        /\ q.next \in [0 .. (size - 1) -> 0 .. (size - 1) \cup {NoDesc}]
        /\ q.addr \in [0 .. (size - 1) -> Addrs \cup {NULL}]
        /\ q.avail_ring \in [0 .. (size - 1) -> 0 .. (size - 1) \cup {NoDesc}]
        /\ q.avail_idx \in IdxVals
    BY DEF Rings, RingSize
  <1>2. added_head(q) = q.free_head
    BY <1>1 DEF added_head
  <1> DEFINE p == [q EXCEPT !.free_head = q.next[q.free_head], !.num_free = @ - 1,
                            !.addr[q.free_head] = b, !.next[q.free_head] = 0]
  <1>3. virtqueue_add_descriptor(q, b) = p
    BY <1>1 DEF virtqueue_add_descriptor
  <1>4. r = [p EXCEPT !.avail_ring[p.avail_idx % p.size] = q.free_head]
    BY <1>2, <1>3 DEF Added, write_avail_slot
  <1>5. p.avail_idx = q.avail_idx /\ p.size = q.size
    BY DEF Rings
  <1>6. r = [size |-> q.size, addr |-> [q.addr EXCEPT ![q.free_head] = b],
             next |-> [q.next EXCEPT ![q.free_head] = 0],
             free_head |-> q.next[q.free_head], num_free |-> q.num_free - 1,
             avail_ring |-> [q.avail_ring EXCEPT ![q.avail_idx % size] = q.free_head],
             avail_idx |-> q.avail_idx, used_ring |-> q.used_ring,
             used_idx |-> q.used_idx, last_used_idx |-> q.last_used_idx]
    BY <1>1, <1>4, <1>5, ZenonT(60) DEF Rings
  <1>7. 0 \in 0 .. (size - 1) /\ q.num_free - 1 \in 0 .. size
        /\ q.next[q.free_head] \in 0 .. (size - 1) \cup {NoDesc}
    BY <1>1
  <1>8. [q.addr EXCEPT ![q.free_head] = b] \in [0 .. (size - 1) -> Addrs \cup {NULL}]
    BY <1>1
  <1>9. [q.next EXCEPT ![q.free_head] = 0] \in [0 .. (size - 1) -> 0 .. (size - 1) \cup {NoDesc}]
    BY <1>1, <1>7
  <1>10. [q.avail_ring EXCEPT ![q.avail_idx % size] = q.free_head]
           \in [0 .. (size - 1) -> 0 .. (size - 1) \cup {NoDesc}]
    BY <1>1
  <1>12. AddedTo(r, q, b)
    BY <1>1, <1>6 DEF AddedTo
  <1> DEFINE ad == [q.addr EXCEPT ![q.free_head] = b]
             nx == [q.next EXCEPT ![q.free_head] = 0]
             ar == [q.avail_ring EXCEPT ![q.avail_idx % size] = q.free_head]
  <1> HIDE DEF ad, nx, ar, p
  <1>11. r \in Rings(size, Addrs)
    <2>1. r = [size |-> q.size, addr |-> ad, next |-> nx, free_head |-> q.next[q.free_head],
               num_free |-> q.num_free - 1, avail_ring |-> ar, avail_idx |-> q.avail_idx,
               used_ring |-> q.used_ring, used_idx |-> q.used_idx,
               last_used_idx |-> q.last_used_idx]
      BY <1>6 DEF ad, nx, ar
    <2>2. /\ ad \in [0 .. (size - 1) -> Addrs \cup {NULL}]
          /\ nx \in [0 .. (size - 1) -> 0 .. (size - 1) \cup {NoDesc}]
          /\ ar \in [0 .. (size - 1) -> 0 .. (size - 1) \cup {NoDesc}]
      BY <1>8, <1>9, <1>10 DEF ad, nx, ar
    <2>3. /\ q.used_ring \in [0 .. (size - 1) -> [id : 0 .. (size - 1), len : Lens]]
          /\ q.used_idx \in IdxVals /\ q.last_used_idx \in IdxVals /\ q.size \in {size}
      BY DEF Rings
    <2> QED
      <3> DEFINE fh == q.next[q.free_head]
                 nf == q.num_free - 1
                 ai == q.avail_idx
                 ur == q.used_ring
                 ui == q.used_idx
                 lu == q.last_used_idx
      <3>1. fh \in 0 .. (size - 1) \cup {NoDesc} /\ nf \in 0 .. size /\ ai \in IdxVals
        BY <1>1, <1>7
      <3>2. /\ ur \in [0 .. (size - 1) -> [id : 0 .. (size - 1), len : Lens]]
            /\ ui \in IdxVals /\ lu \in IdxVals
        BY <2>3
      <3>3. r = [size |-> size, addr |-> ad, next |-> nx, free_head |-> fh, num_free |-> nf,
                 avail_ring |-> ar, avail_idx |-> ai, used_ring |-> ur, used_idx |-> ui,
                 last_used_idx |-> lu]
        BY <1>1, <2>1
      <3> HIDE DEF fh, nf, ai, ur, ui, lu
      <3>4. [size |-> size, addr |-> ad, next |-> nx, free_head |-> fh, num_free |-> nf,
             avail_ring |-> ar, avail_idx |-> ai, used_ring |-> ur, used_idx |-> ui,
             last_used_idx |-> lu] \in Rings(size, Addrs)
        BY <2>2, <3>1, <3>2, RingsIntro
      <3> QED
        BY <3>3, <3>4, Zenon
  <1> QED
    BY <1>11, <1>12

FillEffect(r, q, la, held, chain, d, b, size, Addrs) ==
  /\ QueueSound(r, la, held, {d}, [k \in 1 .. (q.num_free - 1) |-> chain[k + 1]],
                size, Addrs)
  /\ r.num_free = q.num_free - 1
  /\ d \in 0 .. (size - 1) /\ d = chain[1] /\ d \notin OutOf(q, la, held, {})
  /\ OutOf(r, la, held, {d}) = OutOf(q, la, held, {}) \cup {d}
  /\ r.avail_ring[r.avail_idx % size] = d
  /\ r.addr = [q.addr EXCEPT ![d] = b]
  /\ AvailSeq(r, la) = AvailSeq(q, la) /\ UsedSeq(r) = UsedSeq(q)

(* Fill *)
LEMMA QueueFill ==
  ASSUME NEW size, RingSize(size), NEW Addrs, NEW q, NEW la \in IdxVals, NEW held, NEW chain,
         QueueSound(q, la, held, {}, chain, size, Addrs), q.num_free > 0, NEW b \in Addrs,
         NEW d, d = q.free_head, NEW r, r = Added(q, b)
  PROVE  FillEffect(r, q, la, held, chain, d, b, size, Addrs)
  <1> DEFINE D == 0 .. (size - 1)
             out == OutOf(q, la, held, {})
             nf == q.num_free
             tl == [k \in 1 .. (nf - 1) |-> chain[k + 1]]
  <1>0. q.size = size /\ size \in Nat \ {0} /\ FreeChain(q, chain, out, size)
    BY ChainFacts
  <1>1. /\ q.size = size /\ nf \in 0 .. size /\ size \in Nat \ {0}
        /\ chain \in [1 .. nf -> D]
        /\ \A m, n \in 1 .. nf : chain[m] = chain[n] => m = n
        /\ chain[1] = q.free_head
        /\ \A n \in 1 .. (nf - 1) : q.next[chain[n]] = chain[n + 1]
        /\ \A x \in D : x \notin out <=> \E n \in 1 .. nf : x = chain[n]
        /\ \A n \in 1 .. nf : chain[n] \notin out
    BY <1>0 DEF FreeChain
  <1>2. nf > 0 /\ 1 \in 1 .. nf
    BY <1>1
  <1>3. d \in D /\ d = chain[1] /\ d \notin out
    BY <1>1, <1>2
  <1>4. q \in Rings(size, Addrs) /\ Places(AvailSeq(q, la), held, UsedSeq(q), {}, D)
    BY DEF QueueSound
  <1>50. r \in Rings(size, Addrs) /\ AddedTo(r, q, b)
    BY <1>2, <1>3, <1>4, AddedRecord
  <1>5. /\ r \in Rings(size, Addrs)
        /\ r.num_free = nf - 1
        /\ r.free_head = q.next[d]
        /\ r.next = [q.next EXCEPT ![d] = 0]
        /\ r.addr = [q.addr EXCEPT ![d] = b]
        /\ r.avail_ring = [q.avail_ring EXCEPT ![q.avail_idx % size] = d]
        /\ r.avail_idx = q.avail_idx /\ r.size = q.size /\ r.used_ring = q.used_ring
        /\ r.used_idx = q.used_idx /\ r.last_used_idx = q.last_used_idx
    BY <1>1, <1>50 DEF AddedTo
  <1>6. UsedSeq(r) = UsedSeq(q)
    BY <1>5, SameUsed
  <1>7. Count(la, q.avail_idx) < size
    <2>1. Inj(AvailSeq(q, la)) /\ AvailSeq(q, la) \in Seq(D)
      BY <1>4 DEF Places, OnePlace, Inj
    <2>2. d \notin SeqElems(AvailSeq(q, la))
      BY <1>3 DEF OutOf, Out
    <2> QED
      BY <1>3, <1>4, <2>1, <2>2, RoomAvail
  <1>8. AvailSeq(r, la) = AvailSeq(q, la) /\ r.avail_ring[r.avail_idx % size] = d
    <2>1. q.avail_ring \in [0 .. (size - 1) -> D \cup {NoDesc}] /\ q.avail_idx \in IdxVals
      BY <1>4 DEF Rings
    <2>3. /\ Window(r.avail_ring, la, q.avail_idx, size) = Window(q.avail_ring, la, q.avail_idx, size)
          /\ r.avail_ring[q.avail_idx % size] = d
      <3>1. Written(r.avail_ring, q.avail_ring, q.avail_idx % size, d)
        BY <1>5 DEF AddedTo, Written
      <3> QED
        <4> DEFINE f == q.avail_ring
                   g == r.avail_ring
                   hi == q.avail_idx
        <4>1. DOMAIN f = 0 .. (size - 1) /\ hi \in IdxVals /\ Count(la, hi) < size
          BY <1>7, <2>1
        <4>2. Written(g, f, hi % size, d)
          BY <3>1
        <4> HIDE DEF f, g, hi
        <4>3. Window(g, la, hi, size) = Window(f, la, hi, size) /\ g[hi % size] = d
          BY <4>1, <4>2, WindowWrite
        <4> QED
          BY <4>3 DEF f, g, hi
    <2>4. AvailSeq(q, la) = Window(q.avail_ring, la, q.avail_idx, size)
      BY <1>4, RingsAreWindows
    <2>5. AvailSeq(r, la) = Window(r.avail_ring, la, r.avail_idx, size)
      BY <1>5, RingsAreWindows
    <2> QED
      BY <1>5, <2>3, <2>4, <2>5
  <1>9. /\ Places(AvailSeq(q, la), held, UsedSeq(q), {d}, D)
        /\ Out(AvailSeq(q, la), held, UsedSeq(q), {d}) = out \cup {d}
    <2>1. d \notin Out(AvailSeq(q, la), held, UsedSeq(q), {})
      BY <1>3 DEF OutOf
    <2>2. /\ Places(AvailSeq(q, la), held, UsedSeq(q), {d}, D)
          /\ Out(AvailSeq(q, la), held, UsedSeq(q), {d})
               = Out(AvailSeq(q, la), held, UsedSeq(q), {}) \cup {d}
      <3> HIDE DEF D
      <3> QED
        BY <1>3, <1>4, <2>1, MoveFill
    <2> QED
      BY <2>2 DEF OutOf
  <1>10. OutOf(r, la, held, {d}) = out \cup {d}
    BY <1>6, <1>8, <1>9 DEF OutOf
  <1> HIDE DEF out
  <1>11. Chained(r, tl, out \cup {d})
    <2>1. tl \in [1 .. (nf - 1) -> D] /\ \A n \in 1 .. (nf - 1) : n + 1 \in 1 .. nf /\ tl[n] = chain[n + 1]
      BY <1>1
    <2> HIDE DEF tl, nf
    <2>2. tl \in [1 .. r.num_free -> D]
      BY <1>5, <2>1
    <2>3. \A m, n \in 1 .. r.num_free : tl[m] = tl[n] => m = n
      <3>1. ASSUME NEW m \in 1 .. (nf - 1), NEW n \in 1 .. (nf - 1), tl[m] = tl[n] PROVE m = n
        <4>1. chain[m + 1] = chain[n + 1] /\ m + 1 \in 1 .. nf /\ n + 1 \in 1 .. nf
          BY <2>1, <3>1
        <4>2. m + 1 = n + 1
          BY <1>1, <4>1
        <4> QED
          BY <4>2
      <3> QED
        BY <1>5, <3>1
    <2>4. r.num_free > 0 => tl[1] = r.free_head
      <3>1. ASSUME nf - 1 > 0 PROVE tl[1] = chain[1 + 1] /\ q.next[chain[1]] = chain[1 + 1]
        <4>1. 1 \in 1 .. (nf - 1)
          BY <1>1, <3>1
        <4> QED
          BY <1>1, <2>1, <4>1
      <3> QED
        BY <1>3, <1>5, <3>1
    <2>5. \A n \in 1 .. (r.num_free - 1) : r.next[tl[n]] = tl[n + 1]
      <3>1. ASSUME NEW n \in 1 .. (nf - 1 - 1) PROVE r.next[tl[n]] = tl[n + 1]
        <4>1. n \in 1 .. (nf - 1) /\ n + 1 \in 1 .. (nf - 1) /\ n + 1 \in 1 .. nf /\ n + 1 # 1
          BY <1>1, <3>1
        <4>2. tl[n] = chain[n + 1] /\ tl[n + 1] = chain[(n + 1) + 1] /\ tl[n] \in D
          BY <2>1, <4>1
        <4>3. q.next[chain[n + 1]] = chain[(n + 1) + 1]
          BY <1>1, <4>1
        <4>4. chain[n + 1] # d
          BY <1>1, <1>2, <1>3, <4>1
        <4>5. q.next \in [D -> D \cup {NoDesc}]
          BY <1>4 DEF Rings
        <4> QED
          BY <1>5, <4>2, <4>3, <4>4, <4>5
      <3> QED
        BY <1>5, <3>1
    <2>6. \A x \in D : x \notin out \cup {d} <=> \E n \in 1 .. r.num_free : x = tl[n]
      <3>1. ASSUME NEW x \in D, x \notin out \cup {d} PROVE \E n \in 1 .. (nf - 1) : x = tl[n]
        <4>1. PICK n \in 1 .. nf : x = chain[n]
          BY <1>1, <3>1
        <4>2. n # 1
          BY <1>3, <3>1, <4>1
        <4> DEFINE m == n - 1
        <4>3. m \in 1 .. (nf - 1) /\ m + 1 = n
          BY <1>1, <4>2
        <4> HIDE DEF m
        <4>4. x = tl[m]
          BY <2>1, <4>1, <4>3
        <4> QED
          BY <4>3, <4>4
      <3>2. ASSUME NEW n \in 1 .. (nf - 1) PROVE tl[n] \notin out \cup {d}
        <4>1. n + 1 \in 1 .. nf /\ n + 1 # 1 /\ tl[n] = chain[n + 1]
          BY <1>1, <2>1
        <4> QED
          BY <1>1, <1>2, <1>3, <4>1
      <3> QED
        BY <1>5, <3>1, <3>2
    <2>7. FreeChain(r, tl, out \cup {d}, size)
      <3>1. r.num_free \in 0 .. size
        BY <1>5 DEF Rings
      <3>2. \A n \in 1 .. r.num_free : tl[n] \notin out \cup {d}
        BY <2>2, <2>6
      <3> QED
        BY <2>2, <2>3, <2>4, <2>5, <2>6, <3>1, <3>2 DEF FreeChain
    <2>8. r \in Rings(size, Addrs)
      BY <1>5
    <2> QED
      BY <2>7, <2>8, ChainIntro
  <1>12. QueueSound(r, la, held, {d}, tl, size, Addrs)
    BY <1>5, <1>6, <1>8, <1>9, <1>10, <1>11 DEF QueueSound
  <1> QED
    BY <1>3, <1>5, <1>6, <1>8, <1>10, <1>12 DEF out, FillEffect

LEMMA SameChain ==
  ASSUME NEW q, NEW r, r.size = q.size, r.num_free = q.num_free, r.free_head = q.free_head,
         r.next = q.next, NEW chain, NEW out, Chained(q, chain, out)
  PROVE  Chained(r, chain, out)
  BY DEF Chained, IsFreeChain, Descs

PublishedTo(r, q) ==
  /\ r.size = q.size /\ r.addr = q.addr /\ r.next = q.next
  /\ r.free_head = q.free_head /\ r.num_free = q.num_free
  /\ r.avail_ring = q.avail_ring /\ r.avail_idx = (q.avail_idx + 1) % IdxMod
  /\ r.used_ring = q.used_ring /\ r.used_idx = q.used_idx /\ r.last_used_idx = q.last_used_idx

LEMMA PublishedRecord ==
  ASSUME NEW size, RingSize(size), NEW Addrs, NEW q \in Rings(size, Addrs),
         NEW r, r = publish_avail_idx(q)
  PROVE  r \in Rings(size, Addrs) /\ PublishedTo(r, q)
  <1>1. (q.avail_idx + 1) % IdxMod \in IdxVals
    <2>1. q.avail_idx \in IdxVals
      BY DEF Rings
    <2> QED
      BY <2>1, CountLemma
  <1>2. r = [q EXCEPT !.avail_idx = (q.avail_idx + 1) % IdxMod]
    BY DEF publish_avail_idx
  <1> DEFINE up == (q.avail_idx + 1) % IdxMod
  <1> HIDE DEF up
  <1>3. r = [q EXCEPT !.avail_idx = up] /\ up \in IdxVals
    BY <1>1, <1>2 DEF up
  <1>4. r \in Rings(size, Addrs)
    BY <1>3 DEF Rings
  <1>5. PublishedTo(r, q)
    BY <1>3 DEF PublishedTo, Rings, up
  <1> QED
    BY <1>4, <1>5

PublishEffect(r, q, la, held, chain, d, size, Addrs) ==
  /\ QueueSound(r, la, held, {}, chain, size, Addrs)
  /\ OutOf(r, la, held, {}) = OutOf(q, la, held, {d})
  /\ r.num_free = q.num_free /\ r.addr = q.addr
  /\ AvailSeq(r, la) = Append(AvailSeq(q, la), d) /\ UsedSeq(r) = UsedSeq(q)

(* Publish *)
LEMMA QueuePublish ==
  ASSUME NEW size, RingSize(size), NEW Addrs, NEW q, NEW la \in IdxVals, NEW held, NEW chain,
         NEW d, QueueSound(q, la, held, {d}, chain, size, Addrs),
         d = q.avail_ring[q.avail_idx % size],
         NEW r, r = publish_avail_idx(q)
  PROVE  PublishEffect(r, q, la, held, chain, d, size, Addrs)
  <1> DEFINE D == 0 .. (size - 1)
             out == OutOf(q, la, held, {d})
  <1>1. /\ q \in Rings(size, Addrs) /\ Places(AvailSeq(q, la), held, UsedSeq(q), {d}, D)
        /\ Chained(q, chain, out)
    BY DEF QueueSound
  <1>2. r \in Rings(size, Addrs) /\ PublishedTo(r, q)
    BY <1>1, PublishedRecord
  <1>3. UsedSeq(r) = UsedSeq(q)
    BY <1>2, SameUsed DEF PublishedTo
  <1>4. Count(la, q.avail_idx) < size
    <2>1. /\ Inj(AvailSeq(q, la)) /\ AvailSeq(q, la) \in Seq(D)
          /\ d \in D /\ d \notin SeqElems(AvailSeq(q, la))
      BY <1>1 DEF Places, OnePlace, Inj
    <2> QED
      BY <1>1, <2>1, RoomAvail
  <1>5. AvailSeq(r, la) = Append(AvailSeq(q, la), d)
    <2> DEFINE f == q.avail_ring
               hi == q.avail_idx
               S == D \cup {NoDesc}
    <2>1. f \in [0 .. (size - 1) -> S] /\ hi \in IdxVals
      BY <1>1 DEF Rings
    <2>2. AvailSeq(q, la) = Window(f, la, hi, size)
      BY <1>1, RingsAreWindows
    <2>3. AvailSeq(r, la) = Window(f, la, (hi + 1) % IdxMod, size)
      <3>1. AvailSeq(r, la) = Window(r.avail_ring, la, r.avail_idx, size)
        BY <1>2, RingsAreWindows
      <3> QED
        BY <1>2, <3>1 DEF PublishedTo
    <2>4. Count(la, hi) < size /\ f[hi % size] = d
      BY <1>4
    <2> HIDE DEF f, hi, S
    <2>5. Window(f, la, (hi + 1) % IdxMod, size) = Append(Window(f, la, hi, size), f[hi % size])
      BY <2>1, <2>4, WindowGrow
    <2> QED
      BY <2>2, <2>3, <2>4, <2>5
  <1>6. /\ Places(Append(AvailSeq(q, la), d), held, UsedSeq(q), {}, D)
        /\ Out(Append(AvailSeq(q, la), d), held, UsedSeq(q), {})
             = Out(AvailSeq(q, la), held, UsedSeq(q), {d})
    <2> HIDE DEF D
    <2> QED
      BY <1>1, MovePublish
  <1>7. OutOf(r, la, held, {}) = out
    BY <1>3, <1>5, <1>6 DEF OutOf
  <1>8. Chained(r, chain, out)
    <2> HIDE DEF out
    <2> QED
      BY <1>1, <1>2, SameChain DEF PublishedTo
  <1>9. QueueSound(r, la, held, {}, chain, size, Addrs)
    BY <1>2, <1>3, <1>5, <1>6, <1>7, <1>8 DEF QueueSound
  <1> QED
    BY <1>2, <1>3, <1>5, <1>7, <1>9 DEF PublishedTo, PublishEffect

TakeEffect(q, la, held, filled, chain, d, up, size, Addrs) ==
  /\ d \in Descs(q) /\ d \in 0 .. (size - 1)
  /\ up \in IdxVals
  /\ QueueSound(q, up, held \cup {d}, filled, chain, size, Addrs)
  /\ OutOf(q, up, held \cup {d}, filled) = OutOf(q, la, held, filled)
  /\ AvailSeq(q, la) # << >> /\ Head(AvailSeq(q, la)) = d
  /\ AvailSeq(q, up) = Tail(AvailSeq(q, la))

(* Take *)
LEMMA QueueTake ==
  ASSUME NEW size, RingSize(size), NEW Addrs, NEW q, NEW la \in IdxVals, NEW held, NEW filled,
         NEW chain, QueueSound(q, la, held, filled, chain, size, Addrs),
         avail_pending(q, la) > 0,
         NEW d, d = device_reads(q, la), NEW up, up = (la + 1) % IdxMod
  PROVE  TakeEffect(q, la, held, filled, chain, d, up, size, Addrs)
  <1> DEFINE D == 0 .. (size - 1)
             out == OutOf(q, la, held, filled)
  <1>1. /\ q \in Rings(size, Addrs) /\ Places(AvailSeq(q, la), held, UsedSeq(q), filled, D)
        /\ Chained(q, chain, out)
    BY DEF QueueSound
  <1>2. q.size = size /\ up \in IdxVals /\ q.avail_idx \in IdxVals
    BY <1>1, CountLemma DEF Rings
  <1>3. /\ AvailSeq(q, up) = Tail(AvailSeq(q, la)) /\ Head(AvailSeq(q, la)) = d
        /\ AvailSeq(q, la) # << >>
    <2> DEFINE f == q.avail_ring
               hi == q.avail_idx
               S == D \cup {NoDesc}
    <2>1. f \in [0 .. (size - 1) -> S] /\ hi \in IdxVals
      BY <1>1 DEF Rings
    <2>2. AvailSeq(q, la) = Window(f, la, hi, size) /\ AvailSeq(q, up) = Window(f, up, hi, size)
      BY <1>1, <1>2, RingsAreWindows
    <2>3. d = f[la % size]
      BY <1>2 DEF device_reads
    <2>4. la # hi
      <3>1. Count(la, q.avail_idx) > 0
        BY DEF avail_pending, Count
      <3>2. Count(la, q.avail_idx) = 0 <=> la = q.avail_idx
        BY <1>2, CountLemma
      <3> QED
        BY <3>1, <3>2
    <2> HIDE DEF f, hi, S
    <2>5. /\ Window(f, (la + 1) % IdxMod, hi, size) = Tail(Window(f, la, hi, size))
          /\ Head(Window(f, la, hi, size)) = f[la % size]
          /\ Window(f, la, hi, size) # << >>
      BY <2>1, <2>4, WindowShrink
    <2> QED
      BY <2>2, <2>3, <2>5
  <1>4. /\ Places(Tail(AvailSeq(q, la)), held \cup {d}, UsedSeq(q), filled, D)
        /\ Out(Tail(AvailSeq(q, la)), held \cup {d}, UsedSeq(q), filled)
             = Out(AvailSeq(q, la), held, UsedSeq(q), filled)
    <2> HIDE DEF D
    <2> QED
      BY <1>1, <1>3, MoveTake, SMTT(30)
  <1>5. d \in D
    <2>1. AvailSeq(q, la) \in Seq(D)
      BY <1>1 DEF Places
    <2> QED
      BY <1>3, <2>1, HeadTailProperties
  <1>6. OutOf(q, up, held \cup {d}, filled) = out
    BY <1>3, <1>4 DEF OutOf
  <1>7. QueueSound(q, up, held \cup {d}, filled, chain, size, Addrs)
    BY <1>1, <1>3, <1>4, <1>6 DEF QueueSound
  <1> QED
    BY <1>2, <1>3, <1>5, <1>6, <1>7 DEF Descs, TakeEffect

CompletedTo(r, q, id, len) ==
  /\ r.size = q.size /\ r.addr = q.addr /\ r.next = q.next
  /\ r.free_head = q.free_head /\ r.num_free = q.num_free
  /\ r.avail_ring = q.avail_ring /\ r.avail_idx = q.avail_idx
  /\ r.used_ring = [q.used_ring EXCEPT ![q.used_idx % q.size] = [id |-> id, len |-> len]]
  /\ r.used_idx = (q.used_idx + 1) % IdxMod /\ r.last_used_idx = q.last_used_idx

LEMMA CompletedRecord ==
  ASSUME NEW size, RingSize(size), NEW Addrs, NEW q \in Rings(size, Addrs),
         NEW id \in 0 .. (size - 1), NEW len \in Lens,
         NEW r, r = device_completes(q, id, len)
  PROVE  r \in Rings(size, Addrs) /\ CompletedTo(r, q, id, len)
  <1> DEFINE up == (q.used_idx + 1) % IdxMod
             ur == [q.used_ring EXCEPT ![q.used_idx % q.size] = [id |-> id, len |-> len]]
  <1>1. up \in IdxVals
    <2>1. q.used_idx \in IdxVals
      BY DEF Rings
    <2> QED
      BY <2>1, CountLemma
  <1>2. ur \in [0 .. (size - 1) -> [id : 0 .. (size - 1), len : Lens]]
    <2>1. q.used_ring \in [0 .. (size - 1) -> [id : 0 .. (size - 1), len : Lens]]
      BY DEF Rings
    <2> QED
      BY <2>1
  <1>3. r = [[q EXCEPT !.used_ring = ur] EXCEPT !.used_idx = up]
    BY DEF device_completes, Rings
  <1> HIDE DEF up, ur
  <1>4. r \in Rings(size, Addrs)
    BY <1>1, <1>2, <1>3 DEF Rings
  <1>5. CompletedTo(r, q, id, len)
    BY <1>3 DEF CompletedTo, Rings, up, ur
  <1> QED
    BY <1>4, <1>5

CompleteEffect(r, q, la, held, filled, chain, d, size, Addrs) ==
  /\ QueueSound(r, la, held \ {d}, filled, chain, size, Addrs)
  /\ OutOf(r, la, held \ {d}, filled) = OutOf(q, la, held, filled)
  /\ r.num_free = q.num_free /\ r.addr = q.addr
  /\ r.avail_ring = q.avail_ring /\ r.avail_idx = q.avail_idx
  /\ AvailSeq(r, la) = AvailSeq(q, la) /\ UsedSeq(r) = Append(UsedSeq(q), d)

(* Complete *)
LEMMA QueueComplete ==
  ASSUME NEW size, RingSize(size), NEW Addrs, NEW q, NEW la \in IdxVals, NEW held, NEW filled,
         NEW chain, QueueSound(q, la, held, filled, chain, size, Addrs),
         NEW d \in held, NEW len \in Lens, NEW r, r = device_completes(q, d, len)
  PROVE  CompleteEffect(r, q, la, held, filled, chain, d, size, Addrs)
  <1> DEFINE D == 0 .. (size - 1)
             out == OutOf(q, la, held, filled)
  <1>1. /\ q \in Rings(size, Addrs) /\ Places(AvailSeq(q, la), held, UsedSeq(q), filled, D)
        /\ Chained(q, chain, out)
    BY DEF QueueSound
  <1>2. d \in D
    BY <1>1 DEF Places
  <1>3. r \in Rings(size, Addrs) /\ CompletedTo(r, q, d, len)
    BY <1>1, <1>2, CompletedRecord
  <1>4. AvailSeq(r, la) = AvailSeq(q, la)
    BY <1>3, SameAvail DEF CompletedTo
  <1>5. q.size = size /\ r.size = size /\ q.last_used_idx \in IdxVals /\ q.used_idx \in IdxVals
    BY <1>1, <1>3 DEF Rings
  <1>6. Count(q.last_used_idx, q.used_idx) < size
    <2>1. Inj(UsedSeq(q)) /\ UsedSeq(q) \in Seq(D) /\ d \notin SeqElems(UsedSeq(q))
      BY <1>1 DEF Places, OnePlace, Inj
    <2> QED
      BY <1>1, <1>2, <2>1, RoomUsed
  <1>7. UsedSeq(r) = Append(UsedSeq(q), d)
    <2> DEFINE f == Ids(q)
               g == Ids(r)
               lo == q.last_used_idx
               hi == q.used_idx
    <2>1. /\ f \in [0 .. (size - 1) -> D] /\ g \in [0 .. (size - 1) -> D]
          /\ UsedSeq(q) = Window(f, lo, hi, size)
      <3>1. 0 \in IdxVals
        BY ConstLemma DEF IdxVals
      <3> QED
        BY <1>1, <1>3, <3>1, RingsAreWindows
    <2>2. UsedSeq(r) = Window(g, lo, (hi + 1) % IdxMod, size)
      <3>1. 0 \in IdxVals
        BY ConstLemma DEF IdxVals
      <3>2. UsedSeq(r) = Window(Ids(r), r.last_used_idx, r.used_idx, size)
        BY <1>3, <3>1, RingsAreWindows
      <3> QED
        BY <1>3, <3>2 DEF CompletedTo
    <2>3. Written(g, f, hi % size, d)
      <3> DEFINE x == hi % size
                 u == q.used_ring
                 e == [id |-> d, len |-> len]
      <3>1. r.used_ring = [u EXCEPT ![x] = e] /\ e.id = d
        BY <1>3, <1>5 DEF CompletedTo
      <3>2. DOMAIN u = 0 .. (size - 1)
        BY <1>1 DEF Rings
      <3>3. f = [n \in 0 .. (size - 1) |-> u[n].id] /\ g = [n \in 0 .. (size - 1) |-> r.used_ring[n].id]
        BY <1>5 DEF Ids
      <3> HIDE DEF f, g, x, u, e
      <3>4. \A n \in 0 .. (size - 1) : r.used_ring[n] = IF n = x THEN e ELSE u[n]
        BY <3>1, <3>2
      <3>5. \A n \in 0 .. (size - 1) : g[n] = IF n = x THEN d ELSE f[n]
        BY <3>1, <3>3, <3>4
      <3>6. g = [f EXCEPT ![x] = d]
        BY <3>3, <3>5
      <3> QED
        BY <3>6 DEF Written, x
    <2>4. lo \in IdxVals /\ hi \in IdxVals /\ Count(lo, hi) < size /\ DOMAIN f = 0 .. (size - 1)
      BY <1>5, <1>6, <2>1
    <2> HIDE DEF f, g, lo, hi, D
    <2>5. Window(g, lo, hi, size) = Window(f, lo, hi, size) /\ g[hi % size] = d
      BY <2>3, <2>4, WindowWrite
    <2>6. Window(g, lo, (hi + 1) % IdxMod, size) = Append(Window(g, lo, hi, size), g[hi % size])
      BY <2>1, <2>4, WindowGrow
    <2> QED
      BY <2>1, <2>2, <2>5, <2>6
  <1>8. /\ Places(AvailSeq(q, la), held \ {d}, Append(UsedSeq(q), d), filled, D)
        /\ Out(AvailSeq(q, la), held \ {d}, Append(UsedSeq(q), d), filled)
             = Out(AvailSeq(q, la), held, UsedSeq(q), filled)
    <2> HIDE DEF D
    <2> QED
      BY <1>1, MoveComplete
  <1>9. OutOf(r, la, held \ {d}, filled) = out
    BY <1>4, <1>7, <1>8 DEF OutOf
  <1>10. Chained(r, chain, out)
    <2> HIDE DEF out
    <2> QED
      BY <1>1, <1>3, SameChain DEF CompletedTo
  <1>11. QueueSound(r, la, held \ {d}, filled, chain, size, Addrs)
    BY <1>3, <1>4, <1>7, <1>8, <1>9, <1>10 DEF QueueSound
  <1> QED
    BY <1>3, <1>4, <1>7, <1>9, <1>11 DEF CompletedTo, CompleteEffect

PoppedTo(r, q, id) ==
  /\ r.size = q.size /\ r.addr = q.addr
  /\ r.next = [q.next EXCEPT ![id] = q.free_head]
  /\ r.free_head = id /\ r.num_free = q.num_free + 1
  /\ r.avail_ring = q.avail_ring /\ r.avail_idx = q.avail_idx
  /\ r.used_ring = q.used_ring /\ r.used_idx = q.used_idx
  /\ r.last_used_idx = (q.last_used_idx + 1) % IdxMod

LEMMA PoppedRecord ==
  ASSUME NEW size, RingSize(size), NEW Addrs, NEW q \in Rings(size, Addrs), q.num_free < size,
         NEW id \in 0 .. (size - 1), id = used_receipt(q).id,
         NEW r, r = virtqueue_pop_used(q)
  PROVE  r \in Rings(size, Addrs) /\ PoppedTo(r, q, id)
  <1> DEFINE up == (q.last_used_idx + 1) % IdxMod
             nx == [q.next EXCEPT ![id] = q.free_head]
             nf == q.num_free + 1
  <1>1. up \in IdxVals
    <2>1. q.last_used_idx \in IdxVals
      BY DEF Rings
    <2> QED
      BY <2>1, CountLemma
  <1>2. nx \in [0 .. (size - 1) -> 0 .. (size - 1) \cup {NoDesc}] /\ nf \in 0 .. size
    <2>1. /\ q.next \in [0 .. (size - 1) -> 0 .. (size - 1) \cup {NoDesc}]
          /\ q.free_head \in 0 .. (size - 1) \cup {NoDesc}
          /\ q.num_free \in 0 .. size /\ size \in Nat
      BY DEF Rings, RingSize
    <2> QED
      BY <2>1
  <1>3. r = [[[[q EXCEPT !.last_used_idx = up] EXCEPT !.next = nx] EXCEPT !.free_head = id]
               EXCEPT !.num_free = nf]
    BY DEF virtqueue_pop_used, Rings
  <1> HIDE DEF up, nx, nf
  <1>4. r \in Rings(size, Addrs)
    BY <1>1, <1>2, <1>3 DEF Rings
  <1>5. PoppedTo(r, q, id)
    BY <1>3 DEF PoppedTo, Rings, up, nx, nf
  <1> QED
    BY <1>4, <1>5

(* A descriptor that is out leaves room on the free list. *)
LEMMA RoomFree ==
  ASSUME NEW size \in Nat, NEW q, NEW chain, NEW out, FreeChain(q, chain, out, size),
         NEW x \in 0 .. (size - 1), x \in out
  PROVE  q.num_free < size
  <1> DEFINE nf == q.num_free
             D == 0 .. (size - 1)
  <1>1. nf \in Nat /\ chain \in [1 .. nf -> D]
    BY DEF FreeChain
  <1>2. \A m, n \in 1 .. nf : chain[m] = chain[n] => m = n
    BY DEF FreeChain
  <1>3. \A n \in 1 .. nf : chain[n] # x
    BY DEF FreeChain
  <1> HIDE DEF nf, D
  <1>4. chain \in Seq(D) /\ DOMAIN chain = 1 .. nf
    BY <1>1
  <1>5. Len(chain) = nf
    <2>1. Len(chain) \in Nat /\ DOMAIN chain = 1 .. Len(chain)
      BY <1>4
    <2> QED
      BY <1>1, <1>4, <2>1
  <1>6. Inj(chain) /\ x \notin SeqElems(chain)
    BY <1>2, <1>3, <1>4 DEF Inj, SeqElems
  <1>7. Len(chain) < size
    BY <1>4, <1>6, InjBound DEF D
  <1> QED
    BY <1>5, <1>7 DEF nf

ReclaimEffect(r, q, la, held, filled, chain, id, size, Addrs) ==
  /\ QueueSound(r, la, held, filled,
                [k \in 1 .. (q.num_free + 1) |-> IF k = 1 THEN id ELSE chain[k - 1]],
                size, Addrs)
  /\ OutOf(r, la, held, filled) = OutOf(q, la, held, filled) \ {id}
  /\ id \in OutOf(q, la, held, filled) /\ id \in 0 .. (size - 1)
  /\ r.num_free = q.num_free + 1 /\ r.addr = q.addr
  /\ r.avail_ring = q.avail_ring /\ r.avail_idx = q.avail_idx
  /\ AvailSeq(r, la) = AvailSeq(q, la)
  /\ UsedSeq(q) # << >> /\ Head(UsedSeq(q)) = id /\ UsedSeq(r) = Tail(UsedSeq(q))

(* Reclaim *)
LEMMA QueueReclaim ==
  ASSUME NEW size, RingSize(size), NEW Addrs, NEW q, NEW la \in IdxVals, NEW held, NEW filled,
         NEW chain, QueueSound(q, la, held, filled, chain, size, Addrs), has_used(q),
         NEW id, id = used_receipt(q).id, NEW r, r = virtqueue_pop_used(q)
  PROVE  ReclaimEffect(r, q, la, held, filled, chain, id, size, Addrs)
  <1> DEFINE D == 0 .. (size - 1)
             out == OutOf(q, la, held, filled)
             nf == q.num_free
             ext == [k \in 1 .. (nf + 1) |-> IF k = 1 THEN id ELSE chain[k - 1]]
  <1>1. q \in Rings(size, Addrs) /\ Places(AvailSeq(q, la), held, UsedSeq(q), filled, D)
    BY DEF QueueSound
  <1>2. q.size = size /\ size \in Nat \ {0} /\ FreeChain(q, chain, out, size)
    BY ChainFacts
  <1>3. /\ UsedSeq(q) = Window(Ids(q), q.last_used_idx, q.used_idx, size)
        /\ Ids(q) \in [0 .. (size - 1) -> D]
        /\ q.last_used_idx \in IdxVals /\ q.used_idx \in IdxVals
    <2>1. 0 \in IdxVals
      BY ConstLemma DEF IdxVals
    <2>2. q.last_used_idx \in IdxVals /\ q.used_idx \in IdxVals
      BY <1>1 DEF Rings
    <2> QED
      BY <1>1, <2>1, <2>2, RingsAreWindows
  <1>4. id = Ids(q)[q.last_used_idx % size]
    <2>1. q.last_used_idx % size \in 0 .. size - 1
      <3> DEFINE lo == q.last_used_idx
      <3>1. lo \in IdxVals
        BY <1>3
      <3> HIDE DEF lo
      <3>2. lo % size \in 0 .. size - 1
        <4>1. 1 \in Nat
          OBVIOUS
        <4> QED
          BY <3>1, <4>1, SlotLemma
      <3> QED
        BY <3>2 DEF lo
    <2> QED
      BY <1>2, <2>1 DEF Ids, used_receipt
  <1>5. /\ Window(Ids(q), (q.last_used_idx + 1) % IdxMod, q.used_idx, size) = Tail(UsedSeq(q))
        /\ UsedSeq(q) # << >> /\ Head(UsedSeq(q)) = id
    <2> DEFINE f == Ids(q)
               lo == q.last_used_idx
               hi == q.used_idx
    <2>1. lo # hi /\ lo \in IdxVals /\ hi \in IdxVals /\ f \in [0 .. (size - 1) -> D]
      BY <1>3 DEF has_used
    <2> HIDE DEF f, lo, hi, D
    <2>2. /\ Window(f, (lo + 1) % IdxMod, hi, size) = Tail(Window(f, lo, hi, size))
          /\ Head(Window(f, lo, hi, size)) = f[lo % size]
          /\ Window(f, lo, hi, size) # << >>
      BY <2>1, WindowShrink
    <2> QED
      BY <1>3, <1>4, <2>2 DEF f, lo, hi
  <1>6. /\ Places(AvailSeq(q, la), held, Tail(UsedSeq(q)), filled, D)
        /\ id \in D
        /\ Out(AvailSeq(q, la), held, Tail(UsedSeq(q)), filled) = out \ {id}
        /\ id \in out
    <2> DEFINE us == UsedSeq(q)
               av == AvailSeq(q, la)
    <2>1. Places(av, held, us, filled, D) /\ us # << >> /\ Head(us) = id
      BY <1>1, <1>5
    <2> HIDE DEF D, us, av
    <2>2. /\ Places(av, held, Tail(us), filled, D)
          /\ Head(us) \in D
          /\ Out(av, held, Tail(us), filled) = Out(av, held, us, filled) \ {Head(us)}
          /\ Head(us) \in Out(av, held, us, filled)
      BY <2>1, MoveReclaim
    <2> QED
      BY <2>1, <2>2 DEF OutOf, us, av
  <1>7. nf < size
    <2> HIDE DEF out
    <2> QED
      BY <1>2, <1>6, RoomFree
  <1>8. r \in Rings(size, Addrs) /\ PoppedTo(r, q, id)
    BY <1>1, <1>6, <1>7, PoppedRecord
  <1>9. AvailSeq(r, la) = AvailSeq(q, la)
    BY <1>8, SameAvail DEF PoppedTo
  <1>10. UsedSeq(r) = Tail(UsedSeq(q))
    <2>1. 0 \in IdxVals
      BY ConstLemma DEF IdxVals
    <2>2. UsedSeq(r) = Window(Ids(r), r.last_used_idx, r.used_idx, size)
      BY <1>8, <2>1, RingsAreWindows
    <2>3. Ids(r) = Ids(q)
      BY <1>8 DEF PoppedTo, Ids
    <2> QED
      BY <1>5, <1>8, <2>2, <2>3 DEF PoppedTo
  <1>11. OutOf(r, la, held, filled) = out \ {id}
    BY <1>6, <1>9, <1>10 DEF OutOf
  <1> HIDE DEF out
  <1>12. Chained(r, ext, out \ {id})
    <2>0. /\ nf \in 0 .. size /\ chain \in [1 .. nf -> D]
          /\ \A m, n \in 1 .. nf : chain[m] = chain[n] => m = n
          /\ nf > 0 => chain[1] = q.free_head
          /\ \A n \in 1 .. (nf - 1) : q.next[chain[n]] = chain[n + 1]
          /\ \A x \in D : x \notin out <=> \E n \in 1 .. nf : x = chain[n]
          /\ \A n \in 1 .. nf : chain[n] \notin out
      BY <1>2 DEF FreeChain
    <2>1. r.num_free = nf + 1 /\ r.free_head = id /\ r.next = [q.next EXCEPT ![id] = q.free_head]
      BY <1>8 DEF PoppedTo
    <2> HIDE DEF nf
    <2>2. /\ ext[1] = id /\ DOMAIN ext = 1 .. (nf + 1)
          /\ \A n \in 1 .. nf : n + 1 \in 1 .. (nf + 1) /\ ext[n + 1] = chain[n]
      <3>1. 1 \in 1 .. (nf + 1) /\ \A n \in 1 .. nf : n + 1 \in 1 .. (nf + 1) /\ n + 1 # 1 /\ (n + 1) - 1 = n
        BY <2>0
      <3> QED
        BY <3>1
    <2> HIDE DEF ext
    <2>3. \A k \in 1 .. (nf + 1) : k = 1 \/ \E n \in 1 .. nf : k = n + 1
      <3> TAKE k \in 1 .. (nf + 1)
      <3> SUFFICES ASSUME k # 1 PROVE \E n \in 1 .. nf : k = n + 1
        OBVIOUS
      <3>1. k - 1 \in 1 .. nf /\ k = (k - 1) + 1
        BY <2>0
      <3> QED
        BY <3>1
    <2>4. \A n \in 1 .. nf : chain[n] # id /\ chain[n] \in D
      BY <1>6, <2>0
    <2>5. ext \in [1 .. (nf + 1) -> D]
      <3>1. \A k \in 1 .. (nf + 1) : ext[k] \in D
        BY <1>6, <2>2, <2>3, <2>4
      <3>2. ext = [k \in 1 .. (nf + 1) |-> ext[k]]
        BY <2>2 DEF ext
      <3> QED
        BY <3>1, <3>2
    <2>6. \A m, n \in 1 .. (nf + 1) : ext[m] = ext[n] => m = n
      <3> SUFFICES ASSUME NEW m \in 1 .. (nf + 1), NEW n \in 1 .. (nf + 1), ext[m] = ext[n]
                   PROVE  m = n
        OBVIOUS
      <3>1. CASE m = 1 /\ n = 1
        BY <3>1
      <3>2. CASE m = 1 /\ \E b \in 1 .. nf : n = b + 1
        BY <2>2, <2>4, <3>2
      <3>3. CASE n = 1 /\ \E a \in 1 .. nf : m = a + 1
        BY <2>2, <2>4, <3>3
      <3>4. CASE (\E a \in 1 .. nf : m = a + 1) /\ (\E b \in 1 .. nf : n = b + 1)
        <4>1. PICK a \in 1 .. nf : m = a + 1
          BY <3>4
        <4>2. PICK b \in 1 .. nf : n = b + 1
          BY <3>4
        <4>3. chain[a] = chain[b]
          BY <2>2, <4>1, <4>2
        <4>4. a = b
          BY <2>0, <4>3
        <4> QED
          BY <4>1, <4>2, <4>4
      <3> QED
        BY <2>3, <3>1, <3>2, <3>3, <3>4
    <2>7. q.next \in [D -> D \cup {NoDesc}]
      BY <1>1 DEF Rings
    <2>8. \A n \in 1 .. nf : r.next[ext[n]] = ext[n + 1]
      <3> TAKE n \in 1 .. nf
      <3>1. CASE n = 1
        <4>1. r.next[id] = q.free_head
          BY <1>6, <2>1, <2>7
        <4>2. q.free_head = chain[1] /\ ext[1 + 1] = chain[1]
          BY <2>0, <2>2, <3>1
        <4> QED
          BY <2>2, <3>1, <4>1, <4>2
      <3>2. CASE n # 1
        <4> DEFINE m == n - 1
        <4>1. m \in 1 .. (nf - 1) /\ m \in 1 .. nf /\ m + 1 = n
          BY <2>0, <3>2
        <4> HIDE DEF m
        <4>2. ext[n] = chain[m] /\ ext[n + 1] = chain[n]
          BY <2>2, <4>1
        <4>3. q.next[chain[m]] = chain[n]
          BY <2>0, <4>1
        <4>4. r.next[chain[m]] = q.next[chain[m]]
          BY <2>1, <2>4, <2>7, <4>1
        <4> QED
          BY <4>2, <4>3, <4>4
      <3> QED
        BY <3>1, <3>2
    <2>9. \A x \in D : x \notin out \ {id} <=> \E n \in 1 .. (nf + 1) : x = ext[n]
      <3> TAKE x \in D
      <3>1. ASSUME x \notin out \ {id} PROVE \E n \in 1 .. (nf + 1) : x = ext[n]
        <4>1. CASE x = id
          <5>1. 1 \in 1 .. (nf + 1)
            BY <2>0
          <5> QED
            BY <2>2, <4>1, <5>1
        <4>2. CASE x \notin out
          <5>1. PICK n \in 1 .. nf : x = chain[n]
            BY <2>0, <4>2
          <5> QED
            BY <2>2, <5>1
        <4> QED
          BY <3>1, <4>1, <4>2
      <3>2. ASSUME NEW k \in 1 .. (nf + 1), x = ext[k] PROVE x \notin out \ {id}
        <4>1. CASE k = 1
          BY <2>2, <3>2, <4>1
        <4>2. CASE \E n \in 1 .. nf : k = n + 1
          <5>1. PICK n \in 1 .. nf : k = n + 1
            BY <4>2
          <5>2. x = chain[n]
            BY <2>2, <3>2, <5>1
          <5>3. chain[n] \notin out
            BY <2>0
          <5> QED
            BY <5>2, <5>3
        <4> QED
          BY <2>3, <4>1, <4>2
      <3> QED
        BY <3>1, <3>2
    <2>10. \A n \in 1 .. (nf + 1) : ext[n] \notin out \ {id}
      BY <2>5, <2>9
    <2>11. FreeChain(r, ext, out \ {id}, size)
      <3>1. nf + 1 \in 0 .. size /\ (nf + 1) - 1 = nf
        BY <1>2, <1>7, <2>0 DEF nf
      <3> QED
        BY <2>1, <2>2, <2>5, <2>6, <2>8, <2>9, <2>10, <3>1 DEF FreeChain
    <2> QED
      BY <1>8, <2>11, ChainIntro
  <1>13. QueueSound(r, la, held, filled, ext, size, Addrs)
    BY <1>6, <1>8, <1>9, <1>10, <1>11, <1>12 DEF QueueSound
  <1> QED
    BY <1>5, <1>6, <1>8, <1>9, <1>10, <1>11, <1>13 DEF PoppedTo, out, ReclaimEffect

-----------------------------------------------------------------------------
(* What holds without any assumption: control, the sizes of the queues,    *)
(* the device's own state.                                                 *)
Sized(q, size) == "size" \in DOMAIN q /\ q.size = size

Devices ==
  [rx : [last : IdxVals, held : SUBSET (0 .. (RxSize - 1))],
   tx : [last : IdxVals, held : SUBSET (0 .. (TxSize - 1))]]

Shape ==
  /\ pc \in {"fill", "fill_idx", "fill_slot", "poll", "handle", "tx_idx",
             "refill", "refill_idx", "reap"}
  /\ i \in 0 .. RxSize /\ replies \in 0 .. MaxReplies
  /\ pc \in {"fill_idx", "fill_slot"} => i < RxSize
  /\ heap \subseteq Buffers
  /\ broken \in BOOLEAN /\ overflowed \in BOOLEAN
  /\ Sized(rx, RxSize) /\ Sized(tx, TxSize)
  /\ dev \in Devices

LEMMA SizeKept ==
  ASSUME NEW q, NEW size, Sized(q, size)
  PROVE  /\ \A b : Sized(Added(q, b), size)
         /\ \A b : Sized(virtqueue_add_descriptor(q, b), size)
         /\ \A x, e : Sized([q EXCEPT !.avail_ring[x] = e], size)
         /\ Sized(publish_avail_idx(q), size)
         /\ Sized(virtqueue_pop_used(q), size)
         /\ \A id, len : Sized(device_completes(q, id, len), size)
  <1>1. ASSUME NEW p, Sized(p, size), NEW x, NEW e
        PROVE  Sized([p EXCEPT !.avail_ring[x] = e], size)
    BY <1>1 DEF Sized
  <1>2. ASSUME NEW b PROVE Sized(virtqueue_add_descriptor(q, b), size)
    <2>1. CASE q.num_free = 0
      BY <2>1 DEF virtqueue_add_descriptor
    <2>2. CASE q.num_free # 0
      BY <2>2 DEF virtqueue_add_descriptor, Sized
    <2> QED
      BY <2>1, <2>2
  <1>3. ASSUME NEW b PROVE Sized(Added(q, b), size)
    BY <1>1, <1>2 DEF Added, write_avail_slot
  <1>4. Sized(publish_avail_idx(q), size)
    BY DEF publish_avail_idx, Sized
  <1>5. Sized(virtqueue_pop_used(q), size)
    BY DEF virtqueue_pop_used, Sized
  <1>6. ASSUME NEW id, NEW len PROVE Sized(device_completes(q, id, len), size)
    BY DEF device_completes, Sized
  <1> QED
    BY <1>1, <1>2, <1>3, <1>4, <1>5, <1>6

LEMMA ShapeInit == Init => Shape
  <1> SUFFICES ASSUME Init PROVE Shape
    OBVIOUS
  <1>1. 0 \in IdxVals /\ 0 \in 0 .. RxSize /\ 0 \in 0 .. MaxReplies
    BY ConstLemma DEF IdxVals, RingSize
  <1>2. Sized(rx, RxSize) /\ Sized(tx, TxSize)
    BY DEF Init, virtqueue_init, Sized
  <1>3. dev \in Devices
    BY <1>1 DEF Init, Devices
  <1> QED
    BY <1>1, <1>2, <1>3 DEF Init, Shape

LEMMA ShapeStep == Shape /\ [Next]_vars => Shape'
  <1> SUFFICES ASSUME Shape, [Next]_vars PROVE Shape'
    OBVIOUS
  <1>0. RxSize \in Nat \ {0} /\ TxSize \in Nat \ {0} /\ MaxReplies \in Nat
    BY ConstLemma DEF RingSize
  <1> USE DEF Shape
  <1>1. CASE FillSlot
    <2>1. Sized(rx', RxSize)
      BY <1>1, SizeKept DEF FillSlot, Filled, Added
    <2> QED
      BY <1>1, <2>1 DEF FillSlot
  <1>2. CASE FillIdx
    <2>1. Sized(rx', RxSize)
      BY <1>2, SizeKept DEF FillIdx
    <2>2. i + 1 \in 0 .. RxSize
      BY <1>0, <1>2 DEF FillIdx
    <2> QED
      BY <1>2, <2>1, <2>2 DEF FillIdx
  <1>3. CASE FillIdxFirst
    <2>1. Sized(Filled, RxSize)
      BY SizeKept DEF Filled
    <2>2. Sized(rx', RxSize)
      BY <1>3, <2>1, SizeKept DEF FillIdxFirst
    <2> QED
      BY <1>3, <2>2 DEF FillIdxFirst
  <1>4. CASE FillSlotLate
    <2>1. Sized(rx', RxSize)
      BY <1>4, SizeKept DEF FillSlotLate
    <2>2. i + 1 \in 0 .. RxSize
      BY <1>0, <1>4 DEF FillSlotLate
    <2> QED
      BY <1>4, <2>1, <2>2 DEF FillSlotLate
  <1>5. CASE FillDone \/ PollNothing \/ HandleDone \/ ReapDone
    BY <1>5 DEF FillDone, PollNothing, HandleDone, ReapDone
  <1>6. CASE PollReceive
    <2>1. Sized(rx', RxSize)
      BY <1>6, SizeKept DEF PollReceive
    <2>2. pc' \in {"refill", "handle"} /\ 0 \in 0 .. MaxReplies
      BY <1>0, <1>6 DEF PollReceive
    <2> QED
      BY <1>6, <2>1, <2>2 DEF PollReceive
  <1>7. ASSUME NEW b \in Buffers \ heap, ethernet_send(b) PROVE Shape'
    <2>1. Sized(tx', TxSize)
      BY <1>7, SizeKept DEF ethernet_send, Added
    <2>2. replies + 1 \in 0 .. MaxReplies
      BY <1>0, <1>7 DEF ethernet_send
    <2>3. overflowed' \in BOOLEAN
      BY <1>7 DEF ethernet_send
    <2> QED
      BY <1>7, <2>1, <2>2, <2>3 DEF ethernet_send
  <1>8. CASE SendPublish
    <2>1. Sized(tx', TxSize)
      BY <1>8, SizeKept DEF SendPublish
    <2> QED
      BY <1>8, <2>1 DEF SendPublish
  <1>9. CASE Refill
    <2>1. Sized(rx', RxSize)
      BY <1>9, SizeKept DEF Refill, Added
    <2> QED
      BY <1>9, <2>1 DEF Refill
  <1>10. CASE RefillPublish
    <2>1. Sized(rx', RxSize)
      BY <1>10, SizeKept DEF RefillPublish
    <2>2. 0 \in 0 .. MaxReplies
      BY <1>0
    <2> QED
      BY <1>10, <2>1, <2>2 DEF RefillPublish
  <1>11. CASE Reap
    <2>1. Sized(tx', TxSize)
      BY <1>11, SizeKept DEF Reap
    <2> QED
      BY <1>11, <2>1 DEF Reap
  <1>12. CASE DeviceTakesRx
    <2>1. dev' \in Devices /\ broken' \in BOOLEAN
      <3>1. CASE device_reads(rx, dev.rx.last) \in Descs(rx)
        <4> DEFINE up == (dev.rx.last + 1) % IdxMod
                   d == device_reads(rx, dev.rx.last)
        <4>1. up \in IdxVals /\ d \in 0 .. (RxSize - 1)
          <5>1. dev.rx.last \in IdxVals
            BY DEF Devices
          <5> QED
            BY <3>1, <5>1, CountLemma DEF Descs, Sized
        <4>2. dev' = [dev EXCEPT !.rx.last = up, !.rx.held = @ \cup {d}] /\ broken' = broken
          BY <1>12, <3>1 DEF DeviceTakesRx
        <4> HIDE DEF up, d
        <4> QED
          BY <4>1, <4>2 DEF Devices
      <3>2. CASE device_reads(rx, dev.rx.last) \notin Descs(rx)
        BY <1>12, <3>2 DEF DeviceTakesRx
      <3> QED
        BY <3>1, <3>2
    <2> QED
      BY <1>12, <2>1 DEF DeviceTakesRx, driver
  <1>13. CASE DeviceTakesTx
    <2>1. dev' \in Devices /\ broken' \in BOOLEAN
      <3>1. CASE device_reads(tx, dev.tx.last) \in Descs(tx)
        <4> DEFINE up == (dev.tx.last + 1) % IdxMod
                   d == device_reads(tx, dev.tx.last)
        <4>1. up \in IdxVals /\ d \in 0 .. (TxSize - 1)
          <5>1. dev.tx.last \in IdxVals
            BY DEF Devices
          <5> QED
            BY <3>1, <5>1, CountLemma DEF Descs, Sized
        <4>2. dev' = [dev EXCEPT !.tx.last = up, !.tx.held = @ \cup {d}] /\ broken' = broken
          BY <1>13, <3>1 DEF DeviceTakesTx
        <4> HIDE DEF up, d
        <4> QED
          BY <4>1, <4>2 DEF Devices
      <3>2. CASE device_reads(tx, dev.tx.last) \notin Descs(tx)
        BY <1>13, <3>2 DEF DeviceTakesTx
      <3> QED
        BY <3>1, <3>2
    <2> QED
      BY <1>13, <2>1 DEF DeviceTakesTx, driver
  <1>14. ASSUME NEW id \in Descs(rx), NEW len \in Lens, DeviceReceives(id, len) PROVE Shape'
    <2>1. Sized(rx', RxSize)
      BY <1>14, SizeKept DEF DeviceReceives
    <2>2. dev' \in Devices
      BY <1>14 DEF DeviceReceives, Devices
    <2> QED
      BY <1>14, <2>1, <2>2 DEF DeviceReceives, driver
  <1>15. ASSUME NEW id \in Descs(tx), DeviceSends(id) PROVE Shape'
    <2>1. Sized(tx', TxSize)
      BY <1>15, SizeKept DEF DeviceSends
    <2>2. dev' \in Devices
      BY <1>15 DEF DeviceSends, Devices
    <2> QED
      BY <1>15, <2>1, <2>2 DEF DeviceSends, driver
  <1>16. CASE UNCHANGED vars
    BY <1>16 DEF vars
  <1> QED
    BY <1>1, <1>2, <1>3, <1>4, <1>5, <1>6, <1>7, <1>8, <1>9, <1>10, <1>11, <1>12, <1>13,
       <1>14, <1>15, <1>16 DEF Next, Driver

-----------------------------------------------------------------------------
(* The TX queue.  Until 0xFFFF is published it is sound, and the heap      *)
(* buffers are those of the descriptors that are out, each in one.         *)
Sending(p, q) == IF p = "tx_idx" THEN {q.avail_ring[q.avail_idx % TxSize]} ELSE {}

Exact(q, out, h) ==
  /\ h = {q.addr[n] : n \in out}
  /\ \A m, n \in out : q.addr[m] = q.addr[n] => m = n

TxSound(p, q, la, held, h) ==
  /\ la \in IdxVals
  /\ \E chain \in [1 .. q.num_free -> 0 .. (TxSize - 1)] :
       QueueSound(q, la, held, Sending(p, q), chain, TxSize, Buffers)
  /\ Exact(q, OutOf(q, la, held, Sending(p, q)), h)

TxInv == ~overflowed => TxSound(pc, tx, dev.tx.last, dev.tx.held, heap)

LEMMA ChainBound ==
  ASSUME NEW size, RingSize(size), NEW Addrs, NEW q, NEW la, NEW held, NEW filled, NEW chain,
         QueueSound(q, la, held, filled, chain, size, Addrs)
  PROVE  chain \in [1 .. q.num_free -> 0 .. (size - 1)]
  <1>1. FreeChain(q, chain, OutOf(q, la, held, filled), size)
    BY ChainFacts
  <1> QED
    BY <1>1 DEF FreeChain

LEMMA OutInD ==
  ASSUME NEW size, RingSize(size), NEW Addrs, NEW q, NEW la, NEW held, NEW filled, NEW chain,
         QueueSound(q, la, held, filled, chain, size, Addrs)
  PROVE  OutOf(q, la, held, filled) \subseteq 0 .. (size - 1)
  <1> DEFINE D == 0 .. (size - 1)
             av == AvailSeq(q, la)
             us == UsedSeq(q)
  <1>1. Places(av, held, us, filled, D)
    BY DEF QueueSound
  <1> HIDE DEF D, av, us
  <1>2. av \in Seq(D) /\ us \in Seq(D) /\ held \subseteq D /\ filled \subseteq D
    BY <1>1 DEF Places
  <1>3. SeqElems(av) \subseteq D /\ SeqElems(us) \subseteq D
    BY <1>2 DEF SeqElems
  <1> QED
    BY <1>2, <1>3 DEF OutOf, Out, D, av, us

LEMMA TxSend ==
  ASSUME NEW q, NEW la, NEW held, NEW h, TxSound("handle", q, la, held, h),
         q.num_free # 0, NEW b \in Buffers \ h, NEW r, r = Added(q, b)
  PROVE  TxSound("tx_idx", r, la, held, h \cup {b}) /\ added_head(q) # NoDesc
  <1>1. RingSize(TxSize)
    BY ConstLemma
  <1>2. PICK chain : QueueSound(q, la, held, {}, chain, TxSize, Buffers)
    BY DEF TxSound, Sending
  <1>3. q.num_free > 0 /\ la \in IdxVals /\ q \in Rings(TxSize, Buffers)
    <2>1. q \in Rings(TxSize, Buffers)
      BY <1>2 DEF QueueSound
    <2>2. q.num_free \in 0 .. TxSize /\ TxSize \in Nat
      BY <1>1, <2>1 DEF Rings, RingSize
    <2> QED
      BY <2>1, <2>2 DEF TxSound
  <1> DEFINE d == q.free_head
             tl == [k \in 1 .. (q.num_free - 1) |-> chain[k + 1]]
             out == OutOf(q, la, held, {})
  <1> HIDE DEF d
  <1>4. /\ QueueSound(r, la, held, {d}, tl, TxSize, Buffers)
        /\ d \in 0 .. (TxSize - 1) /\ d \notin out
        /\ OutOf(r, la, held, {d}) = out \cup {d}
        /\ r.avail_ring[r.avail_idx % TxSize] = d
        /\ r.addr = [q.addr EXCEPT ![d] = b]
    <2>1. FillEffect(r, q, la, held, chain, d, b, TxSize, Buffers)
      BY <1>1, <1>2, <1>3, QueueFill DEF d
    <2> QED
      BY <2>1 DEF FillEffect
  <1> HIDE DEF tl, out
  <1>5. Sending("tx_idx", r) = {d} /\ Sending("handle", q) = {}
    BY <1>4 DEF Sending
  <1>6. tl \in [1 .. r.num_free -> 0 .. (TxSize - 1)]
    BY <1>1, <1>4, ChainBound
  <1>7. Exact(q, out, h)
    BY <1>5 DEF TxSound, out
  <1>8. out \subseteq 0 .. (TxSize - 1) /\ q.addr \in [0 .. (TxSize - 1) -> Buffers \cup {NULL}]
    <2>1. OutOf(q, la, held, {}) \subseteq 0 .. (TxSize - 1)
      BY <1>1, <1>2, OutInD
    <2> QED
      BY <1>3, <2>1 DEF out, Rings
  <1>9. Exact(r, out \cup {d}, h \cup {b})
    <2>1. r.addr[d] = b /\ \A n \in out : r.addr[n] = q.addr[n] /\ q.addr[n] \in h
      BY <1>4, <1>7, <1>8 DEF Exact
    <2>2. {r.addr[n] : n \in out} = {q.addr[n] : n \in out}
      BY <2>1
    <2>3. h \cup {b} = {r.addr[n] : n \in out \cup {d}}
      BY <1>7, <2>1, <2>2 DEF Exact
    <2>4. \A m, n \in out : r.addr[m] = r.addr[n] => m = n
      BY <1>7, <2>1 DEF Exact
    <2>5. \A n \in out : r.addr[n] # r.addr[d]
      BY <2>1
    <2>6. \A m, n \in out \cup {d} : r.addr[m] = r.addr[n] => m = n
      BY <2>4, <2>5
    <2> QED
      BY <2>3, <2>6 DEF Exact
  <1>10. TxSound("tx_idx", r, la, held, h \cup {b})
    BY <1>3, <1>4, <1>5, <1>6, <1>9 DEF TxSound
  <1>11. added_head(q) = d /\ d # NoDesc
    <2>1. NoDesc \notin 0 .. (TxSize - 1)
      BY <1>1, ConstLemma DEF NoDesc, RingSize
    <2> QED
      BY <1>3, <1>4, <2>1 DEF added_head, d
  <1> QED
    BY <1>10, <1>11

LEMMA TxPublish ==
  ASSUME NEW q, NEW la, NEW held, NEW h, TxSound("tx_idx", q, la, held, h),
         NEW r, r = publish_avail_idx(q)
  PROVE  TxSound("handle", r, la, held, h)
  <1>1. RingSize(TxSize) /\ la \in IdxVals
    BY ConstLemma DEF TxSound
  <1> DEFINE d == q.avail_ring[q.avail_idx % TxSize]
  <1>2. Sending("tx_idx", q) = {d} /\ Sending("handle", r) = {}
    BY DEF Sending
  <1>3. PICK chain : QueueSound(q, la, held, {d}, chain, TxSize, Buffers)
    BY <1>2 DEF TxSound
  <1>4. Exact(q, OutOf(q, la, held, {d}), h)
    BY <1>2 DEF TxSound
  <1> DEFINE e == d
  <1>5. e = q.avail_ring[q.avail_idx % TxSize] /\ e = d
    OBVIOUS
  <1> HIDE DEF e
  <1>6. QueueSound(q, la, held, {e}, chain, TxSize, Buffers) /\ Exact(q, OutOf(q, la, held, {e}), h)
    BY <1>3, <1>4, <1>5
  <1>7. /\ QueueSound(r, la, held, {}, chain, TxSize, Buffers)
        /\ OutOf(r, la, held, {}) = OutOf(q, la, held, {e})
        /\ r.addr = q.addr
    <2>1. PublishEffect(r, q, la, held, chain, e, TxSize, Buffers)
      BY <1>1, <1>5, <1>6, QueuePublish
    <2> QED
      BY <2>1 DEF PublishEffect
  <1>8. chain \in [1 .. r.num_free -> 0 .. (TxSize - 1)]
    BY <1>1, <1>7, ChainBound
  <1>9. Exact(r, OutOf(r, la, held, {}), h)
    BY <1>6, <1>7 DEF Exact
  <1> QED
    BY <1>1, <1>2, <1>7, <1>8, <1>9 DEF TxSound

LEMMA TxReap ==
  ASSUME NEW q, NEW la, NEW held, NEW h, TxSound("reap", q, la, held, h), has_used(q),
         NEW r, r = virtqueue_pop_used(q)
  PROVE  TxSound("reap", r, la, held, h \ {q.addr[used_receipt(q).id]})
  <1>1. RingSize(TxSize) /\ la \in IdxVals
    BY ConstLemma DEF TxSound
  <1> DEFINE id == used_receipt(q).id
             out == OutOf(q, la, held, {})
  <1>2. Sending("reap", q) = {} /\ Sending("reap", r) = {}
    BY DEF Sending
  <1>3. PICK chain : QueueSound(q, la, held, {}, chain, TxSize, Buffers)
    BY <1>2 DEF TxSound
  <1>4. Exact(q, out, h)
    BY <1>2 DEF TxSound
  <1> DEFINE ext == [k \in 1 .. (q.num_free + 1) |-> IF k = 1 THEN id ELSE chain[k - 1]]
  <1> HIDE DEF id
  <1>5. /\ QueueSound(r, la, held, {}, ext, TxSize, Buffers)
        /\ OutOf(r, la, held, {}) = out \ {id}
        /\ id \in out /\ r.addr = q.addr
    <2>1. ReclaimEffect(r, q, la, held, {}, chain, id, TxSize, Buffers)
      BY <1>1, <1>3, QueueReclaim DEF id
    <2> QED
      BY <2>1 DEF ReclaimEffect
  <1> HIDE DEF ext, out
  <1>6. ext \in [1 .. r.num_free -> 0 .. (TxSize - 1)]
    BY <1>1, <1>5, ChainBound
  <1>7. Exact(r, out \ {id}, h \ {q.addr[id]})
    BY <1>4, <1>5 DEF Exact
  <1> QED
    BY <1>1, <1>2, <1>5, <1>6, <1>7 DEF TxSound, id

LEMMA TxTake ==
  ASSUME NEW p, NEW q, NEW la, NEW held, NEW h, TxSound(p, q, la, held, h),
         avail_pending(q, la) > 0
  PROVE  TxSound(p, q, (la + 1) % IdxMod, held \cup {device_reads(q, la)}, h)
  <1>1. RingSize(TxSize) /\ la \in IdxVals
    BY ConstLemma DEF TxSound
  <1> DEFINE d == device_reads(q, la)
             up == (la + 1) % IdxMod
             f == Sending(p, q)
  <1>2. PICK chain : QueueSound(q, la, held, f, chain, TxSize, Buffers)
    BY DEF TxSound
  <1>3. Exact(q, OutOf(q, la, held, f), h)
    BY DEF TxSound
  <1>4. d = device_reads(q, la) /\ up = (la + 1) % IdxMod
    OBVIOUS
  <1> HIDE DEF d, up, f
  <1>5. /\ QueueSound(q, up, held \cup {d}, f, chain, TxSize, Buffers)
        /\ OutOf(q, up, held \cup {d}, f) = OutOf(q, la, held, f)
        /\ up \in IdxVals
    <2>1. TakeEffect(q, la, held, f, chain, d, up, TxSize, Buffers)
      BY <1>1, <1>2, <1>4, QueueTake
    <2> QED
      BY <2>1 DEF TakeEffect
  <1>6. chain \in [1 .. q.num_free -> 0 .. (TxSize - 1)]
    BY <1>1, <1>5, ChainBound
  <1>7. TxSound(p, q, up, held \cup {d}, h)
    BY <1>3, <1>5, <1>6 DEF TxSound, f
  <1> QED
    BY <1>7 DEF d, up

LEMMA TxComplete ==
  ASSUME NEW p, NEW q, NEW la, NEW held, NEW h, TxSound(p, q, la, held, h),
         NEW id \in held, NEW r, r = device_completes(q, id, 0)
  PROVE  TxSound(p, r, la, held \ {id}, h)
  <1>1. RingSize(TxSize) /\ la \in IdxVals /\ 0 \in Lens
    BY ConstLemma DEF TxSound, Lens
  <1> DEFINE f == Sending(p, q)
  <1>2. PICK chain : QueueSound(q, la, held, f, chain, TxSize, Buffers)
    BY DEF TxSound
  <1>3. Exact(q, OutOf(q, la, held, f), h)
    BY DEF TxSound
  <1> HIDE DEF f
  <1>4. /\ QueueSound(r, la, held \ {id}, f, chain, TxSize, Buffers)
        /\ OutOf(r, la, held \ {id}, f) = OutOf(q, la, held, f)
        /\ r.addr = q.addr /\ r.avail_ring = q.avail_ring /\ r.avail_idx = q.avail_idx
    <2>1. CompleteEffect(r, q, la, held, f, chain, id, TxSize, Buffers)
      BY <1>1, <1>2, QueueComplete
    <2> QED
      BY <2>1 DEF CompleteEffect
  <1>5. Sending(p, r) = f
    BY <1>4 DEF Sending, f
  <1>6. chain \in [1 .. r.num_free -> 0 .. (TxSize - 1)]
    BY <1>1, <1>4, ChainBound
  <1>7. Exact(r, OutOf(q, la, held, f), h)
    BY <1>3, <1>4 DEF Exact
  <1> QED
    BY <1>1, <1>4, <1>5, <1>6, <1>7 DEF TxSound

(* virtqueue_init *)
LEMMA QueueInit ==
  ASSUME NEW size, RingSize(size), NEW Addrs, NEW q, q = virtqueue_init(size)
  PROVE  /\ QueueSound(q, 0, {}, {}, [k \in 1 .. size |-> k - 1], size, Addrs)
         /\ OutOf(q, 0, {}, {}) = {}
         /\ AvailSeq(q, 0) = << >> /\ UsedSeq(q) = << >>
         /\ q.num_free = size /\ q.size = size
  <1>1. size \in Nat \ {0} /\ size < IdxMod /\ IdxMod \in Nat /\ 0 \in IdxVals
    BY ConstLemma DEF RingSize, IdxVals
  <1>2. q \in Rings(size, Addrs)
    <2> DEFINE ad == [n \in 0 .. (size - 1) |-> NULL]
               nx == [n \in 0 .. (size - 1) |-> IF n = size - 1 THEN NoDesc ELSE n + 1]
               ar == [n \in 0 .. (size - 1) |-> 0]
               ur == [n \in 0 .. (size - 1) |-> [id |-> 0, len |-> 0]]
    <2>1. 0 \in 0 .. (size - 1) /\ 0 \in Lens /\ size \in 0 .. size
      BY <1>1 DEF Lens
    <2>2. nx \in [0 .. (size - 1) -> 0 .. (size - 1) \cup {NoDesc}]
      BY <1>1
    <2>3. /\ ad \in [0 .. (size - 1) -> Addrs \cup {NULL}]
          /\ ar \in [0 .. (size - 1) -> 0 .. (size - 1) \cup {NoDesc}]
          /\ ur \in [0 .. (size - 1) -> [id : 0 .. (size - 1), len : Lens]]
      BY <2>1
    <2>4. q = [size |-> size, addr |-> ad, next |-> nx, free_head |-> 0, num_free |-> size,
               avail_ring |-> ar, avail_idx |-> 0, used_ring |-> ur, used_idx |-> 0,
               last_used_idx |-> 0]
      BY DEF virtqueue_init
    <2> HIDE DEF ad, nx, ar, ur
    <2>5. q \in Rings(size, Addrs)
      <3> DEFINE z == 0
                 nf == size
      <3>1. z \in 0 .. (size - 1) \cup {NoDesc} /\ z \in IdxVals /\ nf \in 0 .. size
        BY <1>1, <2>1
      <3>2. q = [size |-> size, addr |-> ad, next |-> nx, free_head |-> z, num_free |-> nf,
                 avail_ring |-> ar, avail_idx |-> z, used_ring |-> ur, used_idx |-> z,
                 last_used_idx |-> z]
        BY <2>4
      <3> HIDE DEF z, nf
      <3> QED
        BY <2>2, <2>3, <3>1, <3>2 DEF Rings
    <2> QED
      BY <2>5
  <1>3. /\ q.num_free = size /\ q.free_head = 0 /\ q.avail_idx = 0 /\ q.size = size
        /\ q.used_idx = 0 /\ q.last_used_idx = 0
        /\ \A n \in 0 .. (size - 1) : n # size - 1 => q.next[n] = n + 1
    BY DEF virtqueue_init
  <1>4. AvailSeq(q, 0) = << >>
    <2> DEFINE f == q.avail_ring
               S == 0 .. (size - 1) \cup {NoDesc}
    <2>1. AvailSeq(q, 0) = Window(f, 0, 0, size) /\ f \in [0 .. (size - 1) -> S]
      <3>1. AvailSeq(q, 0) = Window(q.avail_ring, 0, q.avail_idx, size)
        BY <1>1, <1>2, RingsAreWindows
      <3>2. f \in [0 .. (size - 1) -> S]
        BY <1>2 DEF Rings
      <3> QED
        BY <1>3, <3>1, <3>2
    <2> HIDE DEF f, S
    <2> QED
      BY <1>1, <2>1, WindowType
  <1>5. UsedSeq(q) = << >>
    <2> DEFINE f == Ids(q)
               S == 0 .. (size - 1)
    <2>1. UsedSeq(q) = Window(f, 0, 0, size) /\ f \in [0 .. (size - 1) -> S]
      BY <1>1, <1>2, <1>3, RingsAreWindows
    <2> HIDE DEF f, S
    <2> QED
      BY <1>1, <2>1, WindowType
  <1>6. Places(AvailSeq(q, 0), {}, UsedSeq(q), {}, 0 .. (size - 1)) /\ OutOf(q, 0, {}, {}) = {}
    <2> DEFINE D == 0 .. (size - 1)
    <2>1. << >> \in Seq(D) /\ DOMAIN << >> = {} /\ SeqElems(<< >>) = {}
      BY DEF SeqElems
    <2> HIDE DEF D
    <2>2. Places(<< >>, {}, << >>, {}, D) /\ Out(<< >>, {}, << >>, {}) = {}
      BY <2>1 DEF Places, OnePlace, Out
    <2> QED
      BY <1>4, <1>5, <2>2 DEF OutOf, D
  <1>7. Chained(q, [k \in 1 .. size |-> k - 1], {})
    <2> DEFINE chain == [k \in 1 .. size |-> k - 1]
    <2>1. chain \in [1 .. size -> 0 .. (size - 1)]
      BY <1>1
    <2>2. \A m, n \in 1 .. size : chain[m] = chain[n] => m = n
      BY <1>1
    <2>3. chain[1] = 0 /\ \A n \in 1 .. (size - 1) : q.next[chain[n]] = chain[n + 1]
      BY <1>1, <1>3
    <2>4. \A x \in 0 .. (size - 1) : \E n \in 1 .. size : x = chain[n]
      <3> TAKE x \in 0 .. (size - 1)
      <3>1. x + 1 \in 1 .. size /\ (x + 1) - 1 = x
        BY <1>1
      <3> QED
        BY <3>1
    <2>5. size \in 0 .. size
      BY <1>1
    <2> HIDE DEF chain
    <2>6. FreeChain(q, chain, {}, size)
      BY <1>3, <2>1, <2>2, <2>3, <2>4, <2>5 DEF FreeChain
    <2> QED
      BY <1>2, <2>6, ChainIntro DEF chain
  <1> QED
    BY <1>2, <1>3, <1>4, <1>5, <1>6, <1>7 DEF QueueSound

LEMMA TxInit == Init => TxInv
  <1> SUFFICES ASSUME Init PROVE TxSound(pc, tx, dev.tx.last, dev.tx.held, heap)
    BY DEF TxInv
  <1>1. tx = virtqueue_init(TxSize) /\ dev.tx.last = 0 /\ dev.tx.held = {} /\ heap = {} /\ pc = "fill"
    BY DEF Init
  <1>2. RingSize(TxSize) /\ 0 \in IdxVals
    BY ConstLemma DEF IdxVals
  <1> DEFINE chain == [k \in 1 .. TxSize |-> k - 1]
  <1>3. /\ QueueSound(tx, 0, {}, {}, chain, TxSize, Buffers) /\ OutOf(tx, 0, {}, {}) = {}
    BY <1>1, <1>2, QueueInit
  <1> HIDE DEF chain
  <1>4. chain \in [1 .. tx.num_free -> 0 .. (TxSize - 1)]
    BY <1>2, <1>3, ChainBound
  <1>5. Sending("fill", tx) = {}
    BY DEF Sending
  <1>6. Exact(tx, {}, {})
    BY DEF Exact
  <1> QED
    BY <1>1, <1>2, <1>3, <1>4, <1>5, <1>6 DEF TxSound

(* Nothing but the place of the send in the code decides Sending. *)
LEMMA TxMoved ==
  ASSUME NEW p, NEW s, NEW q, NEW la, NEW held, NEW h, TxSound(p, q, la, held, h),
         p # "tx_idx", s # "tx_idx"
  PROVE  TxSound(s, q, la, held, h)
  <1>1. Sending(p, q) = {} /\ Sending(s, q) = {}
    BY DEF Sending
  <1> QED
    BY <1>1 DEF TxSound

LEMMA TxStep == Shape /\ TxInv /\ [Next]_vars => TxInv'
  <1> SUFFICES ASSUME Shape, TxInv, [Next]_vars, ~overflowed'
               PROVE  TxSound(pc', tx', dev'.tx.last, dev'.tx.held, heap')
    BY DEF TxInv
  <1> DEFINE la == dev.tx.last
             held == dev.tx.held
             G == TxSound(pc', tx', dev'.tx.last, dev'.tx.held, heap')
  <1>0. ~overflowed => TxSound(pc, tx, la, held, heap)
    BY DEF TxInv
  <1>1. CASE FillSlot \/ FillIdx \/ FillIdxFirst \/ FillSlotLate \/ FillDone
             \/ PollNothing \/ PollReceive \/ HandleDone \/ Refill \/ RefillPublish \/ ReapDone
    <2>1. /\ pc # "tx_idx" /\ pc' # "tx_idx"
          /\ UNCHANGED <<tx, dev, heap, overflowed>>
      BY <1>1 DEF FillSlot, FillIdx, FillIdxFirst, FillSlotLate, FillDone, PollNothing,
                  PollReceive, HandleDone, Refill, RefillPublish, ReapDone
    <2>2. TxSound(pc, tx, la, held, heap)
      BY <1>0, <2>1
    <2>3. TxSound(pc', tx, la, held, heap)
      BY <2>1, <2>2, TxMoved
    <2> QED
      BY <2>1, <2>3
  <1>2. ASSUME NEW b \in Buffers \ heap, ethernet_send(b) PROVE G
    <2>1. /\ pc = "handle" /\ pc' = "tx_idx" /\ heap' = heap \cup {b} /\ dev' = dev
          /\ tx' = Added(tx, b) /\ ~overflowed /\ added_head(tx) # NoDesc
      BY <1>2 DEF ethernet_send, Added
    <2>2. TxSound("handle", tx, la, held, heap)
      BY <1>0, <2>1
    <2>3. tx.num_free # 0
      BY <2>1 DEF added_head
    <2>4. TxSound("tx_idx", tx', la, held, heap \cup {b})
      BY <2>1, <2>2, <2>3, TxSend
    <2> QED
      BY <2>1, <2>4
  <1>3. CASE SendPublish
    <2>1. /\ pc = "tx_idx" /\ pc' = "handle" /\ tx' = publish_avail_idx(tx)
          /\ UNCHANGED <<dev, heap, overflowed>>
      BY <1>3 DEF SendPublish
    <2>2. TxSound("tx_idx", tx, la, held, heap)
      BY <1>0, <2>1
    <2>3. TxSound("handle", tx', la, held, heap)
      BY <2>1, <2>2, TxPublish
    <2> QED
      BY <2>1, <2>3
  <1>4. CASE Reap
    <2>1. /\ pc = "reap" /\ pc' = "reap" /\ has_used(tx) /\ tx' = virtqueue_pop_used(tx)
          /\ heap' = heap \ {tx.addr[used_receipt(tx).id]}
          /\ UNCHANGED <<dev, overflowed>>
      BY <1>4 DEF Reap
    <2>2. TxSound("reap", tx, la, held, heap)
      BY <1>0, <2>1
    <2>3. TxSound("reap", tx', la, held, heap \ {tx.addr[used_receipt(tx).id]})
      BY <2>1, <2>2, TxReap
    <2> QED
      BY <2>1, <2>3
  <1>5. CASE DeviceTakesRx
    <2>1. UNCHANGED <<pc, tx, heap, overflowed>>
      BY <1>5 DEF DeviceTakesRx, driver
    <2>2. dev'.tx = dev.tx
      BY <1>5 DEF DeviceTakesRx, Shape, Devices
    <2> QED
      BY <1>0, <2>1, <2>2
  <1>6. CASE DeviceTakesTx
    <2>1. UNCHANGED <<pc, tx, heap, overflowed>> /\ avail_pending(tx, la) > 0
      BY <1>6 DEF DeviceTakesTx, driver
    <2>2. CASE device_reads(tx, la) \in Descs(tx)
      <3>1. dev'.tx.last = (la + 1) % IdxMod /\ dev'.tx.held = held \cup {device_reads(tx, la)}
        <4> DEFINE up == (la + 1) % IdxMod
                   d == device_reads(tx, la)
        <4>1. dev' = [dev EXCEPT !.tx.last = up, !.tx.held = @ \cup {d}]
          BY <1>6, <2>2 DEF DeviceTakesTx
        <4> HIDE DEF up, d
        <4>2. dev'.tx.last = up /\ dev'.tx.held = dev.tx.held \cup {d}
          BY <4>1 DEF Shape, Devices
        <4> QED
          BY <4>2 DEF up, d
      <3>2. TxSound(pc, tx, la, held, heap)
        BY <1>0, <2>1
      <3>3. TxSound(pc, tx, (la + 1) % IdxMod, held \cup {device_reads(tx, la)}, heap)
        BY <2>1, <3>2, TxTake
      <3> QED
        BY <2>1, <3>1, <3>3
    <2>3. CASE device_reads(tx, la) \notin Descs(tx)
      <3>1. dev' = dev
        BY <1>6, <2>3 DEF DeviceTakesTx
      <3> QED
        BY <1>0, <2>1, <3>1
    <2> QED
      BY <2>2, <2>3
  <1>7. ASSUME NEW id \in Descs(rx), NEW len \in Lens, DeviceReceives(id, len) PROVE G
    <2>1. UNCHANGED <<pc, tx, heap, overflowed>>
      BY <1>7 DEF DeviceReceives, driver
    <2>2. dev'.tx = dev.tx
      BY <1>7 DEF DeviceReceives, Shape, Devices
    <2> QED
      BY <1>0, <2>1, <2>2
  <1>8. ASSUME NEW id \in Descs(tx), DeviceSends(id) PROVE G
    <2>1. UNCHANGED <<pc, heap, overflowed>> /\ id \in held /\ tx' = device_completes(tx, id, 0)
      BY <1>8 DEF DeviceSends, driver
    <2>2. dev'.tx.last = la /\ dev'.tx.held = held \ {id}
      BY <1>8 DEF DeviceSends, Shape, Devices
    <2>3. TxSound(pc, tx, la, held, heap)
      BY <1>0, <2>1
    <2>4. TxSound(pc, tx', la, held \ {id}, heap)
      BY <2>1, <2>3, TxComplete
    <2> QED
      BY <2>1, <2>2, <2>4
  <1>9. CASE UNCHANGED vars
    BY <1>0, <1>9 DEF vars
  <1> QED
    BY <1>1, <1>2, <1>3, <1>4, <1>5, <1>6, <1>7, <1>8, <1>9 DEF Next, Driver

LEMMA TxAlways == Spec => [](Shape /\ TxInv)
  <1>1. Init => Shape /\ TxInv
    BY ShapeInit, TxInit
  <1>2. Shape /\ TxInv /\ [Next]_vars => (Shape /\ TxInv)'
    BY ShapeStep, TxStep
  <1> QED
    BY <1>1, <1>2, PTL DEF Spec

(* Whatever the sizes of the queues: until ethernet_send publishes 0xFFFF, *)
(* the buffers it took from the heap and net_tx_reaper has not freed are   *)
(* exactly those of the descriptors the device has, will read or has       *)
(* finished with, each in one descriptor: no use after free, no double     *)
(* free, no leak, whichever order the two stores of a publication, the     *)
(* device's reads and its receipts come in.                                *)
THEOREM TxBuffers == Spec => []TxBuffersExact
  <1>1. TxInv => TxBuffersExact
    <2> SUFFICES ASSUME TxInv, ~overflowed
                 PROVE  /\ heap = {tx.addr[n] : n \in TxOut}
                        /\ \A m, n \in TxOut : tx.addr[m] = tx.addr[n] => m = n
      BY DEF TxBuffersExact
    <2>1. Exact(tx, OutOf(tx, dev.tx.last, dev.tx.held, Sending(pc, tx)), heap)
      BY DEF TxInv, TxSound
    <2>2. TxOut = OutOf(tx, dev.tx.last, dev.tx.held, Sending(pc, tx))
      BY DEF TxOut, TxFilled, TxAvail, OutOf, Out, Sending
    <2> QED
      BY <2>1, <2>2 DEF Exact
  <1> QED
    BY <1>1, TxAlways, PTL

-----------------------------------------------------------------------------
(* The RX queue.  Where the driver is says which descriptors are free and  *)
(* in which order: the prefill takes descriptor i in turn i, and later at  *)
(* most the one whose buffer is being read is free.                        *)
Filling(p, q) ==
  IF p \in {"fill_idx", "refill_idx"} THEN {q.avail_ring[q.avail_idx % RxSize]} ELSE {}

ChainAt(p, k, c, q, chain) ==
  /\ p = "fill" => q.num_free = RxSize - k /\ \A n \in 1 .. q.num_free : chain[n] = k + n - 1
  /\ p = "fill_idx" =>
       q.num_free = RxSize - k - 1 /\ \A n \in 1 .. q.num_free : chain[n] = k + n
  /\ p \in {"handle", "tx_idx", "refill"} => q.num_free = 1 /\ chain[1] = c
  /\ p \in {"poll", "reap", "refill_idx"} => q.num_free = 0

Named(q, out) == \A n \in out : q.addr[n] = n

RxSound(p, k, c, q, la, held) ==
  /\ p # "fill_slot" /\ la \in IdxVals /\ c \in 0 .. (RxSize - 1)
  /\ \E chain \in [1 .. q.num_free -> 0 .. (RxSize - 1)] :
       /\ QueueSound(q, la, held, Filling(p, q), chain, RxSize, 0 .. (RxSize - 1))
       /\ ChainAt(p, k, c, q, chain)
  /\ Named(q, OutOf(q, la, held, Filling(p, q)))

RxInv == RxSound(pc, i, cur, rx, dev.rx.last, dev.rx.held)

(* The queue as VirtQueueSpec sees it, and its steps *)
View(p, q, la, held) ==
  [free |-> (0 .. (RxSize - 1)) \ OutOf(q, la, held, Filling(p, q)), filled |-> Filling(p, q),
   avail |-> AvailSeq(q, la), device |-> held, used |-> UsedSeq(q)]

FillMove(v, w) == \E d \in v.free :
  /\ w.free = v.free \ {d} /\ w.filled = v.filled \cup {d}
  /\ w.avail = v.avail /\ w.device = v.device /\ w.used = v.used

PublishMove(v, w) == \E d \in v.filled :
  /\ w.filled = v.filled \ {d} /\ w.avail = Append(v.avail, d)
  /\ w.free = v.free /\ w.device = v.device /\ w.used = v.used

TakeMove(v, w) ==
  /\ v.avail # << >> /\ w.device = v.device \cup {Head(v.avail)} /\ w.avail = Tail(v.avail)
  /\ w.free = v.free /\ w.filled = v.filled /\ w.used = v.used

CompleteMove(v, w) == \E d \in v.device :
  /\ w.device = v.device \ {d} /\ w.used = Append(v.used, d)
  /\ w.free = v.free /\ w.filled = v.filled /\ w.avail = v.avail

ReclaimMove(v, w) ==
  /\ v.used # << >> /\ w.free = v.free \cup {Head(v.used)} /\ w.used = Tail(v.used)
  /\ w.filled = v.filled /\ w.avail = v.avail /\ w.device = v.device

AddEffect(p, s, r, q, la, held, chain, b, tl) ==
  /\ QueueSound(r, la, held, Filling(s, r), tl, RxSize, 0 .. (RxSize - 1))
  /\ tl \in [1 .. r.num_free -> 0 .. (RxSize - 1)]
  /\ r.num_free = q.num_free - 1
  /\ Named(r, OutOf(r, la, held, Filling(s, r)))
  /\ FillMove(View(p, q, la, held), View(s, r, la, held))

LEMMA RxAdd ==
  ASSUME NEW q, NEW la, NEW held, NEW chain, la \in IdxVals,
         QueueSound(q, la, held, {}, chain, RxSize, 0 .. (RxSize - 1)), q.num_free > 0,
         Named(q, OutOf(q, la, held, {})),
         NEW b, b = chain[1],
         NEW p, p \notin {"fill_idx", "refill_idx"}, NEW s, s \in {"fill_idx", "refill_idx"},
         NEW r, r = Added(q, b),
         NEW tl, tl = [n \in 1 .. (q.num_free - 1) |-> chain[n + 1]]
  PROVE  AddEffect(p, s, r, q, la, held, chain, b, tl)
  <1> DEFINE D == 0 .. (RxSize - 1)
             out == OutOf(q, la, held, {})
             d == q.free_head
  <1>1. RingSize(RxSize)
    BY ConstLemma
  <1>2. b \in D
    <2>1. FreeChain(q, chain, out, RxSize)
      BY <1>1, ChainFacts
    <2>2. 1 \in 1 .. q.num_free
      BY <2>1 DEF FreeChain
    <2> QED
      BY <2>1, <2>2 DEF FreeChain
  <1>3. d = q.free_head
    OBVIOUS
  <1> HIDE DEF d
  <1>4. FillEffect(r, q, la, held, chain, d, b, RxSize, D)
    BY <1>1, <1>2, <1>3, QueueFill
  <1>5. /\ QueueSound(r, la, held, {d}, tl, RxSize, D)
        /\ r.num_free = q.num_free - 1
        /\ d \in D /\ d = b /\ d \notin out
        /\ OutOf(r, la, held, {d}) = out \cup {d}
        /\ r.avail_ring[r.avail_idx % RxSize] = d
        /\ r.addr = [q.addr EXCEPT ![d] = b]
        /\ AvailSeq(r, la) = AvailSeq(q, la) /\ UsedSeq(r) = UsedSeq(q)
    BY <1>4 DEF FillEffect
  <1>6. Filling(p, q) = {} /\ Filling(s, r) = {d}
    BY <1>5 DEF Filling
  <1>7. tl \in [1 .. r.num_free -> D]
    BY <1>1, <1>5, ChainBound
  <1>8. Named(r, out \cup {d})
    <2>1. out \subseteq D
      BY <1>1, OutInD
    <2>2. q.addr \in [D -> D \cup {NULL}]
      BY DEF QueueSound, Rings
    <2> HIDE DEF out, D
    <2>3. \A n \in out : r.addr[n] = q.addr[n]
      BY <1>5, <2>1, <2>2
    <2>4. r.addr[d] = d
      BY <1>5, <2>2
    <2>5. \A n \in out : q.addr[n] = n
      BY DEF Named, out
    <2> QED
      BY <2>3, <2>4, <2>5 DEF Named
  <1>9. FillMove(View(p, q, la, held), View(s, r, la, held))
    <2> HIDE DEF out, D
    <2>1. View(p, q, la, held) = [free |-> D \ out, filled |-> {}, avail |-> AvailSeq(q, la),
                                  device |-> held, used |-> UsedSeq(q)]
      BY <1>6 DEF View, D, out
    <2>2. View(s, r, la, held) = [free |-> D \ (out \cup {d}), filled |-> {d},
                                  avail |-> AvailSeq(q, la), device |-> held, used |-> UsedSeq(q)]
      BY <1>5, <1>6 DEF View, D
    <2> DEFINE v == View(p, q, la, held)
               w == View(s, r, la, held)
    <2>3. /\ v.free = D \ out /\ v.filled = {} /\ v.avail = AvailSeq(q, la)
          /\ v.device = held /\ v.used = UsedSeq(q)
      BY <2>1
    <2>4. /\ w.free = D \ (out \cup {d}) /\ w.filled = {d} /\ w.avail = AvailSeq(q, la)
          /\ w.device = held /\ w.used = UsedSeq(q)
      BY <2>2
    <2> HIDE DEF v, w
    <2>5. d \in v.free /\ w.free = v.free \ {d} /\ w.filled = v.filled \cup {d}
      BY <1>5, <2>3, <2>4
    <2>6. FillMove(v, w)
      BY <2>3, <2>4, <2>5 DEF FillMove
    <2> QED
      BY <2>6 DEF v, w
  <1> QED
    BY <1>5, <1>6, <1>7, <1>8, <1>9 DEF AddEffect

(* A turn of the prefill *)
LEMMA RxFillSlot ==
  ASSUME NEW k \in 0 .. RxSize, k < RxSize, NEW c, NEW q, NEW la, NEW held,
         RxSound("fill", k, c, q, la, held), NEW r, r = Added(q, k)
  PROVE  RxSound("fill_idx", k, c, r, la, held)
         /\ FillMove(View("fill", q, la, held), View("fill_idx", r, la, held))
  <1>1. RxSize \in Nat \ {0}
    BY ConstLemma DEF RingSize
  <1>2. Filling("fill", q) = {} /\ la \in IdxVals /\ c \in 0 .. (RxSize - 1)
    BY DEF Filling, RxSound
  <1>3. PICK chain : /\ QueueSound(q, la, held, {}, chain, RxSize, 0 .. (RxSize - 1))
                     /\ ChainAt("fill", k, c, q, chain)
    BY <1>2 DEF RxSound
  <1>4. q.num_free = RxSize - k /\ \A n \in 1 .. q.num_free : chain[n] = k + n - 1
    BY <1>3 DEF ChainAt
  <1>5. q.num_free > 0 /\ k = chain[1]
    <2>1. 1 \in 1 .. q.num_free /\ k + 1 - 1 = k
      BY <1>1, <1>4
    <2> QED
      BY <1>1, <1>4, <2>1
  <1> DEFINE tl == [n \in 1 .. (q.num_free - 1) |-> chain[n + 1]]
  <1>6. Named(q, OutOf(q, la, held, {}))
    BY <1>2 DEF RxSound
  <1>7. ChainAt("fill_idx", k, c, r, tl) /\ tl = [n \in 1 .. (q.num_free - 1) |-> chain[n + 1]]
    <2>1. \A n \in 1 .. (q.num_free - 1) : tl[n] = k + n
      <3> TAKE n \in 1 .. (q.num_free - 1)
      <3>1. n + 1 \in 1 .. q.num_free /\ k + (n + 1) - 1 = k + n
        BY <1>1, <1>4
      <3> QED
        BY <1>4, <3>1
    <2>2. r.num_free = q.num_free - 1
      <3>1. q \in Rings(RxSize, 0 .. (RxSize - 1))
        BY <1>3 DEF QueueSound
      <3> QED
        BY <1>5, <3>1 DEF Rings, Added, virtqueue_add_descriptor, write_avail_slot
    <2> HIDE DEF tl
    <2>3. r.num_free = RxSize - k - 1 /\ \A n \in 1 .. r.num_free : tl[n] = k + n
      BY <1>4, <2>1, <2>2
    <2> QED
      BY <2>3 DEF ChainAt, tl
  <1> HIDE DEF tl
  <1>8. /\ QueueSound(r, la, held, Filling("fill_idx", r), tl, RxSize, 0 .. (RxSize - 1))
        /\ tl \in [1 .. r.num_free -> 0 .. (RxSize - 1)]
        /\ Named(r, OutOf(r, la, held, Filling("fill_idx", r)))
        /\ FillMove(View("fill", q, la, held), View("fill_idx", r, la, held))
    <2>1. /\ "fill" \notin {"fill_idx", "refill_idx"}
          /\ "fill_idx" \in {"fill_idx", "refill_idx"}
      OBVIOUS
    <2>2. AddEffect("fill", "fill_idx", r, q, la, held, chain, k, tl)
      BY <1>2, <1>3, <1>5, <1>6, <1>7, <2>1, RxAdd
    <2> QED
      BY <2>2 DEF AddEffect
  <1> QED
    BY <1>2, <1>7, <1>8 DEF RxSound

(* The refill *)
LEMMA RxRefill ==
  ASSUME NEW k, NEW c, NEW q, NEW la, NEW held,
         RxSound("refill", k, c, q, la, held), NEW r, r = Added(q, c)
  PROVE  RxSound("refill_idx", k, c, r, la, held)
         /\ FillMove(View("refill", q, la, held), View("refill_idx", r, la, held))
  <1>1. Filling("refill", q) = {} /\ la \in IdxVals /\ c \in 0 .. (RxSize - 1)
    BY DEF Filling, RxSound
  <1>2. PICK chain : /\ QueueSound(q, la, held, {}, chain, RxSize, 0 .. (RxSize - 1))
                     /\ ChainAt("refill", k, c, q, chain)
    BY <1>1 DEF RxSound
  <1>3. q.num_free = 1 /\ c = chain[1] /\ q.num_free > 0
    BY <1>2 DEF ChainAt
  <1> DEFINE tl == [n \in 1 .. (q.num_free - 1) |-> chain[n + 1]]
  <1>4. Named(q, OutOf(q, la, held, {}))
    BY <1>1 DEF RxSound
  <1>5. tl = [n \in 1 .. (q.num_free - 1) |-> chain[n + 1]]
    OBVIOUS
  <1> HIDE DEF tl
  <1>6. /\ QueueSound(r, la, held, Filling("refill_idx", r), tl, RxSize, 0 .. (RxSize - 1))
        /\ tl \in [1 .. r.num_free -> 0 .. (RxSize - 1)]
        /\ r.num_free = q.num_free - 1
        /\ Named(r, OutOf(r, la, held, Filling("refill_idx", r)))
        /\ FillMove(View("refill", q, la, held), View("refill_idx", r, la, held))
    <2>1. /\ "refill" \notin {"fill_idx", "refill_idx"}
          /\ "refill_idx" \in {"fill_idx", "refill_idx"}
      OBVIOUS
    <2>2. AddEffect("refill", "refill_idx", r, q, la, held, chain, c, tl)
      BY <1>1, <1>2, <1>3, <1>4, <1>5, <2>1, RxAdd
    <2> QED
      BY <2>2 DEF AddEffect
  <1>7. ChainAt("refill_idx", k, c, r, tl)
    BY <1>3, <1>6 DEF ChainAt
  <1> QED
    BY <1>1, <1>6, <1>7 DEF RxSound

(* A publication, of the prefill or of the refill *)
LEMMA RxPublish ==
  ASSUME NEW p, NEW s, p \in {"fill_idx", "refill_idx"},
         s \notin {"fill_idx", "refill_idx", "fill_slot"},
         NEW k, NEW j, NEW c, NEW e \in 0 .. (RxSize - 1), NEW q, NEW la, NEW held,
         RxSound(p, k, c, q, la, held),
         NEW r, r = publish_avail_idx(q),
         \A chain : r.num_free = q.num_free /\ ChainAt(p, k, c, q, chain) => ChainAt(s, j, e, r, chain)
  PROVE  RxSound(s, j, e, r, la, held) /\ PublishMove(View(p, q, la, held), View(s, r, la, held))
  <1> DEFINE d == q.avail_ring[q.avail_idx % RxSize]
             D == 0 .. (RxSize - 1)
  <1>1. RingSize(RxSize) /\ la \in IdxVals
    BY ConstLemma DEF RxSound
  <1>2. Filling(p, q) = {d} /\ Filling(s, r) = {}
    BY DEF Filling
  <1>3. PICK chain : /\ QueueSound(q, la, held, {d}, chain, RxSize, D)
                     /\ ChainAt(p, k, c, q, chain)
    BY <1>2 DEF RxSound
  <1>4. Named(q, OutOf(q, la, held, {d}))
    BY <1>2 DEF RxSound
  <1>5. d = q.avail_ring[q.avail_idx % RxSize]
    OBVIOUS
  <1> HIDE DEF d
  <1>6. PublishEffect(r, q, la, held, chain, d, RxSize, D)
    BY <1>1, <1>3, <1>5, QueuePublish
  <1>7. /\ QueueSound(r, la, held, {}, chain, RxSize, D)
        /\ OutOf(r, la, held, {}) = OutOf(q, la, held, {d})
        /\ r.num_free = q.num_free /\ r.addr = q.addr
        /\ AvailSeq(r, la) = Append(AvailSeq(q, la), d) /\ UsedSeq(r) = UsedSeq(q)
    BY <1>6 DEF PublishEffect
  <1>8. chain \in [1 .. r.num_free -> D] /\ ChainAt(s, j, e, r, chain)
    BY <1>1, <1>3, <1>7, ChainBound
  <1>9. Named(r, OutOf(r, la, held, {}))
    BY <1>4, <1>7 DEF Named
  <1>10. RxSound(s, j, e, r, la, held)
    BY <1>1, <1>2, <1>7, <1>8, <1>9 DEF RxSound
  <1>11. PublishMove(View(p, q, la, held), View(s, r, la, held))
    <2> DEFINE v == View(p, q, la, held)
               w == View(s, r, la, held)
    <2>1. /\ v.free = D \ OutOf(q, la, held, {d}) /\ v.filled = {d} /\ v.avail = AvailSeq(q, la)
          /\ v.device = held /\ v.used = UsedSeq(q)
      BY <1>2 DEF View
    <2>2. /\ w.free = D \ OutOf(q, la, held, {d}) /\ w.filled = {}
          /\ w.avail = Append(AvailSeq(q, la), d) /\ w.device = held /\ w.used = UsedSeq(q)
      BY <1>2, <1>7 DEF View
    <2> HIDE DEF v, w
    <2>3. d \in v.filled /\ w.filled = v.filled \ {d}
      BY <2>1, <2>2
    <2>4. PublishMove(v, w)
      BY <2>1, <2>2, <2>3 DEF PublishMove
    <2> QED
      BY <2>4 DEF v, w
  <1> QED
    BY <1>10, <1>11

(* The driver reads a receipt. *)
LEMMA RxReclaim ==
  ASSUME NEW s, s \in {"handle", "refill"}, NEW k, NEW c, NEW q, NEW la, NEW held,
         RxSound("poll", k, c, q, la, held), has_used(q),
         NEW r, r = virtqueue_pop_used(q), NEW e, e = used_receipt(q).id
  PROVE  RxSound(s, k, e, r, la, held)
         /\ ReclaimMove(View("poll", q, la, held), View(s, r, la, held))
  <1> DEFINE D == 0 .. (RxSize - 1)
             out == OutOf(q, la, held, {})
  <1>1. RingSize(RxSize) /\ la \in IdxVals
    BY ConstLemma DEF RxSound
  <1>2. Filling("poll", q) = {} /\ Filling(s, r) = {}
    BY DEF Filling
  <1>3. PICK chain : /\ QueueSound(q, la, held, {}, chain, RxSize, D)
                     /\ ChainAt("poll", k, c, q, chain)
    BY <1>2 DEF RxSound
  <1>4. Named(q, out) /\ q.num_free = 0
    BY <1>2, <1>3 DEF RxSound, ChainAt
  <1> DEFINE ext == [n \in 1 .. (q.num_free + 1) |-> IF n = 1 THEN e ELSE chain[n - 1]]
  <1>5. ReclaimEffect(r, q, la, held, {}, chain, e, RxSize, D)
    BY <1>1, <1>3, QueueReclaim
  <1>6. /\ QueueSound(r, la, held, {}, ext, RxSize, D)
        /\ OutOf(r, la, held, {}) = out \ {e}
        /\ e \in out /\ e \in D
        /\ r.num_free = q.num_free + 1 /\ r.addr = q.addr
        /\ AvailSeq(r, la) = AvailSeq(q, la)
        /\ UsedSeq(q) # << >> /\ Head(UsedSeq(q)) = e /\ UsedSeq(r) = Tail(UsedSeq(q))
    BY <1>5 DEF ReclaimEffect
  <1>7. r.num_free = 1 /\ ext[1] = e
    BY <1>4, <1>6
  <1> HIDE DEF ext, out
  <1>8. ChainAt(s, k, e, r, ext)
    BY <1>7 DEF ChainAt
  <1>9. ext \in [1 .. r.num_free -> D]
    BY <1>1, <1>6, ChainBound
  <1>10. Named(r, out \ {e})
    BY <1>4, <1>6 DEF Named
  <1>11. RxSound(s, k, e, r, la, held)
    BY <1>1, <1>2, <1>6, <1>8, <1>9, <1>10 DEF RxSound
  <1>12. ReclaimMove(View("poll", q, la, held), View(s, r, la, held))
    <2> DEFINE v == View("poll", q, la, held)
               w == View(s, r, la, held)
    <2>1. /\ v.free = D \ out /\ v.filled = {} /\ v.avail = AvailSeq(q, la)
          /\ v.device = held /\ v.used = UsedSeq(q)
      BY <1>2 DEF View, out
    <2>2. /\ w.free = D \ (out \ {e}) /\ w.filled = {} /\ w.avail = AvailSeq(q, la)
          /\ w.device = held /\ w.used = Tail(UsedSeq(q))
      BY <1>2, <1>6 DEF View
    <2> HIDE DEF v, w, D
    <2>3. v.used # << >> /\ Head(v.used) = e /\ w.free = v.free \cup {e}
      BY <1>6, <2>1, <2>2
    <2>4. ReclaimMove(v, w)
      BY <2>1, <2>2, <2>3 DEF ReclaimMove
    <2> QED
      BY <2>4 DEF v, w
  <1> QED
    BY <1>11, <1>12

(* The device reads an entry. *)
LEMMA RxTake ==
  ASSUME NEW p, NEW k, NEW c, NEW q, NEW la, NEW held, RxSound(p, k, c, q, la, held),
         avail_pending(q, la) > 0,
         NEW d, d = device_reads(q, la), NEW up, up = (la + 1) % IdxMod
  PROVE  /\ RxSound(p, k, c, q, up, held \cup {d}) /\ d \in Descs(q)
         /\ TakeMove(View(p, q, la, held), View(p, q, up, held \cup {d}))
  <1> DEFINE D == 0 .. (RxSize - 1)
             f == Filling(p, q)
  <1>1. RingSize(RxSize) /\ la \in IdxVals /\ p # "fill_slot" /\ c \in D
    BY ConstLemma DEF RxSound
  <1>2. PICK chain : /\ QueueSound(q, la, held, f, chain, RxSize, D)
                     /\ ChainAt(p, k, c, q, chain)
    BY DEF RxSound
  <1>3. Named(q, OutOf(q, la, held, f))
    BY DEF RxSound
  <1> HIDE DEF f
  <1>4. TakeEffect(q, la, held, f, chain, d, up, RxSize, D)
    BY <1>1, <1>2, QueueTake
  <1>5. /\ d \in Descs(q) /\ up \in IdxVals
        /\ QueueSound(q, up, held \cup {d}, f, chain, RxSize, D)
        /\ OutOf(q, up, held \cup {d}, f) = OutOf(q, la, held, f)
        /\ AvailSeq(q, la) # << >> /\ Head(AvailSeq(q, la)) = d
        /\ AvailSeq(q, up) = Tail(AvailSeq(q, la))
    BY <1>4 DEF TakeEffect
  <1>6. chain \in [1 .. q.num_free -> D]
    BY <1>1, <1>5, ChainBound
  <1>7. RxSound(p, k, c, q, up, held \cup {d})
    BY <1>1, <1>2, <1>3, <1>5, <1>6 DEF RxSound, f
  <1>8. TakeMove(View(p, q, la, held), View(p, q, up, held \cup {d}))
    <2> DEFINE v == View(p, q, la, held)
               w == View(p, q, up, held \cup {d})
    <2>1. /\ v.free = D \ OutOf(q, la, held, f) /\ v.filled = f /\ v.avail = AvailSeq(q, la)
          /\ v.device = held /\ v.used = UsedSeq(q)
      BY DEF View, f
    <2>2. /\ w.free = D \ OutOf(q, la, held, f) /\ w.filled = f
          /\ w.avail = Tail(AvailSeq(q, la))
          /\ w.device = held \cup {d} /\ w.used = UsedSeq(q)
      BY <1>5 DEF View, f
    <2> HIDE DEF v, w
    <2>3. TakeMove(v, w)
      BY <1>5, <2>1, <2>2 DEF TakeMove
    <2> QED
      BY <2>3 DEF v, w
  <1> QED
    BY <1>5, <1>7, <1>8

(* The device writes a receipt. *)
LEMMA RxComplete ==
  ASSUME NEW p, NEW k, NEW c, NEW q, NEW la, NEW held, RxSound(p, k, c, q, la, held),
         NEW d \in held, NEW len \in Lens, NEW r, r = device_completes(q, d, len)
  PROVE  /\ RxSound(p, k, c, r, la, held \ {d})
         /\ CompleteMove(View(p, q, la, held), View(p, r, la, held \ {d}))
  <1> DEFINE D == 0 .. (RxSize - 1)
             f == Filling(p, q)
  <1>1. RingSize(RxSize) /\ la \in IdxVals /\ p # "fill_slot" /\ c \in D
    BY ConstLemma DEF RxSound
  <1>2. PICK chain : /\ QueueSound(q, la, held, f, chain, RxSize, D)
                     /\ ChainAt(p, k, c, q, chain)
    BY DEF RxSound
  <1>3. Named(q, OutOf(q, la, held, f))
    BY DEF RxSound
  <1> HIDE DEF f
  <1>4. CompleteEffect(r, q, la, held, f, chain, d, RxSize, D)
    BY <1>1, <1>2, QueueComplete
  <1>5. /\ QueueSound(r, la, held \ {d}, f, chain, RxSize, D)
        /\ OutOf(r, la, held \ {d}, f) = OutOf(q, la, held, f)
        /\ r.num_free = q.num_free /\ r.addr = q.addr
        /\ r.avail_ring = q.avail_ring /\ r.avail_idx = q.avail_idx
        /\ AvailSeq(r, la) = AvailSeq(q, la) /\ UsedSeq(r) = Append(UsedSeq(q), d)
    BY <1>4 DEF CompleteEffect
  <1>6. chain \in [1 .. r.num_free -> D] /\ Filling(p, r) = f
    BY <1>1, <1>5, ChainBound DEF Filling, f
  <1>7. Named(r, OutOf(q, la, held, f)) /\ ChainAt(p, k, c, r, chain)
    BY <1>2, <1>3, <1>5 DEF Named, ChainAt
  <1>8. RxSound(p, k, c, r, la, held \ {d})
    BY <1>1, <1>5, <1>6, <1>7 DEF RxSound
  <1>9. CompleteMove(View(p, q, la, held), View(p, r, la, held \ {d}))
    <2> DEFINE v == View(p, q, la, held)
               w == View(p, r, la, held \ {d})
    <2>1. /\ v.free = D \ OutOf(q, la, held, f) /\ v.filled = f /\ v.avail = AvailSeq(q, la)
          /\ v.device = held /\ v.used = UsedSeq(q)
      BY DEF View, f
    <2>2. /\ w.free = D \ OutOf(q, la, held, f) /\ w.filled = f /\ w.avail = AvailSeq(q, la)
          /\ w.device = held \ {d} /\ w.used = Append(UsedSeq(q), d)
      BY <1>5, <1>6 DEF View
    <2> HIDE DEF v, w
    <2>3. CompleteMove(v, w)
      BY <2>1, <2>2 DEF CompleteMove
    <2> QED
      BY <2>3 DEF v, w
  <1> QED
    BY <1>8, <1>9

(* The driver goes on elsewhere. *)
LEMMA RxMoved ==
  ASSUME NEW p, NEW s, p \notin {"fill_idx", "refill_idx"},
         s \notin {"fill_idx", "refill_idx", "fill_slot"},
         NEW k, NEW c, NEW q, NEW la, NEW held, RxSound(p, k, c, q, la, held),
         \A chain : ChainAt(p, k, c, q, chain) => ChainAt(s, k, c, q, chain)
  PROVE  RxSound(s, k, c, q, la, held) /\ View(s, q, la, held) = View(p, q, la, held)
  <1>1. Filling(p, q) = {} /\ Filling(s, q) = {}
    BY DEF Filling
  <1>2. PICK chain \in [1 .. q.num_free -> 0 .. (RxSize - 1)] :
          /\ QueueSound(q, la, held, {}, chain, RxSize, 0 .. (RxSize - 1))
          /\ ChainAt(p, k, c, q, chain)
    BY <1>1 DEF RxSound
  <1>3. ChainAt(s, k, c, q, chain)
    BY <1>2
  <1>4. View(s, q, la, held) = View(p, q, la, held)
    BY <1>1 DEF View
  <1>5. RxSound(s, k, c, q, la, held)
    BY <1>1, <1>2, <1>3 DEF RxSound
  <1> QED
    BY <1>4, <1>5

AbsView == View(pc, rx, dev.rx.last, dev.rx.held)

AbsMove(v, w) ==
  \/ w = v
  \/ FillMove(v, w) \/ PublishMove(v, w) \/ TakeMove(v, w)
  \/ CompleteMove(v, w) \/ ReclaimMove(v, w)

LEMMA RxInit ==
  Init => RxInv /\ AbsView = [free |-> 0 .. (RxSize - 1), filled |-> {}, avail |-> << >>,
                              device |-> {}, used |-> << >>]
  <1> SUFFICES ASSUME Init
               PROVE  RxInv /\ AbsView = [free |-> 0 .. (RxSize - 1), filled |-> {},
                                          avail |-> << >>, device |-> {}, used |-> << >>]
    OBVIOUS
  <1>1. /\ rx = virtqueue_init(RxSize) /\ dev.rx.last = 0 /\ dev.rx.held = {}
        /\ pc = "fill" /\ i = 0 /\ cur = 0
    BY DEF Init
  <1>2. RingSize(RxSize) /\ 0 \in IdxVals /\ 0 \in 0 .. (RxSize - 1) /\ RxSize \in Nat
    BY ConstLemma DEF IdxVals, RingSize
  <1> DEFINE chain == [k \in 1 .. RxSize |-> k - 1]
             D == 0 .. (RxSize - 1)
  <1>3. /\ QueueSound(rx, 0, {}, {}, chain, RxSize, D) /\ OutOf(rx, 0, {}, {}) = {}
        /\ AvailSeq(rx, 0) = << >> /\ UsedSeq(rx) = << >> /\ rx.num_free = RxSize
    BY <1>1, <1>2, QueueInit
  <1>4. ChainAt("fill", 0, 0, rx, chain)
    <2>1. RxSize = RxSize - 0 /\ \A n \in 1 .. RxSize : chain[n] = 0 + n - 1
      BY <1>2
    <2> HIDE DEF chain
    <2> QED
      BY <1>3, <2>1 DEF ChainAt
  <1> HIDE DEF chain
  <1>5. chain \in [1 .. rx.num_free -> D]
    BY <1>2, <1>3, ChainBound
  <1>6. Filling("fill", rx) = {} /\ Named(rx, {})
    BY DEF Filling, Named
  <1>7. RxSound("fill", 0, 0, rx, 0, {})
    BY <1>2, <1>3, <1>4, <1>5, <1>6 DEF RxSound
  <1>8. AbsView = [free |-> D, filled |-> {}, avail |-> << >>, device |-> {}, used |-> << >>]
    BY <1>1, <1>3, <1>6 DEF AbsView, View
  <1> QED
    BY <1>1, <1>7, <1>8 DEF RxInv

LEMMA RxStep ==
  PrefillOrdered /\ Shape /\ RxInv /\ [Next]_vars => RxInv' /\ AbsMove(AbsView, AbsView')
  <1> SUFFICES ASSUME PrefillOrdered, Shape, RxInv, [Next]_vars
               PROVE  RxInv' /\ AbsMove(AbsView, AbsView')
    OBVIOUS
  <1> DEFINE la == dev.rx.last
             held == dev.rx.held
             v == View(pc, rx, la, held)
             w == View(pc', rx', dev'.rx.last, dev'.rx.held)
             G == RxSound(pc', i', cur', rx', dev'.rx.last, dev'.rx.held) /\ AbsMove(v, w)
  <1> SUFFICES G
    BY DEF RxInv, AbsView
  <1>0. RxSound(pc, i, cur, rx, la, held) /\ RxSize \in Nat \ {0} /\ i \in 0 .. RxSize
    BY ConstLemma DEF RxInv, RingSize, Shape
  <1>1. CASE FillSlot
    <2>1. /\ pc = "fill" /\ pc' = "fill_idx" /\ i < RxSize /\ rx' = Added(rx, i)
          /\ UNCHANGED <<i, cur, dev>>
      BY <1>1 DEF FillSlot, Filled, Added
    <2>2. RxSound("fill", i, cur, rx, la, held)
      BY <1>0, <2>1
    <2>3. /\ RxSound("fill_idx", i, cur, rx', la, held)
          /\ FillMove(View("fill", rx, la, held), View("fill_idx", rx', la, held))
      BY <1>0, <2>1, <2>2, RxFillSlot
    <2> QED
      BY <2>1, <2>3 DEF AbsMove
  <1>2. CASE FillIdx
    <2>1. /\ pc = "fill_idx" /\ pc' = "fill" /\ rx' = publish_avail_idx(rx) /\ i' = i + 1
          /\ UNCHANGED <<cur, dev>>
      BY <1>2 DEF FillIdx
    <2>2. RxSound("fill_idx", i, cur, rx, la, held) /\ cur \in 0 .. (RxSize - 1)
      BY <1>0, <2>1 DEF RxSound
    <2>3. ASSUME NEW chain, rx'.num_free = rx.num_free, ChainAt("fill_idx", i, cur, rx, chain)
          PROVE  ChainAt("fill", i + 1, cur, rx', chain)
      <3>1. rx.num_free = RxSize - i - 1 /\ \A n \in 1 .. rx.num_free : chain[n] = i + n
        BY <2>3 DEF ChainAt
      <3>2. RxSize - i - 1 = RxSize - (i + 1) /\ \A n \in Int : i + n = (i + 1) + n - 1
        BY <1>0
      <3>3. rx'.num_free = RxSize - (i + 1)
            /\ \A n \in 1 .. rx'.num_free : chain[n] = (i + 1) + n - 1
        BY <2>3, <3>1, <3>2
      <3> QED
        BY <3>3 DEF ChainAt
    <2>4. /\ RxSound("fill", i + 1, cur, rx', la, held)
          /\ PublishMove(View("fill_idx", rx, la, held), View("fill", rx', la, held))
      BY <2>1, <2>2, <2>3, RxPublish
    <2> QED
      BY <2>1, <2>4 DEF AbsMove
  <1>3. ~ FillIdxFirst
    BY DEF FillIdxFirst
  <1>4. ~ FillSlotLate
    BY <1>0 DEF FillSlotLate, RxSound
  <1>5. CASE FillDone
    <2>1. pc = "fill" /\ pc' = "poll" /\ i = RxSize /\ UNCHANGED <<i, cur, rx, dev>>
      BY <1>5 DEF FillDone
    <2>2. RxSound("fill", i, cur, rx, la, held)
      BY <1>0, <2>1
    <2>3. \A chain : ChainAt("fill", i, cur, rx, chain) => ChainAt("poll", i, cur, rx, chain)
      BY <1>0, <2>1 DEF ChainAt
    <2>4. /\ RxSound("poll", i, cur, rx, la, held)
          /\ View("poll", rx, la, held) = View("fill", rx, la, held)
      BY <2>2, <2>3, RxMoved
    <2> QED
      BY <2>1, <2>4 DEF AbsMove
  <1>6. CASE PollNothing \/ HandleDone \/ ReapDone \/ SendPublish
             \/ \E b \in Buffers \ heap : ethernet_send(b)
    <2>1. /\ \/ pc \in {"poll", "reap"} /\ pc' \in {"poll", "reap"}
             \/ pc \in {"handle", "tx_idx"} /\ pc' \in {"handle", "tx_idx", "refill"}
          /\ UNCHANGED <<i, cur, rx, dev>>
      BY <1>6 DEF PollNothing, HandleDone, ReapDone, SendPublish, ethernet_send
    <2>2. /\ pc \notin {"fill_idx", "refill_idx"}
          /\ pc' \notin {"fill_idx", "refill_idx", "fill_slot"}
      BY <2>1
    <2>3. \A chain : ChainAt(pc, i, cur, rx, chain) => ChainAt(pc', i, cur, rx, chain)
      BY <2>1 DEF ChainAt
    <2>4. /\ RxSound(pc', i, cur, rx, la, held)
          /\ View(pc', rx, la, held) = View(pc, rx, la, held)
      BY <1>0, <2>2, <2>3, RxMoved
    <2> QED
      BY <2>1, <2>4 DEF AbsMove
  <1>7. CASE PollReceive
    <2>1. /\ pc = "poll" /\ pc' \in {"handle", "refill"} /\ has_used(rx)
          /\ rx' = virtqueue_pop_used(rx) /\ cur' = used_receipt(rx).id
          /\ UNCHANGED <<i, dev>>
      BY <1>7 DEF PollReceive
    <2>2. RxSound("poll", i, cur, rx, la, held)
      BY <1>0, <2>1
    <2>3. /\ RxSound(pc', i, cur', rx', la, held)
          /\ ReclaimMove(View("poll", rx, la, held), View(pc', rx', la, held))
      BY <2>1, <2>2, RxReclaim
    <2> QED
      BY <2>1, <2>3 DEF AbsMove
  <1>8. CASE Refill
    <2>1. /\ pc = "refill" /\ pc' = "refill_idx" /\ rx' = Added(rx, cur)
          /\ UNCHANGED <<i, cur, dev>>
      BY <1>8 DEF Refill, Added
    <2>2. RxSound("refill", i, cur, rx, la, held)
      BY <1>0, <2>1
    <2>3. /\ RxSound("refill_idx", i, cur, rx', la, held)
          /\ FillMove(View("refill", rx, la, held), View("refill_idx", rx', la, held))
      BY <2>1, <2>2, RxRefill
    <2> QED
      BY <2>1, <2>3 DEF AbsMove
  <1>9. CASE RefillPublish
    <2>1. /\ pc = "refill_idx" /\ pc' = "reap" /\ rx' = publish_avail_idx(rx) /\ cur' = 0
          /\ UNCHANGED <<i, dev>>
      BY <1>9 DEF RefillPublish
    <2>2. RxSound("refill_idx", i, cur, rx, la, held) /\ 0 \in 0 .. (RxSize - 1)
      BY <1>0, <2>1
    <2>3. \A chain : rx'.num_free = rx.num_free /\ ChainAt("refill_idx", i, cur, rx, chain)
                     => ChainAt("reap", i, 0, rx', chain)
      BY DEF ChainAt
    <2>4. /\ RxSound("reap", i, 0, rx', la, held)
          /\ PublishMove(View("refill_idx", rx, la, held), View("reap", rx', la, held))
      BY <2>1, <2>2, <2>3, RxPublish
    <2> QED
      BY <2>1, <2>4 DEF AbsMove
  <1>10. CASE Reap
    <2>1. UNCHANGED <<pc, i, cur, rx, dev>>
      BY <1>10 DEF Reap
    <2> QED
      BY <1>0, <2>1 DEF AbsMove
  <1>11. CASE DeviceTakesRx
    <2>1. UNCHANGED <<pc, i, cur, rx>> /\ avail_pending(rx, la) > 0
      BY <1>11 DEF DeviceTakesRx, driver
    <2> DEFINE up == (la + 1) % IdxMod
               d == device_reads(rx, la)
    <2>2. up = (la + 1) % IdxMod /\ d = device_reads(rx, la)
      OBVIOUS
    <2>3. d \in Descs(rx) => dev' = [dev EXCEPT !.rx.last = up, !.rx.held = @ \cup {d}]
      BY <1>11 DEF DeviceTakesRx
    <2> HIDE DEF up, d
    <2>4. /\ RxSound(pc, i, cur, rx, up, held \cup {d}) /\ d \in Descs(rx)
          /\ TakeMove(View(pc, rx, la, held), View(pc, rx, up, held \cup {d}))
      BY <1>0, <2>1, <2>2, RxTake
    <2>5. dev'.rx.last = up /\ dev'.rx.held = held \cup {d}
      <3>1. dev' = [dev EXCEPT !.rx.last = up, !.rx.held = @ \cup {d}]
        BY <2>3, <2>4
      <3>2. dev \in Devices
        BY DEF Shape
      <3> QED
        BY <3>1, <3>2 DEF Devices
    <2> QED
      BY <2>1, <2>4, <2>5 DEF AbsMove
  <1>12. CASE DeviceTakesTx
    <2>1. UNCHANGED <<pc, i, cur, rx>>
      BY <1>12 DEF DeviceTakesTx, driver
    <2>2. dev'.rx = dev.rx
      <3>1. CASE dev' = dev
        BY <3>1
      <3>2. CASE dev' # dev
        <4> DEFINE up == (dev.tx.last + 1) % IdxMod
                   d == device_reads(tx, dev.tx.last)
        <4>1. dev' = [dev EXCEPT !.tx.last = up, !.tx.held = @ \cup {d}]
          BY <1>12, <3>2 DEF DeviceTakesTx
        <4> HIDE DEF up, d
        <4> QED
          BY <4>1 DEF Shape, Devices
      <3> QED
        BY <3>1, <3>2
    <2> QED
      BY <1>0, <2>1, <2>2 DEF AbsMove
  <1>13. ASSUME NEW id \in Descs(rx), NEW len \in Lens, DeviceReceives(id, len) PROVE G
    <2>1. /\ UNCHANGED <<pc, i, cur>> /\ id \in held
          /\ rx' = device_completes(rx, id, len)
      BY <1>13 DEF DeviceReceives, driver
    <2>2. dev'.rx.last = la /\ dev'.rx.held = held \ {id}
      BY <1>13 DEF DeviceReceives, Shape, Devices
    <2>3. /\ RxSound(pc, i, cur, rx', la, held \ {id})
          /\ CompleteMove(View(pc, rx, la, held), View(pc, rx', la, held \ {id}))
      BY <1>0, <2>1, RxComplete
    <2> QED
      BY <2>1, <2>2, <2>3 DEF AbsMove
  <1>14. ASSUME NEW id \in Descs(tx), DeviceSends(id) PROVE G
    <2>1. UNCHANGED <<pc, i, cur, rx>>
      BY <1>14 DEF DeviceSends, driver
    <2>2. dev'.rx = dev.rx
      BY <1>14 DEF DeviceSends, Shape, Devices
    <2> QED
      BY <1>0, <2>1, <2>2 DEF AbsMove
  <1>15. CASE UNCHANGED vars
    BY <1>0, <1>15 DEF vars, AbsMove
  <1> QED
    BY <1>1, <1>2, <1>3, <1>4, <1>5, <1>6, <1>7, <1>8, <1>9, <1>10, <1>11, <1>12, <1>13,
       <1>14, <1>15 DEF Next, Driver

-----------------------------------------------------------------------------
(* The theorems.  Those that speak of the RX queue suppose that the        *)
(* prefill's two stores reach memory in program order, which the code does *)
(* not enforce there (module VirtioNet, FillIdxFirst).                     *)
NetInv == Shape /\ TxInv /\ RxInv

LEMMA NetAlways ==
  ASSUME PrefillOrdered
  PROVE  Spec => []NetInv
  <1>1. Init => NetInv
    BY ShapeInit, TxInit, RxInit DEF NetInv
  <1>2. NetInv /\ [Next]_vars => NetInv'
    BY ShapeStep, TxStep, RxStep DEF NetInv
  <1> QED
    BY <1>1, <1>2, PTL DEF Spec

LEMMA SameOut ==
  /\ RxOut = OutOf(rx, dev.rx.last, dev.rx.held, Filling(pc, rx))
  /\ TxOut = OutOf(tx, dev.tx.last, dev.tx.held, Sending(pc, tx))
  BY DEF RxOut, RxFilled, RxAvail, TxOut, TxFilled, TxAvail, OutOf, Out, Filling, Sending

LEMMA RingsType ==
  ASSUME NEW size, NEW Addrs, NEW q \in Rings(size, Addrs)
  PROVE  QueueType(q, size, Addrs)
  BY DEF Rings, QueueType, IdxVals

(* Every variable keeps its type: the indices stay in 16 bits, num_free    *)
(* stays between 0 and the size, every ring entry and receipt names a      *)
(* descriptor (the TX queue: until 0xFFFF is published).                   *)
THEOREM TypeCorrect ==
  ASSUME PrefillOrdered
  PROVE  Spec => []TypeOK
  <1>1. NetInv => TypeOK
    <2> SUFFICES ASSUME NetInv PROVE TypeOK
      OBVIOUS
    <2>1. rx \in Rings(RxSize, 0 .. (RxSize - 1)) /\ cur \in 0 .. (RxSize - 1)
      BY DEF NetInv, RxInv, RxSound, QueueSound
    <2>2. QueueType(rx, RxSize, 0 .. (RxSize - 1))
      BY <2>1, RingsType
    <2>3. overflowed \/ QueueType(tx, TxSize, Buffers)
      <3>1. ~overflowed => tx \in Rings(TxSize, Buffers)
        BY DEF NetInv, TxInv, TxSound, QueueSound
      <3> QED
        BY <3>1, RingsType
    <2> QED
      BY <2>1, <2>2, <2>3 DEF NetInv, Shape, TypeOK, Devices, IdxVals
  <1> QED
    BY <1>1, NetAlways, PTL

(* A descriptor is never in two places: published twice, or published      *)
(* while the device has it or its receipt is unread.  This is what the     *)
(* order slot, barrier, index of virtqueue_push_available and the check    *)
(* last_used_idx == used->idx of virtqueue_pop_used achieve, however often *)
(* the indices wrapped.                                                    *)
THEOREM OnePlaceOnly ==
  ASSUME PrefillOrdered
  PROVE  Spec => []DescInOnePlace
  <1>1. NetInv => DescInOnePlace
    <2> SUFFICES ASSUME NetInv PROVE DescInOnePlace
      OBVIOUS
    <2>1. OnePlace(RxAvail, dev.rx.held, UsedSeq(rx), RxFilled)
      BY DEF NetInv, RxInv, RxSound, QueueSound, Places, RxAvail, RxFilled, Filling
    <2>2. ~overflowed => OnePlace(TxAvail, dev.tx.held, UsedSeq(tx), TxFilled)
      BY DEF NetInv, TxInv, TxSound, QueueSound, Places, TxAvail, TxFilled, Sending
    <2> QED
      BY <2>1, <2>2 DEF DescInOnePlace
  <1> QED
    BY <1>1, NetAlways, PTL

(* The free list of each queue is a chain without a cycle of exactly the   *)
(* descriptors nobody has: virtqueue_add_descriptor never hands out one in *)
(* use, virtqueue_pop_used loses none.                                     *)
THEOREM FreeListExact ==
  ASSUME PrefillOrdered
  PROVE  Spec => []FreeListSound
  <1>1. NetInv => FreeListSound
    <2> SUFFICES ASSUME NetInv PROVE FreeListSound
      OBVIOUS
    <2>1. Descs(rx) = 0 .. (RxSize - 1) /\ Descs(tx) = 0 .. (TxSize - 1)
      BY DEF NetInv, Shape, Sized, Descs
    <2>2. \E chain \in [1 .. rx.num_free -> Descs(rx)] :
            IsFreeChain(rx, chain) /\ SeqElems(chain) = Descs(rx) \ RxOut
      <3>1. PICK chain \in [1 .. rx.num_free -> 0 .. (RxSize - 1)] :
              QueueSound(rx, dev.rx.last, dev.rx.held, Filling(pc, rx), chain, RxSize,
                         0 .. (RxSize - 1))
        BY DEF NetInv, RxInv, RxSound
      <3>2. Chained(rx, chain, RxOut)
        BY <3>1, SameOut DEF QueueSound
      <3> QED
        BY <2>1, <3>2 DEF Chained
    <2>3. ASSUME ~overflowed
          PROVE  \E chain \in [1 .. tx.num_free -> Descs(tx)] :
                   IsFreeChain(tx, chain) /\ SeqElems(chain) = Descs(tx) \ TxOut
      <3>1. PICK chain \in [1 .. tx.num_free -> 0 .. (TxSize - 1)] :
              QueueSound(tx, dev.tx.last, dev.tx.held, Sending(pc, tx), chain, TxSize, Buffers)
        BY <2>3 DEF NetInv, TxInv, TxSound
      <3>2. Chained(tx, chain, TxOut)
        BY <3>1, SameOut DEF QueueSound
      <3> QED
        BY <2>1, <3>2 DEF Chained
    <2> QED
      BY <2>2, <2>3 DEF FreeListSound
  <1> QED
    BY <1>1, NetAlways, PTL

LEMMA RxFree ==
  ASSUME NetInv
  PROVE  \E chain \in [1 .. rx.num_free -> 0 .. (RxSize - 1)] :
           FreeChain(rx, chain, RxOut, RxSize) /\ ChainAt(pc, i, cur, rx, chain)
           /\ RxOut \subseteq 0 .. (RxSize - 1)
  <1> DEFINE la == dev.rx.last
             held == dev.rx.held
             f == Filling(pc, rx)
  <1>1. PICK chain \in [1 .. rx.num_free -> 0 .. (RxSize - 1)] :
          /\ QueueSound(rx, la, held, f, chain, RxSize, 0 .. (RxSize - 1))
          /\ ChainAt(pc, i, cur, rx, chain)
    BY DEF NetInv, RxInv, RxSound
  <1>2. RxOut = OutOf(rx, la, held, f)
    BY SameOut
  <1>3. RingSize(RxSize)
    BY ConstLemma
  <1> HIDE DEF la, held, f
  <1>4. FreeChain(rx, chain, OutOf(rx, la, held, f), RxSize)
    BY <1>1, <1>3, ChainFacts
  <1>5. OutOf(rx, la, held, f) \subseteq 0 .. (RxSize - 1)
    BY <1>1, <1>3, OutInD
  <1> QED
    BY <1>1, <1>2, <1>4, <1>5

(* virtio_net_poll reads rx_buffers[id] while the device has every other   *)
(* posted buffer and not this one, and descriptor n always names           *)
(* rx_buffers[n], although virtqueue_add_descriptor chooses the descriptor *)
(* and the code never looks at which one it got.                           *)
THEOREM RxBuffersOwned ==
  ASSUME PrefillOrdered
  PROVE  Spec => []RxBufferOwnership
  <1>1. NetInv => RxBufferOwnership
    <2> SUFFICES ASSUME NetInv PROVE RxBufferOwnership
      OBVIOUS
    <2>1. \A n \in RxOut : rx.addr[n] = n
      BY SameOut DEF NetInv, RxInv, RxSound, Named
    <2>2. ASSUME pc \in {"handle", "tx_idx", "refill"} PROVE cur \notin RxOut
      <3>1. PICK chain \in [1 .. rx.num_free -> 0 .. (RxSize - 1)] :
              FreeChain(rx, chain, RxOut, RxSize) /\ ChainAt(pc, i, cur, rx, chain)
        BY RxFree
      <3>2. rx.num_free = 1 /\ chain[1] = cur
        BY <2>2, <3>1 DEF ChainAt
      <3>3. 1 \in 1 .. rx.num_free
        BY <3>2
      <3>4. chain[1] \notin RxOut
        BY <3>1, <3>3 DEF FreeChain
      <3> QED
        BY <3>2, <3>4
    <2> QED
      BY <2>1, <2>2 DEF RxBufferOwnership
  <1> QED
    BY <1>1, NetAlways, PTL

(* Whatever became of the frame (a runt, no reply, a full TX queue, no     *)
(* memory), virtio_net_poll posted its buffer again: back in the main loop *)
(* every receive buffer is with the device.                                *)
THEOREM RxBuffersPosted ==
  ASSUME PrefillOrdered
  PROVE  Spec => []RxAllPosted
  <1>1. NetInv => RxAllPosted
    <2> SUFFICES ASSUME NetInv, pc = "poll" PROVE RxOut = Descs(rx) /\ rx.num_free = 0
      BY DEF RxAllPosted
    <2>1. PICK chain \in [1 .. rx.num_free -> 0 .. (RxSize - 1)] :
            FreeChain(rx, chain, RxOut, RxSize) /\ ChainAt(pc, i, cur, rx, chain)
            /\ RxOut \subseteq 0 .. (RxSize - 1)
      BY RxFree
    <2>2. rx.num_free = 0
      BY <2>1 DEF ChainAt
    <2>3. \A x \in 0 .. (RxSize - 1) : x \in RxOut
      <3>1. \A n \in 1 .. rx.num_free : FALSE
        BY <2>2
      <3> QED
        BY <2>1, <3>1 DEF FreeChain
    <2>4. Descs(rx) = 0 .. (RxSize - 1)
      BY DEF NetInv, Shape, Sized, Descs
    <2> QED
      BY <2>1, <2>2, <2>3, <2>4
  <1> QED
    BY <1>1, NetAlways, PTL

ViewMatches ==
  /\ AbsView.free = Descs(rx) \ RxOut /\ AbsView.filled = RxFilled
  /\ AbsView.avail = RxAvail /\ AbsView.device = dev.rx.held
  /\ AbsView.used = UsedSeq(rx)

LEMMA ViewIs == Shape => ViewMatches
  <1> SUFFICES ASSUME Shape PROVE ViewMatches
    OBVIOUS
  <1>1. Descs(rx) = 0 .. (RxSize - 1)
    BY DEF Shape, Sized, Descs
  <1>2. Filling(pc, rx) = RxFilled
    BY DEF Filling, RxFilled
  <1> QED
    BY <1>1, <1>2, SameOut DEF AbsView, View, RxAvail, ViewMatches

(* The RX queue of the driver and its device, rings, wrapping indices,     *)
(* free list and all, implements the abstract virtqueue: every step is a   *)
(* fill, a publication, a device read, a receipt or a reclaim of one       *)
(* descriptor, or none of them.                                            *)
THEOREM RxQueueRefines ==
  ASSUME PrefillOrdered
  PROVE  Spec => RxQueueImplemented
  <1>1. Init => RxQueue!Init
    <2> SUFFICES ASSUME Init PROVE RxQueue!Init
      OBVIOUS
    <2>1. AbsView = [free |-> 0 .. (RxSize - 1), filled |-> {}, avail |-> << >>,
                     device |-> {}, used |-> << >>]
      BY RxInit
    <2>2. Shape
      BY ShapeInit
    <2> QED
      BY <2>1, <2>2, ViewIs DEF RxQueue!Init, ViewMatches
  <1>2. (Shape => ViewMatches)'
    BY ViewIs, PTL
  <1>3. NetInv /\ NetInv' /\ [Next]_vars => [RxQueue!Next]_(RxQueue!vars)
    <2> SUFFICES ASSUME NetInv, NetInv', [Next]_vars
                 PROVE  [RxQueue!Next]_(RxQueue!vars)
      OBVIOUS
    <2>0. AbsMove(AbsView, AbsView')
      BY RxStep DEF NetInv
    <2> DEFINE v == AbsView
               w == AbsView'
    <2>1. /\ v.free = Descs(rx) \ RxOut /\ v.filled = RxFilled /\ v.avail = RxAvail
          /\ v.device = dev.rx.held /\ v.used = UsedSeq(rx)
      BY ViewIs DEF NetInv, ViewMatches
    <2>2. /\ w.free = (Descs(rx) \ RxOut)' /\ w.filled = RxFilled' /\ w.avail = RxAvail'
          /\ w.device = dev'.rx.held /\ w.used = UsedSeq(rx)'
      BY <1>2 DEF NetInv, ViewMatches
    <2>3. AbsMove(v, w)
      BY <2>0
    <2> HIDE DEF v, w
    <2>4. CASE w = v
      BY <2>1, <2>2, <2>4 DEF RxQueue!vars
    <2>5. CASE FillMove(v, w)
      BY <2>1, <2>2, <2>5 DEF FillMove, RxQueue!Next, RxQueue!Fill
    <2>6. CASE PublishMove(v, w)
      BY <2>1, <2>2, <2>6 DEF PublishMove, RxQueue!Next, RxQueue!Publish
    <2>7. CASE TakeMove(v, w)
      BY <2>1, <2>2, <2>7 DEF TakeMove, RxQueue!Next, RxQueue!Take
    <2>8. CASE CompleteMove(v, w)
      BY <2>1, <2>2, <2>8 DEF CompleteMove, RxQueue!Next, RxQueue!Complete
    <2>9. CASE ReclaimMove(v, w)
      BY <2>1, <2>2, <2>9 DEF ReclaimMove, RxQueue!Next, RxQueue!Reclaim
    <2> QED
      BY <2>3, <2>4, <2>5, <2>6, <2>7, <2>8, <2>9 DEF AbsMove
  <1> QED
    BY <1>1, <1>3, NetAlways, PTL DEF Spec, RxQueueImplemented, RxQueue!Spec

=============================================================================
