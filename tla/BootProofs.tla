----------------------------- MODULE BootProofs -----------------------------
(***************************************************************************)
(* Proofs about module Boot, for every machine: what xhci_init reports     *)
(* (WaitInv), the network device in the main loop (NicInv), the timer's    *)
(* interrupt (IrqInv), and the way of a register bank through page tables  *)
(* and BARs (MapInv, BarInv, BankInv).  PlaceInv, where the kernel is, is  *)
(* the base of all of them.                                                *)
(*                                                                         *)
(* Module Ioremap comes first, by itself, with drivers that ask for any    *)
(* bank in any order.  The dynamic region is counted in pages: page n      *)
(* starts at Addr(n) and has the table entry PageSlot(n).  Different pages *)
(* have different entries, so a mapping can disturb no earlier one.        *)
(***************************************************************************)
EXTENDS Boot, NumberLemmas, FiniteSetTheorems, TLAPS

Banks == [phys : Nat, size : Nat]

PageCount == TABLES * ENTRIES
Addr(n) == VMALLOC_START + n * PAGE_SIZE
PageSlot(n) == <<n \div ENTRIES, n % ENTRIES>>

(* memory.c:80-91: no mapping begins in a page of another, which a write   *)
(* through either would reach, however short or unaligned the banks are.   *)
MappingsApart ==
  \A m, n \in mapped :
    m # n => m.virt + m.size <= PageOf(n.virt) \/ n.virt + n.size <= PageOf(m.virt)

(* Everything handed out lies below vmalloc_ptr, which is a page's start.  *)
MapInv ==
  /\ \E p \in 0 .. PageCount : vmalloc_ptr = Addr(p)
  /\ \A m \in mapped : VMALLOC_START <= m.virt /\ m.virt + m.size <= vmalloc_ptr
  /\ MappedBanksTranslate
  /\ MappingsApart

-----------------------------------------------------------------------------
LEMMA ConstLemma ==
  /\ PAGE_SIZE \in Nat \ {0} /\ ENTRIES \in Nat \ {0} /\ TABLES \in Nat \ {0}
  /\ TABLES <= ENTRIES
  /\ PageCount \in Nat
  /\ VMALLOC_START \in Nat
  /\ VMALLOC_START = PAGE_SIZE * (2 * (ENTRIES * ENTRIES))
  /\ VMALLOC_MAX = Addr(PageCount)
  /\ VMALLOC_MAX \in Nat
  <1>1. /\ PAGE_SIZE \in Nat \ {0} /\ ENTRIES \in Nat \ {0} /\ TABLES \in Nat \ {0}
        /\ TABLES <= ENTRIES
    BY IoremapAssumption
  <1>2. PageCount \in Nat
    BY <1>1, MulLemma DEF PageCount
  <1>3. VMALLOC_START = PAGE_SIZE * (2 * (ENTRIES * ENTRIES))
    BY <1>1 DEF VMALLOC_START, GB
  <1>4. VMALLOC_START \in Nat
    <2>1. ENTRIES * ENTRIES \in Nat
      BY <1>1, MulLemma
    <2>2. 2 * (ENTRIES * ENTRIES) \in Nat
      BY <2>1
    <2> QED
      BY <1>1, <1>3, <2>2, MulLemma
  <1>5. VMALLOC_MAX = Addr(PageCount)
    BY <1>1 DEF VMALLOC_MAX, Addr, PageCount
  <1>6. VMALLOC_MAX \in Nat
    <2>1. PAGE_SIZE * PageCount \in Nat
      BY <1>1, <1>2, MulLemma
    <2> QED
      BY <1>1, <1>2, <1>4, <1>5, <2>1 DEF Addr
  <1> QED
    BY <1>1, <1>2, <1>3, <1>4, <1>5, <1>6

LEMMA PageSlotLemma ==
  ASSUME NEW n \in 0 .. PageCount - 1
  PROVE  /\ PageSlot(n) \in Slots
         /\ n \div ENTRIES \in 0 .. TABLES - 1
         /\ n % ENTRIES \in 0 .. ENTRIES - 1
         /\ n = ENTRIES * (n \div ENTRIES) + (n % ENTRIES)
  <1>1. n \in Nat /\ n < TABLES * ENTRIES
    BY ConstLemma DEF PageCount
  <1>2. /\ n \div ENTRIES \in Nat
        /\ n % ENTRIES \in 0 .. ENTRIES - 1
        /\ n = ENTRIES * (n \div ENTRIES) + (n % ENTRIES)
    BY <1>1, ConstLemma, DivModType
  <1>3. (n \div ENTRIES) * ENTRIES < TABLES * ENTRIES
    <2>1. (n \div ENTRIES) * ENTRIES <= n
      BY <1>2, ConstLemma
    <2> QED
      BY <1>1, <1>2, <2>1, ConstLemma
  <1>4. n \div ENTRIES < TABLES
    BY <1>2, <1>3, ConstLemma, MulOrder
  <1>5. n \div ENTRIES \in 0 .. TABLES - 1
    BY <1>2, <1>4, ConstLemma
  <1> QED
    BY <1>2, <1>5 DEF PageSlot, Slots

(* Different pages have different entries. *)
LEMMA PageSlotInjective ==
  ASSUME NEW m \in 0 .. PageCount - 1, NEW n \in 0 .. PageCount - 1, PageSlot(m) = PageSlot(n)
  PROVE  m = n
  <1>1. m \div ENTRIES = n \div ENTRIES /\ m % ENTRIES = n % ENTRIES
    BY DEF PageSlot
  <1> QED
    BY <1>1, PageSlotLemma

(* The walk from an address of page n takes the entry PageSlot(n). *)
LEMMA WalkLemma ==
  ASSUME NEW n \in 0 .. PageCount - 1, NEW off \in 0 .. PAGE_SIZE - 1
  PROVE  /\ <<l2_idx(Addr(n) + off), l3_idx(Addr(n) + off)>> = PageSlot(n)
         /\ (Addr(n) + off) % PAGE_SIZE = off
         /\ Addr(n) \in Nat
  <1> DEFINE va == Addr(n) + off
             E2 == ENTRIES * ENTRIES
             t == n \div ENTRIES
             e == n % ENTRIES
  <1>1. /\ t \in 0 .. TABLES - 1 /\ e \in 0 .. ENTRIES - 1
        /\ n = ENTRIES * t + e
    BY PageSlotLemma
  <1>2. E2 \in Nat /\ n \in Nat /\ off \in Nat
    BY ConstLemma, MulLemma
  <1>3. Addr(n) = PAGE_SIZE * (2 * E2 + n)
    BY <1>2, ConstLemma DEF Addr
  <1>4. va \div PAGE_SIZE = 2 * E2 + n /\ va % PAGE_SIZE = off
    <2> DEFINE q == 2 * E2 + n
    <2>1. q \in Nat
      BY <1>2
    <2>2. va = PAGE_SIZE * q + off
      BY <1>3
    <2> HIDE DEF q, va
    <2>3. va \div PAGE_SIZE = q /\ va % PAGE_SIZE = off
      BY <2>1, <2>2, ConstLemma, DivModUnique
    <2> QED
      BY <2>3 DEF q
  <1>5. (2 * E2 + n) % ENTRIES = e
    <2> DEFINE q == 2 * ENTRIES + t
    <2>1. 2 * E2 + n = ENTRIES * q + e
      BY <1>1, ConstLemma
    <2>2. q \in Nat
      BY <1>1, ConstLemma
    <2> HIDE DEF q, e
    <2>3. (ENTRIES * q + e) % ENTRIES = e
      BY <1>1, <2>2, ConstLemma, DivModUnique
    <2> QED
      BY <2>1, <2>3
  <1>6. va \div (ENTRIES * PAGE_SIZE) = 2 * ENTRIES + t
    <2> DEFINE S == ENTRIES * PAGE_SIZE
               r == PAGE_SIZE * e + off
    <2>1. S \in Nat \ {0}
      <3>1. S >= ENTRIES
        BY ConstLemma, MulLemma
      <3> QED
        BY <3>1, ConstLemma, MulLemma
    <2>2. r \in 0 .. S - 1
      <3> HIDE DEF e
      <3>1. PAGE_SIZE * e \in Nat
        BY <1>1, ConstLemma, MulLemma
      <3>2. (e + 1) * PAGE_SIZE <= ENTRIES * PAGE_SIZE
        BY <1>1, ConstLemma, MulOrder
      <3>3. (e + 1) * PAGE_SIZE = PAGE_SIZE * e + PAGE_SIZE
        BY <1>1, ConstLemma
      <3> QED
        BY <1>2, <3>1, <3>2, <3>3, ConstLemma
    <2>3. va = S * (2 * ENTRIES + t) + r
      <3> HIDE DEF t, e
      <3> QED
        BY <1>1, <1>2, <1>3, ConstLemma
    <2>4. 2 * ENTRIES + t \in Nat
      BY <1>1, ConstLemma
    <2> HIDE DEF S, r, va, t
    <2>5. va \div S = 2 * ENTRIES + t
      BY <2>1, <2>2, <2>3, <2>4, DivModUnique
    <2> QED
      BY <2>5 DEF S
  <1>7. (2 * ENTRIES + t) % ENTRIES = t
    <2>1. t \in 0 .. ENTRIES - 1
      BY <1>1, ConstLemma
    <2>2. 2 * ENTRIES + t = ENTRIES * 2 + t
      BY <1>1, ConstLemma
    <2> HIDE DEF t
    <2> QED
      BY <2>1, <2>2, ConstLemma, DivModUnique
  <1>8. l2_idx(va) = t /\ l3_idx(va) = e
    BY <1>4, <1>5, <1>6, <1>7 DEF l2_idx, l3_idx
  <1>9. Addr(n) \in Nat
    BY <1>2, <1>3, ConstLemma, MulLemma
  <1> QED
    BY <1>4, <1>8, <1>9 DEF PageSlot

-----------------------------------------------------------------------------
LEMMA PageOfLemma ==
  ASSUME NEW a \in Nat
  PROVE  /\ PageOf(a) \in Nat
         /\ a % PAGE_SIZE \in Nat
         /\ a % PAGE_SIZE \in 0 .. PAGE_SIZE - 1
         /\ a = PageOf(a) + (a % PAGE_SIZE)
         /\ PageOf(PageOf(a)) = PageOf(a)
  <1> DEFINE q == a \div PAGE_SIZE
             r == a % PAGE_SIZE
  <1>1. q \in Nat /\ r \in 0 .. PAGE_SIZE - 1 /\ a = PAGE_SIZE * q + r
    BY ConstLemma, DivModType
  <1>2. PageOf(a) = PAGE_SIZE * q + 0 /\ PageOf(a) \in Nat
    BY <1>1, ConstLemma, MulLemma DEF PageOf
  <1>3. PageOf(a) % PAGE_SIZE = 0
    <2> HIDE DEF q
    <2>1. 0 \in 0 .. PAGE_SIZE - 1
      BY ConstLemma
    <2> QED
      BY <1>1, <1>2, <2>1, ConstLemma, DivModUnique
  <1> QED
    BY <1>1, <1>2, <1>3, ConstLemma DEF PageOf

(* A size rounded up is that many pages, and covers the size. *)
LEMMA RoundUpLemma ==
  ASSUME NEW size \in Nat \ {0}
  PROVE  \E s \in Nat \ {0} :
           /\ RoundUp(size) = s * PAGE_SIZE /\ size <= s * PAGE_SIZE
           /\ RoundUp(s * PAGE_SIZE) = s * PAGE_SIZE
           /\ (s * PAGE_SIZE) \div PAGE_SIZE = s
  <1> DEFINE a == size + PAGE_SIZE - 1
             s == a \div PAGE_SIZE
             r == a % PAGE_SIZE
  <1>1. a \in Nat
    BY ConstLemma
  <1>2. s \in Nat /\ r \in 0 .. PAGE_SIZE - 1 /\ a = PAGE_SIZE * s + r
    BY <1>1, ConstLemma, DivModType
  <1>3. RoundUp(size) = PAGE_SIZE * s /\ size <= PAGE_SIZE * s
    BY <1>2, ConstLemma, MulLemma DEF RoundUp, PageOf
  <1> HIDE DEF s
  <1>4. s # 0
    BY <1>2, <1>3, ConstLemma
  <1>5. RoundUp(PAGE_SIZE * s) = PAGE_SIZE * s
    <2>1. PAGE_SIZE - 1 \in 0 .. PAGE_SIZE - 1
      BY ConstLemma
    <2>2. (PAGE_SIZE * s + (PAGE_SIZE - 1)) % PAGE_SIZE = PAGE_SIZE - 1
      BY <1>2, <2>1, ConstLemma, DivModUnique
    <2>3. PAGE_SIZE * s + PAGE_SIZE - 1 = PAGE_SIZE * s + (PAGE_SIZE - 1)
      BY <1>2, ConstLemma
    <2>4. PAGE_SIZE * s \in Nat
      BY <1>2, ConstLemma, MulLemma
    <2> QED
      BY <2>2, <2>3, <2>4, ConstLemma DEF RoundUp, PageOf
  <1>6. (PAGE_SIZE * s) \div PAGE_SIZE = s
    <2>1. 0 \in 0 .. PAGE_SIZE - 1
      BY ConstLemma
    <2>2. (PAGE_SIZE * s + 0) \div PAGE_SIZE = s
      BY <1>2, <2>1, ConstLemma, DivModUnique
    <2>3. PAGE_SIZE * s + 0 = PAGE_SIZE * s
      BY <1>2, ConstLemma
    <2> QED
      BY <2>2, <2>3
  <1>7. s * PAGE_SIZE = PAGE_SIZE * s
    BY <1>2, ConstLemma
  <1> QED
    BY <1>2, <1>3, <1>4, <1>5, <1>6, <1>7

(* mmu_map_region over pages p .. p + s - 1 of the region: these get the   *)
(* consecutive physical pages, every other entry is left alone.            *)
LEMMA MapRegionLemma ==
  ASSUME TypeOK, NEW p \in Nat, NEW s \in Nat \ {0}, p + s <= PageCount,
         NEW pa \in Nat, (s * PAGE_SIZE) \div PAGE_SIZE = s,
         NEW pool, pool = mmu_map_region(Addr(p), pa, s * PAGE_SIZE)
  PROVE  /\ pool \in [Slots -> Nat \cup {NoPage}]
         /\ \A n \in 0 .. s - 1 : pool[PageSlot(p + n)] = PageOf(pa) + PAGE_SIZE * n
         /\ \A n \in 0 .. p - 1 : pool[PageSlot(n)] = l3_pool[PageSlot(n)]
  <1> DEFINE to(slot) == PagesTo(slot, Addr(p), s * PAGE_SIZE)
  <1>1. \A n \in 0 .. s - 1 :
          <<l2_idx(Addr(p) + n * PAGE_SIZE), l3_idx(Addr(p) + n * PAGE_SIZE)>> = PageSlot(p + n)
    <2> TAKE n \in 0 .. s - 1
    <2>1. p + n \in 0 .. PageCount - 1 /\ 0 \in 0 .. PAGE_SIZE - 1
      BY ConstLemma
    <2>2. Addr(p) + n * PAGE_SIZE = Addr(p + n) + 0
      BY ConstLemma DEF Addr
    <2> QED
      BY <2>1, <2>2, WalkLemma
  <1>2. \A slot : to(slot) = {n \in 0 .. s - 1 : PageSlot(p + n) = slot}
    BY <1>1 DEF PagesTo
  <1> HIDE DEF to
  <1>3. ASSUME NEW slot, NEW n \in to(slot)
        PROVE  /\ n \in 0 .. s - 1 /\ slot = PageSlot(p + n)
               /\ Max(to(slot)) = n
    <2>1. n \in 0 .. s - 1 /\ slot = PageSlot(p + n)
      BY <1>2, <1>3
    <2>2. \A m \in to(slot) : m = n
      <3> TAKE m \in to(slot)
      <3>1. m \in 0 .. s - 1 /\ PageSlot(p + m) = PageSlot(p + n)
        BY <1>2, <2>1
      <3>2. p + m \in 0 .. PageCount - 1 /\ p + n \in 0 .. PageCount - 1
        BY <2>1, <3>1, ConstLemma
      <3>3. p + m = p + n
        BY <3>1, <3>2, PageSlotInjective
      <3> QED
        BY <2>1, <3>1, <3>3
    <2>3. to(slot) = {n}
      BY <1>3, <2>2
    <2> QED
      BY <2>1, <2>3 DEF Max
  <1>4. pool = [slot \in Slots |-> IF to(slot) = {} THEN l3_pool[slot]
                                   ELSE PageOf(pa) + PAGE_SIZE * Max(to(slot))]
    BY DEF mmu_map_region, to
  <1>5. pool \in [Slots -> Nat \cup {NoPage}]
    <2>1. ASSUME NEW slot \in Slots, to(slot) # {}
          PROVE  PageOf(pa) + PAGE_SIZE * Max(to(slot)) \in Nat
      <3> DEFINE n == Max(to(slot))
      <3>1. n \in Nat
        BY <1>3, <2>1
      <3> HIDE DEF n
      <3>2. PAGE_SIZE * n \in Nat
        BY <3>1, ConstLemma, MulLemma
      <3>3. PageOf(pa) \in Nat
        BY PageOfLemma
      <3> QED
        BY <3>2, <3>3 DEF n
    <2> QED
      BY <1>4, <2>1 DEF TypeOK
  <1>6. ASSUME NEW n \in 0 .. s - 1
        PROVE  pool[PageSlot(p + n)] = PageOf(pa) + PAGE_SIZE * n
    <2>1. n \in to(PageSlot(p + n))
      BY <1>2
    <2>2. Max(to(PageSlot(p + n))) = n
      BY <1>3, <2>1
    <2>3. p + n \in 0 .. PageCount - 1
      BY ConstLemma
    <2> QED
      BY <1>4, <2>1, <2>2, <2>3, PageSlotLemma
  <1>7. ASSUME NEW n \in 0 .. p - 1
        PROVE  pool[PageSlot(n)] = l3_pool[PageSlot(n)]
    <2>1. n \in 0 .. PageCount - 1
      BY ConstLemma
    <2>2. ASSUME NEW m \in 0 .. s - 1 PROVE PageSlot(p + m) # PageSlot(n)
      <3>1. p + m \in 0 .. PageCount - 1 /\ p + m # n
        BY ConstLemma
      <3> QED
        BY <2>1, <3>1, PageSlotInjective
    <2>3. to(PageSlot(n)) = {}
      BY <1>2, <2>2
    <2> QED
      BY <1>4, <2>1, <2>3, PageSlotLemma
  <1> QED
    BY <1>5, <1>6, <1>7

-----------------------------------------------------------------------------
(* What ioremap does, in pages: it takes s pages at the next one, p. *)
LEMMA IoremapEffect ==
  ASSUME TypeOK, MapInv, NEW b \in Banks, ioremap(b)
  PROVE  \E p \in Nat, s \in Nat \ {0} :
           /\ vmalloc_ptr = Addr(p)
           /\ p + s <= PageCount
           /\ vmalloc_ptr' = Addr(p + s)
           /\ (b.phys % PAGE_SIZE) + b.size <= s * PAGE_SIZE
           /\ l3_pool' \in [Slots -> Nat \cup {NoPage}]
           /\ \A n \in 0 .. s - 1 :
                l3_pool'[PageSlot(p + n)] = PageOf(b.phys) + PAGE_SIZE * n
           /\ \A n \in 0 .. p - 1 : l3_pool'[PageSlot(n)] = l3_pool[PageSlot(n)]
  <1>1. PICK p \in 0 .. PageCount : vmalloc_ptr = Addr(p)
    BY DEF MapInv
  <1>2. b.phys \in Nat /\ b.size \in Nat \ {0}
    BY DEF Banks, ioremap
  <1>3. (b.phys % PAGE_SIZE) + b.size \in Nat \ {0}
    <2>1. b.phys % PAGE_SIZE \in Nat
      BY <1>2, PageOfLemma, ConstLemma
    <2> QED
      BY <1>2, <2>1
  <1>4. PICK s \in Nat \ {0} :
          /\ map_size(b) = s * PAGE_SIZE
          /\ (b.phys % PAGE_SIZE) + b.size <= s * PAGE_SIZE
          /\ RoundUp(s * PAGE_SIZE) = s * PAGE_SIZE
          /\ (s * PAGE_SIZE) \div PAGE_SIZE = s
    BY <1>3, RoundUpLemma DEF map_size
  <1>5. p \in Nat /\ p + s \in Nat
    BY <1>1, ConstLemma
  <1>6. Addr(p) + s * PAGE_SIZE = Addr(p + s)
    BY <1>5, ConstLemma DEF Addr
  <1>7. p + s <= PageCount
    <2>1. Addr(p + s) <= Addr(PageCount)
      BY <1>1, <1>4, <1>6, ConstLemma DEF ioremap, VmallocFits
    <2>2. (p + s) * PAGE_SIZE <= PageCount * PAGE_SIZE
      <3>1. (p + s) * PAGE_SIZE \in Int /\ PageCount * PAGE_SIZE \in Int
        BY <1>5, ConstLemma
      <3> QED
        BY <2>1, <3>1, ConstLemma DEF Addr
    <2> QED
      BY <1>5, <2>2, ConstLemma, MulOrder
  <1>8. vmalloc_ptr' = Addr(p + s)
    BY <1>1, <1>4, <1>6 DEF ioremap
  <1>9. l3_pool' = mmu_map_region(Addr(p), PageOf(b.phys), s * PAGE_SIZE)
    BY <1>1, <1>4 DEF ioremap
  <1>10. PageOf(b.phys) \in Nat /\ PageOf(PageOf(b.phys)) = PageOf(b.phys)
    BY <1>2, PageOfLemma
  <1>11. /\ l3_pool' \in [Slots -> Nat \cup {NoPage}]
         /\ \A n \in 0 .. s - 1 : l3_pool'[PageSlot(p + n)] = PageOf(b.phys) + PAGE_SIZE * n
         /\ \A n \in 0 .. p - 1 : l3_pool'[PageSlot(n)] = l3_pool[PageSlot(n)]
    BY <1>4, <1>5, <1>7, <1>9, <1>10, MapRegionLemma
  <1> QED
    BY <1>1, <1>4, <1>5, <1>7, <1>8, <1>11

(* Where an address of the region lies, in pages *)
LEMMA AddressLemma ==
  ASSUME NEW p \in Nat, p <= PageCount, NEW va \in Nat, VMALLOC_START <= va, va < Addr(p)
  PROVE  \E n \in 0 .. p - 1, off \in 0 .. PAGE_SIZE - 1 : va = Addr(n) + off
  <1> DEFINE a == va - VMALLOC_START
             n == a \div PAGE_SIZE
             off == a % PAGE_SIZE
  <1>1. a \in Nat /\ va = VMALLOC_START + a
    BY ConstLemma
  <1>2. n \in Nat /\ off \in 0 .. PAGE_SIZE - 1 /\ a = PAGE_SIZE * n + off
    BY <1>1, ConstLemma, DivModType
  <1> HIDE DEF n, off, a
  <1>3. va = Addr(n) + off
    BY <1>1, <1>2, ConstLemma DEF Addr
  <1>4. n * PAGE_SIZE < p * PAGE_SIZE
    <2>1. a < p * PAGE_SIZE
      <3>1. p * PAGE_SIZE \in Int
        BY ConstLemma
      <3> QED
        BY <1>1, <3>1, ConstLemma DEF Addr
    <2>2. n * PAGE_SIZE = PAGE_SIZE * n /\ PAGE_SIZE * n \in Nat /\ p * PAGE_SIZE \in Int
      BY <1>2, ConstLemma, MulLemma
    <2> QED
      BY <1>1, <1>2, <2>1, <2>2
  <1>5. n < p
    BY <1>2, <1>4, ConstLemma, MulOrder
  <1> QED
    BY <1>2, <1>3, <1>5

LEMMA IoremapType ==
  ASSUME TypeOK, MapInv, NEW b \in Banks, ioremap(b)
  PROVE  TypeOK'
  <1>1. PICK p \in Nat, s \in Nat \ {0} :
          /\ vmalloc_ptr = Addr(p)
          /\ p + s <= PageCount
          /\ vmalloc_ptr' = Addr(p + s)
          /\ l3_pool' \in [Slots -> Nat \cup {NoPage}]
    BY IoremapEffect
  <1>2. /\ vmalloc_ptr' \in VMALLOC_START .. VMALLOC_MAX
        /\ vmalloc_ptr' % PAGE_SIZE = 0
    <2> DEFINE q == 2 * (ENTRIES * ENTRIES) + (p + s)
    <2>1. q \in Nat
      BY <1>1, ConstLemma, MulLemma
    <2>2. vmalloc_ptr' = PAGE_SIZE * q + 0
      BY <1>1, ConstLemma DEF Addr
    <2>3. 0 \in 0 .. PAGE_SIZE - 1
      BY ConstLemma
    <2> HIDE DEF q
    <2>4. vmalloc_ptr' % PAGE_SIZE = 0
      BY <2>1, <2>2, <2>3, ConstLemma, DivModUnique
    <2>5. vmalloc_ptr' \in Nat
      BY <2>1, <2>2, ConstLemma, MulLemma
    <2>6. 0 <= (p + s) * PAGE_SIZE /\ (p + s) * PAGE_SIZE <= PageCount * PAGE_SIZE
      BY <1>1, ConstLemma, MulLemma, MulOrder
    <2>7. vmalloc_ptr' >= VMALLOC_START /\ vmalloc_ptr' <= VMALLOC_MAX
      <3>1. (p + s) * PAGE_SIZE \in Int /\ PageCount * PAGE_SIZE \in Int
        BY <1>1, ConstLemma
      <3> QED
        BY <1>1, <2>6, <3>1, ConstLemma DEF Addr
    <2>8. vmalloc_ptr' \in VMALLOC_START .. VMALLOC_MAX
      BY <2>5, <2>7, ConstLemma
    <2> QED
      BY <2>4, <2>8
  <1>3. mapped' \subseteq [virt : Nat, phys : Nat, size : Nat]
    <2>1. b.phys \in Nat /\ b.size \in Nat /\ b.phys % PAGE_SIZE \in Nat
      BY PageOfLemma DEF Banks
    <2>2. vmalloc_ptr \in Nat
      BY ConstLemma DEF TypeOK
    <2> QED
      BY <2>1, <2>2 DEF ioremap, TypeOK
  <1> QED
    BY <1>1, <1>2, <1>3 DEF TypeOK

-----------------------------------------------------------------------------
(* The banks mapped before are translated as before. *)
LEMMA OldBanks ==
  ASSUME TypeOK, MapInv, NEW b \in Banks, ioremap(b),
         NEW m \in mapped, NEW k \in 0 .. m.size - 1
  PROVE  Translate(m.virt + k)' = m.phys + k
  <1>1. PICK p \in Nat, s \in Nat \ {0} :
          /\ vmalloc_ptr = Addr(p)
          /\ p + s <= PageCount
          /\ \A n \in 0 .. p - 1 : l3_pool'[PageSlot(n)] = l3_pool[PageSlot(n)]
    BY IoremapEffect
  <1> DEFINE va == m.virt + k
  <1>2. /\ m \in [virt : Nat, phys : Nat, size : Nat]
        /\ VMALLOC_START <= m.virt /\ m.virt + m.size <= vmalloc_ptr
        /\ Translate(va) = m.phys + k
    BY DEF TypeOK, MapInv, MappedBanksTranslate
  <1>3. va \in Nat /\ VMALLOC_START <= va /\ va < Addr(p)
    <2>1. vmalloc_ptr \in Int
      BY ConstLemma DEF TypeOK, VMALLOC_MAX
    <2> QED
      BY <1>1, <1>2, <2>1, ConstLemma
  <1>4. PICK n \in 0 .. p - 1, off \in 0 .. PAGE_SIZE - 1 : va = Addr(n) + off
    BY <1>1, <1>3, AddressLemma, ConstLemma
  <1>5. n \in 0 .. PageCount - 1
    BY <1>1, <1>4, ConstLemma
  <1>6. <<l2_idx(va), l3_idx(va)>> = PageSlot(n)
    BY <1>4, <1>5, WalkLemma
  <1>7. l3_pool'[PageSlot(n)] = l3_pool[PageSlot(n)]
    BY <1>1
  <1> HIDE DEF va
  <1>8. Translate(va)' = Translate(va)
    BY <1>6, <1>7 DEF Translate
  <1> QED
    BY <1>2, <1>8 DEF va

(* The new bank, from its offset in the first page on: byte k lies in page *)
(* (offset + k) \div PAGE_SIZE of it.                                      *)
LEMMA NewBank ==
  ASSUME TypeOK, MapInv, NEW b \in Banks, ioremap(b), NEW k \in 0 .. b.size - 1,
         NEW va, va = vmalloc_ptr + (b.phys % PAGE_SIZE) + k
  PROVE  Translate(va)' = b.phys + k
  <1>1. PICK p \in Nat, s \in Nat \ {0} :
          /\ vmalloc_ptr = Addr(p)
          /\ p + s <= PageCount
          /\ (b.phys % PAGE_SIZE) + b.size <= s * PAGE_SIZE
          /\ \A n \in 0 .. s - 1 : l3_pool'[PageSlot(p + n)] = PageOf(b.phys) + PAGE_SIZE * n
    BY IoremapEffect
  <1> DEFINE o == b.phys % PAGE_SIZE
             a == o + k
             n == a \div PAGE_SIZE
             off == a % PAGE_SIZE
  <1>2. b.phys \in Nat /\ b.size \in Nat /\ k \in Nat
    BY DEF Banks
  <1>3. /\ PageOf(b.phys) \in Nat /\ o \in Nat
        /\ b.phys = PageOf(b.phys) + o
    BY <1>2, PageOfLemma, ConstLemma
  <1>4. a \in Nat
    BY <1>2, <1>3
  <1>5. /\ n \in Nat /\ off \in 0 .. PAGE_SIZE - 1
        /\ a = PAGE_SIZE * n + off
    BY <1>4, ConstLemma, DivModType
  <1>6. a < s * PAGE_SIZE
    <2>1. s * PAGE_SIZE \in Int
      BY ConstLemma
    <2> QED
      BY <1>1, <1>2, <1>3, <2>1
  <1> HIDE DEF n, off
  <1>7. n \in 0 .. s - 1
    <2>1. n * PAGE_SIZE = PAGE_SIZE * n /\ PAGE_SIZE * n \in Nat /\ s * PAGE_SIZE \in Int
      BY <1>5, ConstLemma, MulLemma
    <2>2. n * PAGE_SIZE < s * PAGE_SIZE
      BY <1>4, <1>5, <1>6, <2>1
    <2> QED
      BY <1>5, <2>2, ConstLemma, MulOrder
  <1>8. va = Addr(p + n) + off
    <2>1. Addr(p + n) = Addr(p) + PAGE_SIZE * n
      BY <1>5, ConstLemma DEF Addr
    <2>2. Addr(p) \in Int /\ PAGE_SIZE * n \in Nat
      BY <1>5, ConstLemma, MulLemma DEF Addr
    <2> QED
      BY <1>1, <1>2, <1>3, <1>5, <2>1, <2>2
  <1>9. p + n \in 0 .. PageCount - 1
    BY <1>1, <1>7, ConstLemma
  <1>10. /\ <<l2_idx(va), l3_idx(va)>> = PageSlot(p + n)
         /\ va % PAGE_SIZE = off
         /\ PageSlot(p + n) \in Slots
    BY <1>5, <1>8, <1>9, WalkLemma, PageSlotLemma
  <1>11. /\ l3_pool'[PageSlot(p + n)] = PageOf(b.phys) + PAGE_SIZE * n
         /\ l3_pool'[PageSlot(p + n)] # NoPage
    <2>1. PAGE_SIZE * n \in Nat
      BY <1>5, ConstLemma, MulLemma
    <2> QED
      BY <1>1, <1>3, <1>7, <2>1 DEF NoPage
  <1>12. Translate(va)' = PageOf(b.phys) + PAGE_SIZE * n + off
    BY <1>10, <1>11 DEF Translate, Slots
  <1>13. PageOf(b.phys) + PAGE_SIZE * n + off = b.phys + k
    <2>1. PAGE_SIZE * n \in Nat
      BY <1>5, ConstLemma, MulLemma
    <2> QED
      BY <1>2, <1>3, <1>5, <2>1
  <1> QED
    BY <1>12, <1>13

LEMMA IoremapInv ==
  ASSUME TypeOK, MapInv, NEW b \in Banks, ioremap(b)
  PROVE  MapInv'
  <1>1. PICK p \in Nat, s \in Nat \ {0} :
          /\ vmalloc_ptr = Addr(p)
          /\ p + s <= PageCount
          /\ vmalloc_ptr' = Addr(p + s)
          /\ (b.phys % PAGE_SIZE) + b.size <= s * PAGE_SIZE
    BY IoremapEffect
  <1> DEFINE new == [virt |-> vmalloc_ptr + (b.phys % PAGE_SIZE), phys |-> b.phys,
                     size |-> b.size]
  <1>2. mapped' = mapped \cup {new}
    BY DEF ioremap
  <1>3. /\ b.phys % PAGE_SIZE \in Nat /\ b.size \in Nat
        /\ vmalloc_ptr \in Nat /\ VMALLOC_START <= vmalloc_ptr
    <2>1. b.phys \in Nat /\ b.size \in Nat
      BY DEF Banks
    <2>2. b.phys % PAGE_SIZE \in Nat
      BY <2>1, PageOfLemma
    <2> QED
      BY <2>1, <2>2, ConstLemma DEF TypeOK
  <1>4. vmalloc_ptr' = vmalloc_ptr + s * PAGE_SIZE /\ s * PAGE_SIZE \in Nat
    <2>1. Addr(p + s) = Addr(p) + s * PAGE_SIZE /\ s * PAGE_SIZE = PAGE_SIZE * s
      BY ConstLemma DEF Addr
    <2>2. PAGE_SIZE * s \in Nat
      BY ConstLemma, MulLemma
    <2> QED
      BY <1>1, <2>1, <2>2
  <1>5. \E n \in 0 .. PageCount : vmalloc_ptr' = Addr(n)
    <2>1. p + s \in 0 .. PageCount
      BY <1>1, ConstLemma
    <2> QED
      BY <1>1, <2>1
  <1>6. \A m \in mapped' : VMALLOC_START <= m.virt /\ m.virt + m.size <= vmalloc_ptr'
    <2>1. ASSUME NEW m \in mapped
          PROVE  VMALLOC_START <= m.virt /\ m.virt + m.size <= vmalloc_ptr'
      <3>1. m.virt \in Nat /\ m.size \in Nat
        BY DEF TypeOK
      <3>2. VMALLOC_START <= m.virt /\ m.virt + m.size <= vmalloc_ptr
        BY DEF MapInv
      <3> QED
        BY <1>3, <1>4, <3>1, <3>2
    <2>2. VMALLOC_START <= new.virt /\ new.virt + new.size <= vmalloc_ptr'
      BY <1>1, <1>3, <1>4, ConstLemma
    <2> QED
      BY <1>2, <2>1, <2>2
  <1>7. MappedBanksTranslate'
    <2>1. ASSUME NEW m \in mapped, NEW k \in 0 .. m.size - 1
          PROVE  Translate(m.virt + k)' = m.phys + k
      BY OldBanks
    <2>2. ASSUME NEW m, m = new, NEW k \in 0 .. m.size - 1
          PROVE  Translate(m.virt + k)' = m.phys + k
      <3>1. /\ m.virt + k = vmalloc_ptr + (b.phys % PAGE_SIZE) + k
            /\ k \in 0 .. b.size - 1 /\ m.phys = b.phys
        BY <2>2
      <3> QED
        BY <3>1, NewBank
    <2> HIDE DEF new
    <2> QED
      BY <1>2, <2>1, <2>2 DEF MappedBanksTranslate
  <1>8. PageOf(new.virt) = vmalloc_ptr
    <2>1. p \in 0 .. PageCount - 1
      BY <1>1, ConstLemma
    <2>2. b.phys \in Nat /\ b.phys % PAGE_SIZE \in 0 .. PAGE_SIZE - 1
      BY PageOfLemma DEF Banks
    <2>3. (Addr(p) + (b.phys % PAGE_SIZE)) % PAGE_SIZE = b.phys % PAGE_SIZE
      BY <2>1, <2>2, WalkLemma
    <2> QED
      BY <1>1, <1>3, <2>3 DEF PageOf
  <1>9. MappingsApart'
    <2>1. \A m \in mapped : m.virt + m.size <= PageOf(new.virt)
      BY <1>8 DEF MapInv
    <2> HIDE DEF new
    <2>2. ASSUME NEW m \in mapped', NEW n \in mapped', m # n
          PROVE  m.virt + m.size <= PageOf(n.virt) \/ n.virt + n.size <= PageOf(m.virt)
      <3>1. CASE m \in mapped /\ n \in mapped
        BY <2>2, <3>1 DEF MapInv, MappingsApart
      <3>2. CASE m = new \/ n = new
        BY <1>2, <2>1, <2>2, <3>2
      <3> QED
        BY <1>2, <3>1, <3>2
    <2> QED
      BY <2>2 DEF MappingsApart, PageOf
  <1> QED
    BY <1>5, <1>6, <1>7, <1>9 DEF MapInv, PageCount, Addr

-----------------------------------------------------------------------------
LEMMA MapInit == Init => TypeOK /\ MapInv
  <1> SUFFICES ASSUME Init PROVE TypeOK /\ MapInv
    OBVIOUS
  <1>1. 0 \in 0 .. PageCount /\ Addr(0) = VMALLOC_START
    BY ConstLemma DEF Addr
  <1>2. VMALLOC_START % PAGE_SIZE = 0
    <2> DEFINE q == 2 * (ENTRIES * ENTRIES)
    <2>1. q \in Nat
      BY ConstLemma, MulLemma
    <2>2. VMALLOC_START = PAGE_SIZE * q + 0
      BY ConstLemma
    <2>3. 0 \in 0 .. PAGE_SIZE - 1
      BY ConstLemma
    <2> HIDE DEF q
    <2> QED
      BY <2>1, <2>2, <2>3, ConstLemma, DivModUnique
  <1>3. VMALLOC_START <= VMALLOC_MAX
    <2>1. PAGE_SIZE * PageCount \in Nat
      BY ConstLemma, MulLemma
    <2> QED
      BY <2>1, ConstLemma DEF Addr
  <1>4. TypeOK
    BY <1>2, <1>3, ConstLemma DEF Init, TypeOK
  <1>5. MapInv
    BY <1>1 DEF Init, MapInv, MappedBanksTranslate, MappingsApart
  <1> QED
    BY <1>4, <1>5

LEMMA MapStep == TypeOK /\ MapInv /\ [Next]_vars => (TypeOK /\ MapInv)'
  <1> SUFFICES ASSUME TypeOK, MapInv, [Next]_vars PROVE (TypeOK /\ MapInv)'
    OBVIOUS
  <1>1. ASSUME NEW b \in Banks, ioremap(b) PROVE (TypeOK /\ MapInv)'
    BY <1>1, IoremapType, IoremapInv
  <1>2. CASE UNCHANGED vars
    BY <1>2 DEF vars, TypeOK, MapInv, MappedBanksTranslate, MappingsApart, Translate
  <1> QED
    BY <1>1, <1>2 DEF Next, IoremapFails, Banks

LEMMA MapInvariant == Spec => [](TypeOK /\ MapInv)
  BY MapInit, MapStep, PTL DEF Spec

(* vmalloc never passes the end of the region and stays at a page's start, *)
(* and every entry holds an address or nothing.                            *)
THEOREM TypeCorrect == Spec => []TypeOK
  BY MapInvariant, PTL

(* Every byte of every bank a driver was given by ioremap translates to    *)
(* that register's physical address, for ever: pages are handed out once   *)
(* and have entries of their own, and the number of pages mapped covers    *)
(* the bank's offset in its first page as well (memory.c:94).              *)
THEOREM BanksTranslate == Spec => []MappedBanksTranslate
  <1>1. TypeOK /\ MapInv => MappedBanksTranslate
    BY DEF MapInv
  <1> QED
    BY <1>1, MapInvariant, PTL

(* Nor does a bank share a virtual page with another, not even a short one *)
(* with the next: vmalloc rounds up to whole pages (memory.c:80).          *)
THEOREM MappingsStayApart == Spec => []MappingsApart
  <1>1. TypeOK /\ MapInv => MappingsApart
    BY DEF MapInv
  <1> QED
    BY <1>1, MapInvariant, PTL

-----------------------------------------------------------------------------

XhciPlaces == {"xhci", "claim", "bios", "bios_said", "stop", "hcrst", "cnr", "reset_said"}

(* Places with the queues of the function still to be set up, and after    *)
(* the features were agreed on                                             *)
EarlyPlaces == {"virtio", "caps", "reset", "reset_wait", "negotiate"}
LatePlaces == {"driver_ok", "select", "format", "bind", "enable", "prefill", "notify"}
VirtioPlaces == EarlyPlaces \cup LatePlaces
DriverPlaces == XhciPlaces \cup VirtioPlaces
LastPlaces == {"gic", "wake", "timer", "unmask", "loop"}

(* Where the kernel is *)
PlaceInv ==
  /\ dev \in 0 .. Devs
  /\ pc \in {"scan"} \cup DriverPlaces \cup LastPlaces
  /\ pc \in DriverPlaces => dev \in DevNos
  /\ pc \in XhciPlaces => dev \notin VirtioDevs
  /\ pc \in VirtioPlaces => dev \in VirtioDevs /\ dev \in bus_master
  /\ pc \in LastPlaces => dev = Devs

-----------------------------------------------------------------------------
OwnerReports == {"BIOS released", "BIOS timeout"}
Said == {"READY", "Reset Timeout"} \cup OwnerReports

HcType ==
  /\ DOMAIN hc = DevNos
  /\ \A d \in DevNos : /\ DOMAIN hc[d] = {"bios", "os", "run", "hcrst", "cnr"}
                        /\ \A w \in Waits : hc[d][w] \in BOOLEAN

WaitType ==
  /\ HcType
  /\ timeout \in [Waits -> Int]
  /\ last \in [DevNos -> [Waits -> BOOLEAN]]
  /\ said \in [DevNos -> SUBSET Said]

(* A wait not yet begun has polls left; one that is over has none left if  *)
(* and only if its last read found the bit set.                            *)
Waiting(w) == timeout[w] > 0
Judged(w) == timeout[w] <= 0 <=> last[dev][w]

Countdowns ==
  /\ pc \in {"claim", "bios"} => Waiting("bios")
  /\ pc = "bios_said" => Judged("bios")
  /\ pc \in {"claim", "bios", "bios_said", "stop", "hcrst"} => Waiting("hcrst")
  /\ pc \in {"cnr", "reset_said"} => Judged("hcrst")
  /\ pc \in {"claim", "bios", "bios_said", "stop", "hcrst", "cnr"} => Waiting("cnr")
  /\ pc = "reset_said" => Judged("cnr")

(* Nothing is reported early, and nothing read after it was reported. *)
Silent ==
  \A d \in DevNos :
    /\ d >= dev => said[d] \subseteq OwnerReports
    /\ d > dev => said[d] = {}
    /\ d = dev /\ pc \notin {"stop", "hcrst", "cnr", "reset_said"} => said[d] = {}

WaitInv == WaitType /\ Countdowns /\ Silent /\ ReportedAsSeen

-----------------------------------------------------------------------------
StatusBits == {"ACKNOWLEDGE", "DRIVER", "FEATURES_OK", "DRIVER_OK"}

Queue == [size : Nat, enabled : BOOLEAN, at : Int]
Device == [status : SUBSET StatusBits, resetting : BOOLEAN, queue_select : Queues,
           told : Nat, queue : [Queues -> Queue]]

NicType ==
  /\ machine \in [DevNos -> DOMAIN Functions]
  /\ vio \in [DevNos -> Device]
  /\ DOMAIN vdev = DevNos
  /\ \A d \in DevNos :
       DOMAIN vdev[d] = {"common", "device", "isr", "notify", "rx_vq", "tx_vq"}
  /\ queue_index \in Queues
  /\ vq \in [Queues -> [size : Nat, avail_idx : Nat, owner : Int]]
  /\ global_vnet_dev \in VirtioDevs \cup {NoDev}

(* The stages of the one network function d *)
Early(d) == dev < d \/ (dev = d /\ pc \in {"scan"} \cup EarlyPlaces)
Late(d) == dev = d /\ pc \in LatePlaces
Past(d) == dev > d

Enabled(d, q) == vio[d].queue[q].enabled

(* Queue q of d is at its ring, and the ring is formatted for it. *)
Bound(d, q) ==
  /\ vio[d].queue[q].at = q
  /\ vq[q].owner = d /\ vq[q].size = Fn(d).queue_size[q]

RxFilled(d) ==
  /\ "DRIVER_OK" \in vio[d].status /\ d \in bus_master
  /\ vdev[d].rx_vq = "set" /\ Enabled(d, 0)
  /\ vq[0].avail_idx = Fn(d).queue_size[0]
  /\ vdev[d].notify # NULL => vio[d].told = Fn(d).queue_size[0]

(* How far virtio_net_setup_queues has got *)
Stage(d) ==
  /\ ~vio[d].resetting /\ "FEATURES_OK" \in vio[d].status
  /\ global_vnet_dev = d
  /\ pc # "driver_ok" => "DRIVER_OK" \in vio[d].status
  /\ pc \in {"prefill", "notify"} => queue_index = 0
  /\ pc = "driver_ok" => ~Enabled(d, 0)
  /\ queue_index = 0 /\ pc \in {"select", "format", "bind", "enable"} => ~Enabled(d, 0)
  /\ pc \in {"prefill", "notify"} => vdev[d].rx_vq = "set" /\ Enabled(d, 0)
  /\ (pc # "driver_ok" /\ queue_index = 1) => RxFilled(d)
  /\ ~Enabled(d, 1)
  /\ pc = "driver_ok" \/ (queue_index = 0 /\ pc # "notify") => vq[0].avail_idx = 0
  /\ pc = "notify" => vq[0].avail_idx = Fn(d).queue_size[0]
  /\ pc \in {"bind", "enable"} =>
       /\ vq[queue_index].owner = d
       /\ vq[queue_index].size = Fn(d).queue_size[queue_index]
  /\ pc = "enable" => vio[d].queue_select = queue_index /\ vio[d].queue[queue_index].at = queue_index

DeviceInv(d) ==
  /\ \A q \in Queues : vio[d].queue[q].size = Fn(d).queue_size[q]
  /\ vio[d].resetting => dev = d /\ pc = "reset_wait"
  /\ vio[d].status = {} => \A q \in Queues : ~Enabled(d, q)
  /\ dev = d /\ pc = "negotiate" => vio[d].status = {}
  /\ Early(d) => "FEATURES_OK" \notin vio[d].status /\ vq[0].avail_idx = 0
  /\ Early(d) =>
       (global_vnet_dev = d <=> dev = d /\ pc \in {"reset", "reset_wait", "negotiate"})
  /\ Late(d) => Stage(d)
  /\ "FEATURES_OK" \in vio[d].status => \A q \in Queues : Enabled(d, q) => Bound(d, q)
  /\ Past(d) /\ global_vnet_dev = d =>
       \/ Unusable(d)
       \/ RxFilled(d) /\ (Fn(d).queue_size[1] # 0 => vdev[d].tx_vq = "set" /\ Enabled(d, 1))

NicInv ==
  /\ NicType
  /\ Cardinality(VirtioDevs) = 1 => \A d \in VirtioDevs : DeviceInv(d)

-----------------------------------------------------------------------------
(* Where each part of the kernel's code may take it *)
Within(places) ==
  /\ pc \in places
  /\ (pc' \in places /\ dev' = dev) \/ (pc' = "scan" /\ dev' = dev + 1)
  /\ machine' = machine /\ bus_master' = bus_master

Probing ==
  /\ pc = "scan" /\ machine' = machine /\ bus_master \subseteq bus_master'
  /\ \/ dev < Devs /\ pc' = "scan" /\ dev' = dev + 1 /\ dev \notin VirtioDevs
     \/ dev < Devs /\ pc' = "xhci" /\ dev' = dev /\ dev \notin VirtioDevs
     \/ dev < Devs /\ pc' = "virtio" /\ dev' = dev /\ dev \in VirtioDevs /\ dev \in bus_master'
     \/ dev = Devs /\ pc' = "gic" /\ dev' = dev

Finishing ==
  /\ pc' = pc \/ (pc \in LastPlaces /\ pc' \in LastPlaces)
  /\ dev' = dev /\ machine' = machine /\ bus_master' = bus_master

Moves == Within(VirtioPlaces) \/ Within(XhciPlaces) \/ Probing \/ Finishing

(* Which functions the two drivers are called for *)
LEMMA BroughtLemma ==
  ASSUME NEW f, Matches(f) # {}
  PROVE  LET init == driver_registry[Min(Matches(f))].init
         IN /\ init \in {"virtio", "xhci", "none"}
            /\ init = "virtio" => f.vendor = "1AF4"
            /\ init = "xhci" => f.class = "xhci"
  <1>1. DOMAIN driver_registry = 1 .. 3
    BY DEF driver_registry
  <1>2. Matches(f) \in SUBSET Nat /\ Matches(f) \subseteq 1 .. 3
    <2>1. Matches(f) \subseteq DOMAIN driver_registry
      BY Zenon DEF Matches
    <2> QED
      BY <1>1, <2>1
  <1>3. \E n \in Matches(f) : \A m \in Matches(f) : n <= m
    BY <1>2, LeastElement
  <1>4. Min(Matches(f)) \in 1 .. 3 /\ Min(Matches(f)) \in Matches(f)
    BY <1>2, <1>3 DEF Min
  <1>5. /\ driver_registry[1].init = "virtio" /\ driver_registry[2].init = "xhci"
        /\ driver_registry[3].init = "none"
        /\ driver_registry[1].vendor = "1AF4" /\ driver_registry[1].class = ""
        /\ driver_registry[2].vendor = "" /\ driver_registry[2].class = "xhci"
    BY DEF driver_registry
  <1>6. \A n \in Matches(f) :
          \/ driver_registry[n].vendor # "" /\ driver_registry[n].vendor = f.vendor
          \/ driver_registry[n].class # "" /\ driver_registry[n].class = f.class
    BY Zenon DEF Matches
  <1> DEFINE m == Min(Matches(f))
  <1>7. m \in 1 .. 3 /\ m \in Matches(f)
    BY <1>4
  <1> HIDE DEF m
  <1> DEFINE brought(n) ==
        /\ driver_registry[n].init \in {"virtio", "xhci", "none"}
        /\ driver_registry[n].init = "virtio" => f.vendor = "1AF4"
        /\ driver_registry[n].init = "xhci" => f.class = "xhci"
  <1>8. 1 \in Matches(f) => brought(1)
    BY <1>5, <1>6
  <1>9. 2 \in Matches(f) => brought(2)
    BY <1>5, <1>6
  <1>10. brought(3)
    BY <1>5
  <1> HIDE DEF brought
  <1>11. brought(m)
    BY <1>7, <1>8, <1>9, <1>10
  <1> QED
    BY <1>11 DEF m, brought

LEMMA VirtioMoves ==
  ASSUME VirtioStep
  PROVE  Within(VirtioPlaces)
  BY DEF VirtioStep, virtio_pci_init, VdevFails, MapCapability, SkipCapability, CapsDone,
         WriteReset, ResetSpin, ResetSeen, Negotiate, DriverOk, SelectQueue, virtqueue_init,
         BindQueue, EnableQueue, Prefill, virtqueue_notify, At, GoTo, Return, pcie_vars,
         Within, VirtioPlaces, EarlyPlaces, LatePlaces

LEMMA XhciMoves ==
  ASSUME XhciStep
  PROVE  Within(XhciPlaces)
  BY DEF XhciStep, xhci_init, NextExtended, NothingToClaim, RequestOwnership, Poll,
         ReportOwnership, StopAndReset, ReportReset, At, GoTo, Return, pcie_vars,
         Within, XhciPlaces

LEMMA PcieMoves ==
  ASSUME PcieStep, dev \in 0 .. Devs
  PROVE  Probing
  <1>1. CASE EmptySlot \/ NoDriver \/ ScanDone
    BY <1>1 DEF EmptySlot, NoDriver, ScanDone, ProbeStep, Return, GoTo, pcie_vars, Probing,
       VirtioDevs
  <1>2. CASE pcie_probe_device
    <2> DEFINE init == driver_registry[Min(Matches(Fn(dev)))].init
    <2>1. pc = "scan" /\ dev < Devs /\ Fn(dev).vendor # "FFFF" /\ Matches(Fn(dev)) # {}
      BY <1>2 DEF pcie_probe_device
    <2>2. init \in {"virtio", "xhci", "none"}
      BY <2>1, BroughtLemma
    <2>3. dev \in DevNos
      BY <2>1, PcieAssumption DEF DevNos
    <2>4. init = "virtio" <=> dev \in VirtioDevs
      BY <2>1, <2>3 DEF VirtioDevs, Brought
    <2>5. IF init = "none" THEN Return ELSE GoTo(init)
      BY <1>2 DEF pcie_probe_device
    <2>6. machine' = machine /\ bus_master' = bus_master \cup {dev}
      BY <1>2 DEF pcie_probe_device, ProbeStep
    <2> HIDE DEF init
    <2> QED
      BY <2>1, <2>2, <2>4, <2>5, <2>6 DEF Probing, Return, GoTo
  <1> QED
    BY <1>1, <1>2 DEF PcieStep

LEMMA IrqMoves ==
  ASSUME IrqStep
  PROVE  Finishing
  BY DEF IrqStep, NextRedistributor, WakeRedistributor, EnableTimerInterrupt, timer_init,
         enable_interrupts, MainLoop, TakeIrq, Acknowledge, handle_timer_irq, EndOfInterrupt,
         kernel_exit, HandlerStep, Main, At, GoTo, pcie_vars, Finishing, LastPlaces

LEMMA DevicesStill ==
  ASSUME VirtioResets \/ (\E w \in Waits : XhciClears(w)) \/ RedistributorWakes \/ Expires
  PROVE  UNCHANGED <<pc, dev, machine, bus_master>>
  BY DEF VirtioResets, XhciClears, RedistributorWakes, Expires, DeviceResets, Clears,
         ChildrenWake, TimerExpires, HandlerStep, pcie_vars

LEMMA EveryMove ==
  ASSUME [BootNext]_boot_vars, PlaceInv
  PROVE  Moves
  <1>1. CASE Kernel
    BY <1>1, VirtioMoves, XhciMoves, PcieMoves, IrqMoves DEF Kernel, Moves, PlaceInv
  <1>2. CASE VirtioResets \/ (\E w \in Waits : XhciClears(w)) \/ RedistributorWakes \/ Expires
    BY <1>2, DevicesStill DEF Moves, Finishing
  <1>3. CASE UNCHANGED boot_vars
    BY <1>3 DEF boot_vars, pcie_vars, Moves, Finishing
  <1> QED
    BY <1>1, <1>2, <1>3 DEF BootNext

LEMMA MachineLemma ==
  ASSUME Moves
  PROVE  /\ machine' = machine
         /\ VirtioDevs' = VirtioDevs
         /\ \A d : Fn(d)' = Fn(d)
         /\ bus_master \subseteq bus_master'
  <1>1. machine' = machine /\ bus_master \subseteq bus_master'
    BY DEF Moves, Within, Probing, Finishing
  <1> QED
    BY <1>1 DEF VirtioDevs, Brought, Fn

LEMMA PlaceStep ==
  ASSUME PlaceInv, Moves
  PROVE  PlaceInv'
  <1>1. VirtioDevs' = VirtioDevs
    BY MachineLemma
  <1>2. Devs \in Nat
    BY PcieAssumption
  <1>3. CASE Within(VirtioPlaces)
    BY <1>1, <1>2, <1>3 DEF PlaceInv, Within, DriverPlaces, XhciPlaces, VirtioPlaces,
       EarlyPlaces, LatePlaces, LastPlaces, DevNos
  <1>4. CASE Within(XhciPlaces)
    BY <1>1, <1>2, <1>4 DEF PlaceInv, Within, DriverPlaces, XhciPlaces, VirtioPlaces,
       EarlyPlaces, LatePlaces, LastPlaces, DevNos
  <1>5. CASE Probing
    BY <1>1, <1>2, <1>5 DEF PlaceInv, Probing, DriverPlaces, XhciPlaces, VirtioPlaces,
       EarlyPlaces, LatePlaces, LastPlaces, DevNos
  <1>6. CASE Finishing
    BY <1>1, <1>2, <1>6 DEF PlaceInv, Finishing, DriverPlaces, XhciPlaces, VirtioPlaces,
       EarlyPlaces, LatePlaces, LastPlaces, DevNos
  <1> QED
    BY <1>3, <1>4, <1>5, <1>6 DEF Moves

LEMMA PlaceStart ==
  ASSUME BootInit
  PROVE  PlaceInv
  BY PcieAssumption DEF BootInit, PcieInit, PlaceInv, DriverPlaces, XhciPlaces, VirtioPlaces,
     EarlyPlaces, LatePlaces, LastPlaces

-----------------------------------------------------------------------------
(* WaitInv is inductive. *)

xhci_state == <<hc, timeout, last, said>>

(* Reports stay in order when nothing is reported. *)
LEMMA SilentMove ==
  ASSUME Silent, PlaceInv, said' = said,
         \/ dev' = dev + 1
         \/ dev' = dev /\ pc \notin {"stop", "hcrst", "cnr", "reset_said"}
         \/ dev' = dev /\ pc' = pc
  PROVE  Silent'
  <1>1. dev \in Int /\ DevNos \subseteq Int
    BY PcieAssumption DEF PlaceInv, DevNos
  <1> SUFFICES ASSUME NEW d \in DevNos
               PROVE  /\ d >= dev' => said[d] \subseteq OwnerReports
                      /\ d > dev' => said[d] = {}
                      /\ d = dev' /\ pc' \notin {"stop", "hcrst", "cnr", "reset_said"}
                           => said[d] = {}
    BY DEF Silent
  <1>2. d >= dev' => d >= dev
    BY <1>1
  <1>3. d > dev' => d > dev
    BY <1>1
  <1>4. d = dev' => d > dev \/ dev' = dev
    BY <1>1
  <1>5. /\ d >= dev => said[d] \subseteq OwnerReports
        /\ d > dev => said[d] = {}
        /\ d = dev /\ pc \notin {"stop", "hcrst", "cnr", "reset_said"} => said[d] = {}
    BY DEF Silent
  <1>6. d = dev' => said[d] = {} \/ (d = dev /\ pc' = pc)
    BY <1>1, <1>4, <1>5
  <1>7. d = dev' /\ pc' \notin {"stop", "hcrst", "cnr", "reset_said"} => said[d] = {}
    BY <1>5, <1>6
  <1> QED
    BY <1>2, <1>3, <1>5, <1>7

LEMMA ElsewhereWaits ==
  ASSUME WaitInv, PlaceInv, UNCHANGED xhci_state,
         Within(VirtioPlaces) \/ Probing \/ Finishing
  PROVE  WaitInv'
  <1>1. WaitType' /\ ReportedAsSeen'
    BY DEF WaitInv, WaitType, HcType, ReportedAsSeen, xhci_state
  <1>2. pc' \notin XhciPlaces \ {"xhci"} \/ (pc' = pc /\ dev' = dev)
    BY DEF Within, Probing, Finishing, XhciPlaces, VirtioPlaces, EarlyPlaces, LatePlaces,
       LastPlaces
  <1>3. Countdowns'
    BY <1>2 DEF WaitInv, Countdowns, Waiting, Judged, xhci_state, XhciPlaces
  <1>4. \/ dev' = dev + 1
        \/ dev' = dev /\ pc \notin {"stop", "hcrst", "cnr", "reset_said"}
        \/ dev' = dev /\ pc' = pc
    BY DEF Within, Probing, Finishing, VirtioPlaces, EarlyPlaces, LatePlaces, LastPlaces
  <1>5. said' = said /\ Silent
    BY DEF xhci_state, WaitInv
  <1>6. Silent'
    BY <1>4, <1>5, SilentMove
  <1> QED
    BY <1>1, <1>3, <1>6 DEF WaitInv

LEMMA PollWaits ==
  ASSUME WaitInv, PlaceInv, NEW w \in Waits, NEW next, Poll(w, next),
         <<w, next>> \in {<<"bios", "bios_said">>, <<"hcrst", "cnr">>, <<"cnr", "reset_said">>}
  PROVE  WaitInv'
  <1> DEFINE set == hc[dev][w]
             left == IF set THEN timeout[w] - 1 ELSE timeout[w]
  <1>1. pc = w /\ dev \in DevNos /\ dev' = dev /\ set \in BOOLEAN /\ left \in Int
    <2>1. pc = w
      BY DEF Poll, At
    <2>2. dev \in DevNos
      BY <2>1 DEF PlaceInv, DriverPlaces, XhciPlaces, Waits
    <2>3. dev' = dev
      BY DEF Poll, GoTo
    <2> QED
      BY <2>1, <2>2, <2>3 DEF WaitInv, WaitType, HcType
  <1>2. UNCHANGED <<hc, said>>
    BY DEF Poll
  <1>3. timeout' = [timeout EXCEPT ![w] = left] /\ last' = [last EXCEPT ![dev][w] = set]
    BY DEF Poll, Polls
  <1>4. /\ timeout'[w] = left
        /\ \A v \in Waits \ {w} : timeout'[v] = timeout[v]
        /\ last'[dev][w] = set
        /\ \A v \in Waits \ {w} : last'[dev][v] = last[dev][v]
        /\ \A d \in DevNos \ {dev} : last'[d] = last[d]
    BY <1>1, <1>3 DEF WaitInv, WaitType
  <1>5. IF set /\ left > 0 THEN pc' = w ELSE pc' = next
    BY <1>4 DEF Poll, GoTo
  <1>6. Waiting(w)
    BY <1>1 DEF WaitInv, Countdowns
  <1>7. WaitType'
    BY <1>1, <1>2, <1>3 DEF WaitInv, WaitType, HcType
  <1> HIDE DEF set, left
  <1>8. Countdowns'
    <2>1. left > 0 \/ (set /\ left <= 0)
      BY <1>1, <1>6 DEF Waiting, set, left, WaitInv, WaitType
    <2>2. pc' = w => Waiting(w)'
      BY <1>1, <1>4, <1>5, <2>1 DEF Waiting
    <2>3. pc' = next => Judged(w)'
      BY <1>1, <1>4, <1>5, <2>1 DEF Judged
    <2>4. \A v \in Waits \ {w} : Waiting(v) => Waiting(v)'
      BY <1>4 DEF Waiting
    <2>5. \A v \in Waits \ {w} : Judged(v) => Judged(v)'
      BY <1>1, <1>4 DEF Judged
    <2> QED
      BY <1>1, <1>5, <2>2, <2>3, <2>4, <2>5 DEF WaitInv, Countdowns, Waits
  <1>9. Silent'
    BY <1>1, <1>2, <1>5 DEF WaitInv, Silent
  <1>10. ReportedAsSeen'
    <2> SUFFICES ASSUME NEW d \in DevNos
                 PROVE  /\ "READY" \in said[d] => ~last'[d].hcrst /\ ~last'[d].cnr
                        /\ "Reset Timeout" \in said[d] => last'[d].hcrst \/ last'[d].cnr
                        /\ "BIOS released" \in said[d] => ~last'[d].bios
                        /\ "BIOS timeout" \in said[d] => last'[d].bios
      BY <1>2 DEF ReportedAsSeen
    <2>1. CASE d # dev
      BY <1>4, <2>1 DEF WaitInv, ReportedAsSeen
    <2>2. CASE d = dev /\ w = "bios"
      BY <1>1, <2>2 DEF WaitInv, Silent
    <2>3. CASE d = dev /\ w # "bios"
      <3>1. said[d] \subseteq OwnerReports
        <4>1. d >= dev
          BY <1>1, <2>3, PcieAssumption DEF DevNos
        <4> QED
          BY <4>1 DEF WaitInv, Silent
      <3>2. last'[d].bios = last[d].bios
        BY <1>4, <2>3 DEF Waits
      <3> QED
        BY <3>1, <3>2 DEF WaitInv, ReportedAsSeen, OwnerReports
    <2> QED
      BY <2>1, <2>2, <2>3
  <1> QED
    BY <1>7, <1>8, <1>9, <1>10 DEF WaitInv

LEMMA ReportWaits ==
  ASSUME WaitInv, PlaceInv, ReportOwnership \/ ReportReset
  PROVE  WaitInv'
  <1>1. dev \in DevNos /\ DevNos \subseteq Int /\ dev \in Int
    <2>1. pc \in {"bios_said", "reset_said"}
      BY DEF ReportOwnership, ReportReset, At
    <2>2. dev \in DevNos
      BY <2>1 DEF PlaceInv, DriverPlaces, XhciPlaces
    <2> QED
      BY <2>2, PcieAssumption DEF DevNos
  <1>2. UNCHANGED <<hc, timeout, last>>
    BY DEF ReportOwnership, ReportReset
  <1>3. \A d \in DevNos \ {dev} : said'[d] = said[d]
    BY DEF ReportOwnership, ReportReset, WaitInv, WaitType
  <1>4. \A d \in DevNos : d > dev => said[d] = {}
    BY DEF WaitInv, Silent
  <1>5. CASE ReportOwnership
    <2>1. pc = "bios_said" /\ pc' = "stop" /\ dev' = dev
      BY <1>5 DEF ReportOwnership, At, GoTo
    <2> DEFINE word == IF timeout["bios"] <= 0 THEN "BIOS timeout" ELSE "BIOS released"
    <2>2. said' = [said EXCEPT ![dev] = @ \cup {word}]
      BY <1>5 DEF ReportOwnership, Expired
    <2>3. word \in Said /\ word \in OwnerReports
      BY DEF Said, OwnerReports
    <2>4. said[dev] = {}
      BY <1>1, <2>1 DEF WaitInv, Silent
    <2>5. timeout["bios"] <= 0 <=> last[dev].bios
      BY <2>1 DEF WaitInv, Countdowns, Judged
    <2>6. \/ word = "BIOS timeout" /\ last[dev].bios
          \/ word = "BIOS released" /\ ~last[dev].bios
      BY <2>5
    <2> HIDE DEF word
    <2>7. said'[dev] = {word}
      BY <1>1, <2>2, <2>4 DEF WaitInv, WaitType
    <2>8. WaitType'
      BY <1>1, <1>2, <2>2, <2>3 DEF WaitInv, WaitType, HcType
    <2>9. Countdowns'
      BY <1>2, <2>1 DEF WaitInv, Countdowns, Waiting, Judged
    <2>10. Silent'
      <3> SUFFICES ASSUME NEW d \in DevNos
                   PROVE  /\ d >= dev => said'[d] \subseteq OwnerReports
                          /\ d > dev => said'[d] = {}
        BY <2>1 DEF Silent
      <3>1. CASE d = dev
        BY <1>1, <2>3, <2>7, <3>1
      <3>2. CASE d # dev /\ d > dev
        BY <1>3, <1>4, <3>2
      <3>3. CASE d # dev /\ ~(d > dev)
        <4>1. ~(d >= dev)
          BY <1>1, <3>3
        <4> QED
          BY <3>3, <4>1
      <3> QED
        BY <3>1, <3>2, <3>3
    <2>11. ReportedAsSeen'
      <3> SUFFICES ASSUME NEW d \in DevNos
                   PROVE  /\ "READY" \in said'[d] => ~last[d].hcrst /\ ~last[d].cnr
                          /\ "Reset Timeout" \in said'[d] => last[d].hcrst \/ last[d].cnr
                          /\ "BIOS released" \in said'[d] => ~last[d].bios
                          /\ "BIOS timeout" \in said'[d] => last[d].bios
        BY <1>2 DEF ReportedAsSeen
      <3>1. CASE d = dev
        BY <2>6, <2>7, <3>1
      <3>2. CASE d # dev
        BY <1>3, <3>2 DEF WaitInv, ReportedAsSeen
      <3> QED
        BY <3>1, <3>2
    <2> QED
      BY <2>8, <2>9, <2>10, <2>11 DEF WaitInv
  <1>6. CASE ReportReset
    <2>1. pc = "reset_said" /\ pc' = "scan" /\ dev' = dev + 1
      BY <1>6 DEF ReportReset, At, Return
    <2> DEFINE word == IF timeout["hcrst"] <= 0 \/ timeout["cnr"] <= 0
                         THEN "Reset Timeout" ELSE "READY"
    <2>2. said' = [said EXCEPT ![dev] = @ \cup {word}]
      BY <1>6 DEF ReportReset, Expired
    <2>3. word \in Said /\ word \notin OwnerReports
      BY DEF Said, OwnerReports
    <2>4. said[dev] \subseteq OwnerReports
      <3>1. dev >= dev
        BY <1>1
      <3> QED
        BY <1>1, <3>1 DEF WaitInv, Silent
    <2>5. /\ timeout["hcrst"] <= 0 <=> last[dev].hcrst
          /\ timeout["cnr"] <= 0 <=> last[dev].cnr
      BY <2>1 DEF WaitInv, Countdowns, Judged
    <2>6. \/ word = "Reset Timeout" /\ (last[dev].hcrst \/ last[dev].cnr)
          \/ word = "READY" /\ ~last[dev].hcrst /\ ~last[dev].cnr
      BY <2>5
    <2> HIDE DEF word
    <2>7. said'[dev] = said[dev] \cup {word}
      BY <1>1, <2>2 DEF WaitInv, WaitType
    <2>8. WaitType'
      BY <1>1, <1>2, <2>2, <2>3 DEF WaitInv, WaitType, HcType
    <2>9. Countdowns'
      BY <2>1 DEF Countdowns
    <2>10. Silent'
      <3>1. \A d \in DevNos : d >= dev + 1 => d > dev
        BY <1>1
      <3>2. \A d \in DevNos : d > dev + 1 => d > dev
        BY <1>1
      <3>3. \A d \in DevNos : d = dev + 1 => d > dev
        BY <1>1
      <3>4. \A d \in DevNos : d > dev => said'[d] = {}
        <4> SUFFICES ASSUME NEW d \in DevNos, d > dev
                     PROVE  said'[d] = {}
          OBVIOUS
        <4>1. d # dev
          BY <1>1
        <4> QED
          BY <1>3, <1>4, <4>1
      <3> QED
        BY <2>1, <3>1, <3>2, <3>3, <3>4 DEF Silent
    <2>11. ReportedAsSeen'
      <3> SUFFICES ASSUME NEW d \in DevNos
                   PROVE  /\ "READY" \in said'[d] => ~last[d].hcrst /\ ~last[d].cnr
                          /\ "Reset Timeout" \in said'[d] => last[d].hcrst \/ last[d].cnr
                          /\ "BIOS released" \in said'[d] => ~last[d].bios
                          /\ "BIOS timeout" \in said'[d] => last[d].bios
        BY <1>2 DEF ReportedAsSeen
      <3>1. CASE d = dev
        <4>1. /\ "BIOS released" \in said[d] => ~last[d].bios
              /\ "BIOS timeout" \in said[d] => last[d].bios
          BY DEF WaitInv, ReportedAsSeen
        <4> QED
          BY <2>4, <2>6, <2>7, <3>1, <4>1 DEF OwnerReports
      <3>2. CASE d # dev
        BY <1>3, <3>2 DEF WaitInv, ReportedAsSeen
      <3> QED
        BY <3>1, <3>2
    <2> QED
      BY <2>8, <2>9, <2>10, <2>11 DEF WaitInv
  <1> QED
    BY <1>5, <1>6

LEMMA XhciWaits ==
  ASSUME WaitInv, PlaceInv, XhciStep
  PROVE  WaitInv'
  <1>1. CASE xhci_init
    <2>1. /\ pc = "xhci" /\ UNCHANGED <<hc, last, said>> /\ timeout' = FullTime
          /\ \/ pc' = "claim" /\ dev' = dev
             \/ pc' = "scan" /\ dev' = dev + 1
      BY <1>1 DEF xhci_init, At, GoTo, Return
    <2>2. WaitType' /\ ReportedAsSeen'
      <3>1. timeout' \in [Waits -> Int]
        BY <2>1, XhciAssumption DEF FullTime
      <3>2. HcType'
        BY <2>1 DEF WaitInv, WaitType, HcType
      <3> QED
        BY <2>1, <3>1, <3>2 DEF WaitInv, WaitType, ReportedAsSeen
    <2>3. \A w \in Waits : timeout'[w] > 0
      BY <2>1, XhciAssumption DEF FullTime
    <2>4. Countdowns'
      BY <2>1, <2>3 DEF Countdowns, Waiting, Waits
    <2>5. Silent'
      BY <2>1, SilentMove DEF WaitInv
    <2> QED
      BY <2>1, <2>2, <2>4, <2>5 DEF WaitInv
  <1>2. CASE NextExtended \/ NothingToClaim \/ RequestOwnership \/ StopAndReset
    <2>1. /\ UNCHANGED <<timeout, last, said>> /\ dev' = dev
          /\ \/ pc = "claim" /\ pc' \in {"claim", "bios", "stop"}
             \/ pc = "stop" /\ pc' = "hcrst"
      BY <1>2 DEF NextExtended, NothingToClaim, RequestOwnership, StopAndReset, At, GoTo,
         xhci_vars
    <2>2. HcType'
      <3>1. CASE UNCHANGED hc
        BY <3>1 DEF WaitInv, WaitType, HcType
      <3>2. CASE RequestOwnership
        <4>1. dev \in DevNos /\ hc' = [hc EXCEPT ![dev] = [@ EXCEPT !["os"] = TRUE]]
          BY <3>2 DEF RequestOwnership, At, PlaceInv, DriverPlaces, XhciPlaces
        <4> QED
          BY <4>1 DEF WaitInv, WaitType, HcType, Waits
      <3>3. CASE StopAndReset
        <4>1. /\ dev \in DevNos
              /\ hc' = [hc EXCEPT ![dev] = [@ EXCEPT !.run = FALSE, !.hcrst = TRUE, !.cnr = TRUE]]
          BY <3>3 DEF StopAndReset, At, PlaceInv, DriverPlaces, XhciPlaces
        <4> QED
          BY <4>1 DEF WaitInv, WaitType, HcType, Waits
      <3> QED
        BY <1>2, <3>1, <3>2, <3>3 DEF NextExtended, NothingToClaim, xhci_vars
    <2>3. WaitType' /\ ReportedAsSeen'
      BY <2>1, <2>2 DEF WaitInv, WaitType, ReportedAsSeen
    <2>4. Countdowns'
      BY <2>1 DEF WaitInv, Countdowns, Waiting, Judged
    <2>5. Silent'
      BY <2>1 DEF WaitInv, Silent
    <2> QED
      BY <2>3, <2>4, <2>5 DEF WaitInv
  <1>3. CASE Poll("bios", "bios_said")
    BY <1>3, PollWaits DEF Waits
  <1>4. CASE Poll("hcrst", "cnr")
    BY <1>4, PollWaits DEF Waits
  <1>5. CASE Poll("cnr", "reset_said")
    BY <1>5, PollWaits DEF Waits
  <1>6. CASE ReportOwnership \/ ReportReset
    BY <1>6, ReportWaits
  <1> QED
    BY <1>1, <1>2, <1>3, <1>4, <1>5, <1>6 DEF XhciStep

LEMMA WaitStep ==
  ASSUME WaitInv, PlaceInv, [BootNext]_boot_vars
  PROVE  WaitInv'
  <1>1. CASE XhciStep
    BY <1>1, XhciWaits
  <1>2. CASE UNCHANGED xhci_state /\ (Within(VirtioPlaces) \/ Probing \/ Finishing)
    BY <1>2, ElsewhereWaits
  <1>3. CASE \E w \in Waits : XhciClears(w)
    <2> PICK w \in Waits : XhciClears(w)
      BY <1>3
    <2>1. /\ UNCHANGED <<pc, dev, timeout, last, said>>
          /\ \E d \in DevNos : hc' = [hc EXCEPT ![d][w] = FALSE]
      BY DEF XhciClears, Clears
    <2>2. HcType'
      <3> PICK d \in DevNos : hc' = [hc EXCEPT ![d] = [@ EXCEPT ![w] = FALSE]]
        BY <2>1
      <3> DEFINE c == [hc[d] EXCEPT ![w] = FALSE]
      <3>1. HcType
        BY DEF WaitInv, WaitType
      <3>2. /\ DOMAIN c = {"bios", "os", "run", "hcrst", "cnr"}
            /\ \A v \in Waits : c[v] \in BOOLEAN
        BY <3>1 DEF HcType, Waits
      <3>3. hc' = [hc EXCEPT ![d] = c]
        OBVIOUS
      <3> HIDE DEF c
      <3>4. DOMAIN hc' = DevNos /\ hc'[d] = c /\ \A e \in DevNos \ {d} : hc'[e] = hc[e]
        BY <3>1, <3>3 DEF HcType
      <3> QED
        BY <3>1, <3>2, <3>4 DEF HcType
    <2>4. WaitType' /\ ReportedAsSeen'
      BY <2>1, <2>2 DEF WaitInv, WaitType, ReportedAsSeen
    <2>3. Countdowns' /\ Silent'
      BY <2>1 DEF WaitInv, Countdowns, Waiting, Judged, Silent
    <2> QED
      BY <2>3, <2>4 DEF WaitInv
  <1>4. CASE (Kernel /\ ~XhciStep) \/ VirtioResets \/ RedistributorWakes \/ Expires
    <2>1. UNCHANGED xhci_state
      BY <1>4 DEF Kernel, VirtioResets, RedistributorWakes, Expires, xhci_vars, xhci_state
    <2>2. ASSUME Kernel, ~XhciStep PROVE Within(VirtioPlaces) \/ Probing \/ Finishing
      BY <2>2, VirtioMoves, PcieMoves, IrqMoves DEF Kernel, PlaceInv
    <2>3. ASSUME VirtioResets \/ RedistributorWakes \/ Expires PROVE Finishing
      BY <2>3, DevicesStill DEF Finishing
    <2>4. Within(VirtioPlaces) \/ Probing \/ Finishing
      BY <1>4, <2>2, <2>3
    <2> QED
      BY <1>2, <2>1, <2>4
  <1>5. CASE UNCHANGED boot_vars
    BY <1>2, <1>5 DEF boot_vars, xhci_vars, pcie_vars, xhci_state, Finishing
  <1> QED
    BY <1>1, <1>3, <1>4, <1>5 DEF BootNext, Kernel

LEMMA WaitStart ==
  ASSUME BootInit
  PROVE  WaitInv
  <1>1. WaitType
    BY XhciAssumption DEF BootInit, XhciInit, WaitType, HcType, FullTime, Waits
  <1>2. Countdowns /\ pc = "scan"
    BY DEF BootInit, PcieInit, Countdowns
  <1>3. \A d \in DevNos : said[d] = {}
    BY DEF BootInit, XhciInit
  <1> QED
    BY <1>1, <1>2, <1>3 DEF WaitInv, Silent, ReportedAsSeen

(* xhci.c:52 and 130: what xhci_init says of a controller - ownership      *)
(* released or not, ready or not - is what its last read of each register  *)
(* found, for every number of polls and every timing of the BIOS and the   *)
(* controller: a bit that clears while the countdown runs out is judged by *)
(* the same read.                                                          *)
THEOREM ReportsAreSeen == BootSpec => []ReportedAsSeen
  <1>1. BootInit => PlaceInv /\ WaitInv
    BY PlaceStart, WaitStart
  <1>2. PlaceInv /\ WaitInv /\ [BootNext]_boot_vars => (PlaceInv /\ WaitInv)'
    BY EveryMove, PlaceStep, WaitStep
  <1>3. PlaceInv /\ WaitInv => ReportedAsSeen
    BY DEF WaitInv
  <1> QED
    BY <1>1, <1>2, <1>3, PTL DEF BootSpec

-----------------------------------------------------------------------------
(* NicInv is inductive.  First its types. *)

(* What each action writes to the registers of the function at hand *)
DeviceIs(status, resetting, queue_select, told, queue) ==
  /\ vio' \in [DevNos -> Device]
  /\ vio'[dev].status = status /\ vio'[dev].resetting = resetting
  /\ vio'[dev].queue_select = queue_select /\ vio'[dev].told = told
  /\ vio'[dev].queue = queue

Keep == vio[dev]

LEMMA ResetWrites ==
  ASSUME NicType, dev \in DevNos, WriteReset
  PROVE  DeviceIs(Keep.status, TRUE, 0, Keep.told, Keep.queue)
  <1> DEFINE a == [vio EXCEPT ![dev].resetting = TRUE]
  <1>1. vio' = [a EXCEPT ![dev].queue_select = 0]
    BY DEF WriteReset
  <1>2. /\ a \in [DevNos -> Device]
        /\ a[dev].status = Keep.status /\ a[dev].resetting = TRUE /\ a[dev].told = Keep.told
        /\ a[dev].queue = Keep.queue
    BY ZenonT(60) DEF NicType, Device, Keep
  <1> HIDE DEF a
  <1>3. 0 \in Queues
    BY DEF Queues
  <1> QED
    BY <1>1, <1>2, <1>3 DEF DeviceIs, Device

Agreed == Fn(dev).needs \subseteq Fn(dev).offers \cap Wanted

LEMMA NegotiateWrites ==
  ASSUME NicType, dev \in DevNos, Negotiate
  PROVE  DeviceIs({"ACKNOWLEDGE", "DRIVER"} \cup (IF Agreed THEN {"FEATURES_OK"} ELSE {}),
                  Keep.resetting, Keep.queue_select, Keep.told, Keep.queue)
  <1> DEFINE bits == {"ACKNOWLEDGE", "DRIVER"} \cup (IF Agreed THEN {"FEATURES_OK"} ELSE {})
  <1>1. bits \in SUBSET StatusBits
    BY DEF StatusBits
  <1>2. vio' = [vio EXCEPT ![dev].status = bits]
    BY DEF Negotiate, Agreed
  <1> HIDE DEF bits
  <1>3. DeviceIs(bits, Keep.resetting, Keep.queue_select, Keep.told, Keep.queue)
    BY <1>1, <1>2, ZenonT(60) DEF NicType, DeviceIs, Device, Keep
  <1> QED
    BY <1>3 DEF bits

LEMMA DriverOkWrites ==
  ASSUME NicType, dev \in DevNos, DriverOk
  PROVE  DeviceIs(Keep.status \cup {"DRIVER_OK"},
                  Keep.resetting, Keep.queue_select, Keep.told, Keep.queue)
  <1> DEFINE bits == Keep.status \cup {"DRIVER_OK"}
  <1>1. bits \in SUBSET StatusBits
    BY DEF StatusBits, NicType, Device, Keep
  <1>2. vio' = [vio EXCEPT ![dev].status = bits]
    BY DEF DriverOk, Keep
  <1> HIDE DEF bits
  <1>3. DeviceIs(bits, Keep.resetting, Keep.queue_select, Keep.told, Keep.queue)
    BY <1>1, <1>2, ZenonT(60) DEF NicType, DeviceIs, Device, Keep
  <1> QED
    BY <1>3 DEF bits

LEMMA SelectWrites ==
  ASSUME NicType, dev \in DevNos, SelectQueue
  PROVE  DeviceIs(Keep.status, Keep.resetting, queue_index, Keep.told, Keep.queue)
  BY ZenonT(60) DEF SelectQueue, NicType, DeviceIs, Device, Keep

LEMMA BindWrites ==
  ASSUME NicType, dev \in DevNos, BindQueue
  PROVE  DeviceIs(Keep.status, Keep.resetting, queue_index, Keep.told,
                  [Keep.queue EXCEPT ![queue_index] =
                     [size |-> vq[queue_index].size,
                      enabled |-> Keep.queue[queue_index].enabled, at |-> queue_index]])
  <1> DEFINE n == queue_index
             size == vq[n].size
             q == Keep.queue[n]
             new == [size |-> size, enabled |-> q.enabled, at |-> n]
             a == [vio EXCEPT ![dev].queue_select = n]
             b == [a EXCEPT ![dev].queue[n].size = size]
  <1>1. vio' = [b EXCEPT ![dev].queue[n].at = n]
    BY DEF BindQueue
  <1>2. n \in Queues /\ n \in Int /\ size \in Nat /\ q \in Queue /\ Keep \in Device
    BY DEF NicType, Queues, Device, Keep
  <1>3. /\ a \in [DevNos -> Device]
        /\ a[dev].status = Keep.status /\ a[dev].resetting = Keep.resetting
        /\ a[dev].queue_select = n /\ a[dev].told = Keep.told /\ a[dev].queue = Keep.queue
    BY ZenonT(60) DEF NicType, Device, Keep
  <1> HIDE DEF a, n, size
  <1> DEFINE grown == [q EXCEPT !.size = size]
  <1>4. /\ grown \in Queue /\ grown.size = size /\ grown.enabled = q.enabled
    BY <1>2 DEF Queue
  <1>5. /\ b \in [DevNos -> Device]
        /\ b[dev].status = Keep.status /\ b[dev].resetting = Keep.resetting
        /\ b[dev].queue_select = n /\ b[dev].told = Keep.told
        /\ b[dev].queue = [Keep.queue EXCEPT ![n] = grown]
    <2>1. b = [a EXCEPT ![dev].queue = [Keep.queue EXCEPT ![n] = grown]]
      BY <1>3
    <2>2. [Keep.queue EXCEPT ![n] = grown] \in [Queues -> Queue]
      BY <1>2, <1>4 DEF Device
    <2> HIDE DEF b, grown
    <2> QED
      BY <1>3, <2>1, <2>2, ZenonT(60) DEF Device
  <1> HIDE DEF b, grown
  <1>6. [grown EXCEPT !.at = n] = new /\ new \in Queue
    BY <1>2, <1>4 DEF Queue
  <1> HIDE DEF new
  <1>7. b[dev].queue[n] = grown
    BY <1>2, <1>5 DEF Device
  <1>8. vio' = [b EXCEPT ![dev].queue = [b[dev].queue EXCEPT ![n] = new]]
    BY <1>1, <1>6, <1>7
  <1>9. [b[dev].queue EXCEPT ![n] = new] = [Keep.queue EXCEPT ![n] = new]
    BY <1>2, <1>5 DEF Device
  <1>10. [Keep.queue EXCEPT ![n] = new] \in [Queues -> Queue]
    BY <1>2, <1>6 DEF Device
  <1> DEFINE queues == [Keep.queue EXCEPT ![n] = new]
  <1> HIDE DEF queues
  <1>11. vio' = [b EXCEPT ![dev].queue = queues] /\ queues \in [Queues -> Queue]
    BY <1>8, <1>9, <1>10 DEF queues
  <1>12. DeviceIs(Keep.status, Keep.resetting, n, Keep.told, queues)
    BY <1>5, <1>11 DEF DeviceIs, Device
  <1> QED
    BY <1>12 DEF queues, new, n, size

LEMMA EnableWrites ==
  ASSUME NicType, dev \in DevNos, EnableQueue
  PROVE  DeviceIs(Keep.status, Keep.resetting, Keep.queue_select, Keep.told,
                  [Keep.queue EXCEPT ![Keep.queue_select] =
                     [size |-> Keep.queue[Keep.queue_select].size, enabled |-> TRUE,
                      at |-> Keep.queue[Keep.queue_select].at]])
  <1> DEFINE n == Keep.queue_select
             q == Keep.queue[n]
             on == TRUE
             new == [size |-> q.size, enabled |-> on, at |-> q.at]
             queues == [Keep.queue EXCEPT ![n] = new]
  <1>1. vio' = [vio EXCEPT ![dev].queue[n].enabled = on] /\ on \in BOOLEAN
    BY DEF EnableQueue, Keep
  <1>7. vio \in [DevNos -> Device]
    BY DEF NicType
  <1>2. n \in Queues /\ q \in Queue /\ Keep \in Device
    BY DEF NicType, Device, Keep
  <1> HIDE DEF n, q, on
  <1>3. [q EXCEPT !.enabled = on] = new /\ new \in Queue
    BY <1>1, <1>2 DEF Queue
  <1> HIDE DEF new
  <1>4. vio' = [vio EXCEPT ![dev].queue = queues]
    BY <1>1, <1>3 DEF Keep, q
  <1>5. queues \in [Queues -> Queue]
    BY <1>2, <1>3 DEF Device
  <1> HIDE DEF queues
  <1>6. DeviceIs(Keep.status, Keep.resetting, Keep.queue_select, Keep.told, queues)
    BY <1>4, <1>5, <1>7 DEF DeviceIs, Device, Keep
  <1> QED
    BY <1>6 DEF queues, new, n, q, on

LEMMA NotifyWrites ==
  ASSUME NicType, dev \in DevNos, virtqueue_notify
  PROVE  DeviceIs(Keep.status, Keep.resetting, 0,
                  IF vdev[dev].notify # NULL THEN vq[0].avail_idx ELSE Keep.told, Keep.queue)
  <1> DEFINE a == [vio EXCEPT ![dev].queue_select = 0]
             told == IF vdev[dev].notify # NULL THEN vq[0].avail_idx ELSE Keep.told
  <1>0. a[dev].told = Keep.told
    BY DEF NicType, Keep, Device
  <1>1. vio' = [a EXCEPT ![dev].told = told]
    BY <1>0 DEF virtqueue_notify
  <1>2. 0 \in Queues /\ told \in Nat
    BY DEF Queues, NicType, Device, Keep
  <1>3. /\ a \in [DevNos -> Device]
        /\ a[dev].status = Keep.status /\ a[dev].resetting = Keep.resetting
        /\ a[dev].queue_select = 0 /\ a[dev].queue = Keep.queue
    BY <1>2, ZenonT(60) DEF NicType, Device, Keep
  <1> HIDE DEF a, told
  <1>4. DeviceIs(Keep.status, Keep.resetting, 0, told, Keep.queue)
    BY <1>1, <1>2, <1>3 DEF DeviceIs, Device
  <1> QED
    BY <1>4 DEF told

LEMMA NicTypeStep ==
  ASSUME NicType, PlaceInv, VirtioStep
  PROVE  NicType'
  <1>1. /\ dev \in DevNos /\ dev \in VirtioDevs /\ VirtioDevs' = VirtioDevs
        /\ machine' = machine
    <2>1. pc \in VirtioPlaces /\ machine' = machine
      BY VirtioMoves DEF Within
    <2> QED
      BY <2>1 DEF PlaceInv, DriverPlaces, VirtioDevs, Brought, Fn
  <1> DEFINE VdevType == /\ DOMAIN vdev = DevNos
                         /\ \A d \in DevNos : DOMAIN vdev[d] =
                              {"common", "device", "isr", "notify", "rx_vq", "tx_vq"}
             VqType == vq \in [Queues -> [size : Nat, avail_idx : Nat, owner : Int]]
  <1>2. vio \in [DevNos -> Device] /\ VdevType /\ VqType /\ queue_index \in Queues
    BY DEF NicType
  <1>3. vio' \in [DevNos -> Device]
    <2>1. CASE WriteReset \/ Negotiate \/ DriverOk \/ SelectQueue \/ BindQueue \/ EnableQueue
               \/ virtqueue_notify
      BY <1>1, <2>1, ResetWrites, NegotiateWrites, DriverOkWrites, SelectWrites, BindWrites,
         EnableWrites, NotifyWrites DEF DeviceIs
    <2>2. CASE UNCHANGED vio
      BY <1>2, <2>2
    <2> QED
      BY <2>1, <2>2 DEF VirtioStep, virtio_pci_init,
         VdevFails, MapCapability, SkipCapability, CapsDone, ResetSpin, ResetSeen,
         virtqueue_init, Prefill
  <1>4. VdevType'
    <2>1. CASE MapCapability
      <3> DEFINE t == Cap.type
                 x == VirtOf(Cap.bar, Cap.offset)
      <3>1. vdev' = [vdev EXCEPT ![dev][t] = x] \/ vdev' = vdev
        BY <2>1 DEF MapCapability
      <3> HIDE DEF t, x
      <3> QED
        BY <1>1, <1>2, <3>1
    <2>2. CASE EnableQueue
      BY <1>1, <1>2, <2>2 DEF EnableQueue
    <2>3. CASE UNCHANGED vdev
      BY <1>2, <2>3
    <2> QED
      BY <2>1, <2>2, <2>3 DEF VirtioStep, virtio_pci_init, VdevFails, SkipCapability, CapsDone,
         WriteReset, ResetSpin, ResetSeen, Negotiate, DriverOk, SelectQueue, virtqueue_init,
         BindQueue, Prefill, virtqueue_notify, HandshakeStep
  <1>5. VqType'
    <2>1. CASE virtqueue_init
      <3> DEFINE n == queue_index
                 size == vio[dev].queue[n].size
                 a == [vq EXCEPT ![n].size = size]
      <3>1. vq' = [a EXCEPT ![n].owner = dev]
        BY <2>1 DEF virtqueue_init
      <3>2. size \in Nat /\ dev \in Int
        BY <1>1, <1>2, PcieAssumption DEF Device, Queue, DevNos
      <3> HIDE DEF n, size
      <3>3. a \in [Queues -> [size : Nat, avail_idx : Nat, owner : Int]]
        BY <1>2, <3>2
      <3> HIDE DEF a
      <3> QED
        BY <3>1, <3>2, <3>3
    <2>2. CASE Prefill
      <3> DEFINE sum == vq[0].avail_idx + vq[0].size
      <3>1. vq' = [vq EXCEPT ![0].avail_idx = sum]
        BY <2>2 DEF Prefill
      <3>2. sum \in Nat
        BY <1>2 DEF Queues
      <3> HIDE DEF sum
      <3> QED
        BY <1>2, <3>1, <3>2
    <2>3. CASE UNCHANGED vq
      BY <1>2, <2>3
    <2> QED
      BY <2>1, <2>2, <2>3 DEF VirtioStep, virtio_pci_init, VdevFails, MapCapability,
         SkipCapability, CapsDone, WriteReset, ResetSpin, ResetSeen, Negotiate, DriverOk,
         SelectQueue, BindQueue, EnableQueue, virtqueue_notify, HandshakeStep
  <1>6. queue_index' \in Queues
    BY <1>2 DEF VirtioStep, virtio_pci_init, VdevFails, MapCapability, SkipCapability, CapsDone,
       WriteReset, ResetSpin, ResetSeen, Negotiate, DriverOk, SelectQueue, virtqueue_init,
       BindQueue, EnableQueue, Prefill, virtqueue_notify, HandshakeStep, Queues
  <1>7. global_vnet_dev' \in {global_vnet_dev, dev}
    BY DEF VirtioStep, virtio_pci_init, VdevFails, MapCapability, SkipCapability, CapsDone,
       WriteReset, ResetSpin, ResetSeen, Negotiate, DriverOk, SelectQueue, virtqueue_init,
       BindQueue, EnableQueue, Prefill, virtqueue_notify, HandshakeStep
  <1>8. global_vnet_dev' \in VirtioDevs' \cup {NoDev}
    BY <1>1, <1>7 DEF NicType
  <1> QED
    BY <1>1, <1>3, <1>4, <1>5, <1>6, <1>8 DEF NicType

-----------------------------------------------------------------------------
(* The one network function d, action by action *)

Here(d) ==
  /\ NicType /\ d \in DevNos /\ dev = d /\ d \in Int
  /\ d \in bus_master /\ DeviceInv(d)

(* What stays as it is *)
SameDevice(d) ==
  /\ Fn(d)' = Fn(d) /\ (Unusable(d)' <=> Unusable(d))
  /\ bus_master' = bus_master

LEMMA SameDeviceLemma ==
  ASSUME VirtioStep, NEW d
  PROVE  SameDevice(d)
  <1>1. machine' = machine /\ bus_master' = bus_master
    BY VirtioMoves DEF Within
  <1> QED
    BY <1>1 DEF SameDevice, Fn, Unusable

LEMMA WalkNic ==
  ASSUME NEW d, Here(d), SameDevice(d),
         virtio_pci_init \/ VdevFails \/ MapCapability \/ SkipCapability \/ CapsDone
           \/ ResetSpin \/ ResetSeen
  PROVE  DeviceInv(d)'
  <1>1. UNCHANGED <<vio, vq>>
    BY DEF virtio_pci_init, VdevFails, MapCapability, SkipCapability, CapsDone, ResetSpin,
       ResetSeen, HandshakeStep
  <1>2. \/ /\ pc \in {"virtio", "caps"} /\ dev' = dev + 1 /\ pc' = "scan"
           /\ global_vnet_dev' = global_vnet_dev
        \/ /\ pc \in {"virtio", "caps"} /\ dev' = dev /\ pc' = "caps"
           /\ global_vnet_dev' = global_vnet_dev
        \/ pc = "caps" /\ dev' = dev /\ pc' = "reset" /\ global_vnet_dev' = dev
        \/ /\ pc = "reset_wait" /\ dev' = dev /\ pc' = "reset_wait"
           /\ global_vnet_dev' = global_vnet_dev
        \/ /\ pc = "reset_wait" /\ dev' = dev /\ pc' = "negotiate"
           /\ global_vnet_dev' = global_vnet_dev
           /\ vio[dev].status = {} /\ ~vio[dev].resetting
    BY DEF virtio_pci_init, VdevFails, MapCapability, SkipCapability, CapsDone, ResetSpin,
       ResetSeen, HandshakeStep, StatusWordZero, At, GoTo, Return
  <1>3. Early(d) /\ dev = d /\ d \in Int /\ DeviceInv(d)
    BY <1>2 DEF Here, Early, EarlyPlaces
  <1>4. ~Late(d)' /\ (Past(d)' => dev' = d + 1) /\ (Early(d)' => dev' = d)
    BY <1>2, <1>3 DEF Late, Past, Early, LatePlaces
  <1>5. Past(d)' => global_vnet_dev' # d
    BY <1>2, <1>3, <1>4 DEF DeviceInv, Past
  <1>6. \A q \in Queues : Enabled(d, q)' = Enabled(d, q)
    BY <1>1 DEF Enabled
  <1> QED
    BY <1>1, <1>2, <1>3, <1>4, <1>5, <1>6 DEF DeviceInv, SameDevice

LEMMA ResetNic ==
  ASSUME NEW d, Here(d), SameDevice(d), WriteReset
  PROVE  DeviceInv(d)'
  <1>1. /\ pc = "reset" /\ pc' = "reset_wait" /\ dev' = dev
        /\ UNCHANGED <<vdev, global_vnet_dev, vq>>
    BY DEF WriteReset, HandshakeStep, At, GoTo
  <1>2. /\ vio'[d].status = vio[d].status
        /\ vio'[d].queue = vio[d].queue
    BY ResetWrites DEF Here, DeviceIs, Keep
  <1>3. Early(d) /\ dev = d /\ d \in Int /\ DeviceInv(d)
    BY <1>1 DEF Here, Early, EarlyPlaces
  <1>4. ~Late(d)' /\ ~Past(d)' /\ Early(d)'
    BY <1>1, <1>3 DEF Late, Past, Early, LatePlaces, EarlyPlaces
  <1>5. \A q \in Queues : Enabled(d, q)' = Enabled(d, q)
    BY <1>2 DEF Enabled
  <1> QED
    BY <1>1, <1>2, <1>3, <1>4, <1>5 DEF DeviceInv, SameDevice

LEMMA NegotiateNic ==
  ASSUME NEW d, Here(d), SameDevice(d), Negotiate
  PROVE  DeviceInv(d)'
  <1>1. /\ pc = "negotiate"
        /\ UNCHANGED <<vdev, global_vnet_dev, vq>>
        /\ IF Agreed THEN pc' = "driver_ok" /\ dev' = dev ELSE pc' = "scan" /\ dev' = dev + 1
    BY DEF Negotiate, HandshakeStep, At, GoTo, Return, Agreed
  <1>2. /\ vio'[d].status =
             {"ACKNOWLEDGE", "DRIVER"} \cup (IF Agreed THEN {"FEATURES_OK"} ELSE {})
        /\ vio'[d].queue = vio[d].queue /\ vio'[d].resetting = vio[d].resetting
    BY NegotiateWrites DEF Here, DeviceIs, Keep
  <1>3. Early(d) /\ dev = d /\ d \in Int /\ DeviceInv(d)
    BY <1>1 DEF Here, Early, EarlyPlaces
  <1>4. ~Early(d)' /\ (Late(d)' <=> Agreed) /\ (Past(d)' <=> ~Agreed)
    BY <1>1, <1>3 DEF Late, Past, Early, LatePlaces, EarlyPlaces
  <1>5. \A q \in Queues : Enabled(d, q)' = Enabled(d, q) /\ ~Enabled(d, q)
    BY <1>1, <1>2, <1>3 DEF Enabled, DeviceInv
  <1>6. /\ ~vio'[d].resetting /\ vq[0].avail_idx = 0 /\ global_vnet_dev = d
        /\ vio'[d].status # {} /\ (Agreed <=> "FEATURES_OK" \in vio'[d].status)
    BY <1>1, <1>2, <1>3 DEF DeviceInv
  <1>7. ~Agreed => Unusable(d)'
    BY <1>3 DEF Agreed, Unusable, SameDevice
  <1>8. Late(d)' => Stage(d)'
    BY <1>1, <1>3, <1>4, <1>5, <1>6 DEF Stage, Queues
  <1>9. \A q \in Queues : vio'[d].queue[q].size = Fn(d)'.queue_size[q]
    BY <1>2, <1>3 DEF DeviceInv, SameDevice
  <1> QED
    BY <1>1, <1>4, <1>5, <1>6, <1>7, <1>8, <1>9 DEF DeviceInv

LEMMA DriverOkNic ==
  ASSUME NEW d, Here(d), SameDevice(d), DriverOk
  PROVE  DeviceInv(d)'
  <1>1. /\ pc = "driver_ok" /\ pc' = "select" /\ dev' = dev /\ queue_index' = 0
        /\ UNCHANGED <<vdev, global_vnet_dev, vq>>
    BY DEF DriverOk, HandshakeStep, At, GoTo
  <1>2. /\ vio'[d].status = vio[d].status \cup {"DRIVER_OK"}
        /\ vio'[d].queue = vio[d].queue /\ vio'[d].resetting = vio[d].resetting
    BY DriverOkWrites DEF Here, DeviceIs, Keep
  <1>3. Late(d) /\ dev = d /\ d \in Int /\ DeviceInv(d) /\ Stage(d)
    BY <1>1 DEF Here, Late, LatePlaces, DeviceInv
  <1>4. ~Early(d)' /\ Late(d)' /\ ~Past(d)'
    BY <1>1, <1>3 DEF Late, Past, Early, LatePlaces, EarlyPlaces
  <1>5. \A q \in Queues : Enabled(d, q)' = Enabled(d, q) /\ ~Enabled(d, q)
    BY <1>1, <1>2, <1>3 DEF Enabled, Stage, Queues
  <1>6. Stage(d)'
    BY <1>1, <1>2, <1>3, <1>5 DEF Stage, Queues
  <1>7. \A q \in Queues : vio'[d].queue[q].size = Fn(d)'.queue_size[q]
    BY <1>2, <1>3 DEF DeviceInv, SameDevice
  <1> QED
    BY <1>1, <1>4, <1>5, <1>6, <1>7 DEF DeviceInv, Stage

LEMMA SelectNic ==
  ASSUME NEW d, Here(d), SameDevice(d), SelectQueue
  PROVE  DeviceInv(d)'
  <1>1. /\ pc = "select" /\ UNCHANGED <<vdev, global_vnet_dev, vq, queue_index>>
        /\ \/ vio[dev].queue[queue_index].size = 0 /\ pc' = "scan" /\ dev' = dev + 1
           \/ pc' = "format" /\ dev' = dev
    BY DEF SelectQueue, HandshakeStep, At, GoTo, Return
  <1>2. /\ vio'[d].status = vio[d].status
        /\ vio'[d].queue = vio[d].queue /\ vio'[d].resetting = vio[d].resetting
        /\ vio'[d].told = vio[d].told
    BY SelectWrites DEF Here, DeviceIs, Keep
  <1>3. /\ Late(d) /\ dev = d /\ d \in Int /\ DeviceInv(d) /\ Stage(d) /\ d \in bus_master
        /\ queue_index \in Queues
    BY <1>1 DEF Here, Late, LatePlaces, DeviceInv, NicType
  <1>4. ~Early(d)' /\ (Late(d)' <=> dev' = d) /\ (Past(d)' <=> dev' = d + 1)
    BY <1>1, <1>3 DEF Late, Past, Early, LatePlaces, EarlyPlaces
  <1>5. \A q \in Queues : (Enabled(d, q)' <=> Enabled(d, q)) /\ (Bound(d, q)' <=> Bound(d, q))
    BY <1>1, <1>2 DEF Enabled, Bound, SameDevice
  <1>6. RxFilled(d) => RxFilled(d)'
    BY <1>1, <1>2, <1>5 DEF RxFilled, SameDevice, Queues
  <1>7. Late(d)' => Stage(d)'
    BY <1>1, <1>2, <1>3, <1>4, <1>5, <1>6 DEF Stage, Queues
  <1>8. Past(d)' => Unusable(d)' \/ (RxFilled(d)' /\ Fn(d)'.queue_size[1] = 0)
    <2>1. dev' = d + 1 => Fn(d).queue_size[queue_index] = 0
      BY <1>1, <1>3 DEF DeviceInv
    <2>2. queue_index = 1 => RxFilled(d)
      BY <1>1, <1>3 DEF Stage
    <2> QED
      BY <1>3, <1>4, <1>6, <2>1, <2>2 DEF Unusable, SameDevice, Queues
  <1>9. \A q \in Queues : vio'[d].queue[q].size = Fn(d)'.queue_size[q]
    BY <1>2, <1>3 DEF DeviceInv, SameDevice
  <1> QED
    BY <1>1, <1>2, <1>3, <1>4, <1>5, <1>7, <1>8, <1>9 DEF DeviceInv, Stage

LEMMA FormatNic ==
  ASSUME NEW d, Here(d), SameDevice(d), virtqueue_init
  PROVE  DeviceInv(d)'
  <1> DEFINE n == queue_index
             size == vio[dev].queue[n].size
  <1>1. /\ pc = "format" /\ pc' = "bind" /\ dev' = dev
        /\ UNCHANGED <<vio, vdev, global_vnet_dev, queue_index>>
    BY DEF virtqueue_init, At, GoTo
  <1>2. /\ Late(d) /\ dev = d /\ d \in Int /\ DeviceInv(d) /\ Stage(d)
        /\ n \in Queues /\ vq \in [Queues -> [size : Nat, avail_idx : Nat, owner : Int]]
    BY <1>1 DEF Here, Late, LatePlaces, DeviceInv, NicType
  <1>3. /\ vq'[n].owner = d /\ vq'[n].size = size /\ vq'[n].avail_idx = vq[n].avail_idx
        /\ \A q \in Queues \ {n} : vq'[q] = vq[q]
    <2> DEFINE a == [vq EXCEPT ![n].size = size]
    <2>1. vq' = [a EXCEPT ![n].owner = dev]
      BY DEF virtqueue_init
    <2>2. size \in Nat
      BY <1>2 DEF Here, NicType, Device, Queue
    <2> HIDE DEF n, size
    <2>3. /\ a \in [Queues -> [size : Nat, avail_idx : Nat, owner : Int]]
          /\ a[n].size = size /\ a[n].avail_idx = vq[n].avail_idx
          /\ \A q \in Queues \ {n} : a[q] = vq[q]
      BY <1>2, <2>2
    <2> HIDE DEF a
    <2> QED
      BY <1>2, <2>1, <2>3
  <1>4. ~Early(d)' /\ Late(d)' /\ ~Past(d)'
    BY <1>1, <1>2 DEF Late, Past, Early, LatePlaces, EarlyPlaces
  <1>5. size = Fn(d).queue_size[n]
    BY <1>2 DEF DeviceInv
  <1> HIDE DEF size, n
  <1>6. \A q \in Queues : (Enabled(d, q)' <=> Enabled(d, q)) /\ (Enabled(d, q) => q # n)
    BY <1>1, <1>2 DEF Enabled, Stage, Queues, n
  <1>7. \A q \in Queues : Enabled(d, q) => (Bound(d, q)' <=> Bound(d, q))
    BY <1>1, <1>3, <1>6 DEF Bound, SameDevice
  <1>8. vq'[0].avail_idx = vq[0].avail_idx
    BY <1>2, <1>3 DEF Queues
  <1>9. RxFilled(d) => RxFilled(d)'
    BY <1>1, <1>6, <1>8 DEF RxFilled, SameDevice, Queues
  <1>10. Stage(d)'
    BY <1>1, <1>2, <1>3, <1>5, <1>6, <1>8, <1>9 DEF Stage, Queues, SameDevice, n
  <1>11. \A q \in Queues : vio'[d].queue[q].size = Fn(d)'.queue_size[q]
    BY <1>1, <1>2 DEF DeviceInv, SameDevice
  <1> QED
    BY <1>1, <1>2, <1>4, <1>6, <1>7, <1>10, <1>11 DEF DeviceInv, Stage

LEMMA BindNic ==
  ASSUME NEW d, Here(d), SameDevice(d), BindQueue
  PROVE  DeviceInv(d)'
  <1> DEFINE n == queue_index
             old == vio[d].queue
             new == [size |-> vq[n].size, enabled |-> old[n].enabled, at |-> n]
  <1>1. /\ pc = "bind" /\ pc' = "enable" /\ dev' = dev
        /\ UNCHANGED <<vdev, global_vnet_dev, vq, queue_index>>
    BY DEF BindQueue, HandshakeStep, At, GoTo
  <1>2. /\ Late(d) /\ dev = d /\ d \in Int /\ DeviceInv(d) /\ Stage(d)
        /\ n \in Queues /\ old \in [Queues -> Queue]
    BY <1>1 DEF Here, Late, LatePlaces, DeviceInv, NicType, Device
  <1>3. /\ vio'[d].status = vio[d].status /\ vio'[d].resetting = vio[d].resetting
        /\ vio'[d].queue_select = n /\ vio'[d].told = vio[d].told
        /\ vio'[d].queue = [old EXCEPT ![n] = new]
    BY BindWrites DEF Here, DeviceIs, Keep
  <1>4. new.size = vq[n].size /\ new.enabled = old[n].enabled /\ new.at = n
    OBVIOUS
  <1> HIDE DEF new
  <1>5. /\ vio'[d].queue[n] = new
        /\ \A q \in Queues \ {n} : vio'[d].queue[q] = vio[d].queue[q]
    BY <1>2, <1>3
  <1>6. ~Early(d)' /\ Late(d)' /\ ~Past(d)'
    BY <1>1, <1>2 DEF Late, Past, Early, LatePlaces, EarlyPlaces
  <1>7. \A q \in Queues : (Enabled(d, q)' <=> Enabled(d, q)) /\ (Enabled(d, q) => q # n)
    BY <1>1, <1>2, <1>4, <1>5 DEF Enabled, Stage, Queues
  <1>8. vq[n].owner = d /\ vq[n].size = Fn(d).queue_size[n]
    BY <1>1, <1>2 DEF Stage
  <1> HIDE DEF n
  <1>9. \A q \in Queues : Enabled(d, q) => (Bound(d, q)' <=> Bound(d, q))
    BY <1>1, <1>5, <1>7 DEF Bound, SameDevice
  <1>10. RxFilled(d) => RxFilled(d)'
    BY <1>1, <1>3, <1>7 DEF RxFilled, SameDevice, Queues
  <1>11. Stage(d)'
    BY <1>1, <1>2, <1>3, <1>4, <1>5, <1>7, <1>8, <1>10 DEF Stage, Queues, SameDevice, n
  <1>12. \A q \in Queues : vio'[d].queue[q].size = Fn(d)'.queue_size[q]
    BY <1>2, <1>4, <1>5, <1>8 DEF DeviceInv, SameDevice
  <1> QED
    BY <1>1, <1>2, <1>3, <1>6, <1>7, <1>9, <1>11, <1>12 DEF DeviceInv, Stage

LEMMA EnableNic ==
  ASSUME NEW d, Here(d), SameDevice(d), EnableQueue
  PROVE  DeviceInv(d)'
  <1> DEFINE n == queue_index
             old == vio[d].queue
             on == TRUE
             new == [size |-> old[n].size, enabled |-> on, at |-> old[n].at]
  <1>1. /\ pc = "enable"
        /\ UNCHANGED <<global_vnet_dev, vq, queue_index>>
        /\ IF n = 0 THEN pc' = "prefill" /\ dev' = dev ELSE pc' = "scan" /\ dev' = dev + 1
    BY DEF EnableQueue, HandshakeStep, At, GoTo, Return
  <1>2. /\ Late(d) /\ dev = d /\ d \in Int /\ DeviceInv(d) /\ Stage(d)
        /\ n \in Queues /\ old \in [Queues -> Queue] /\ d \in DevNos
    BY <1>1 DEF Here, Late, LatePlaces, DeviceInv, NicType, Device
  <1>3. vio[d].queue_select = n
    BY <1>1, <1>2 DEF Stage
  <1>4. /\ vio'[d].status = vio[d].status /\ vio'[d].resetting = vio[d].resetting
        /\ vio'[d].told = vio[d].told
        /\ vio'[d].queue = [old EXCEPT ![n] = new]
    BY <1>3, EnableWrites DEF Here, DeviceIs, Keep
  <1>5. new.size = old[n].size /\ new.enabled /\ new.at = old[n].at
    OBVIOUS
  <1> HIDE DEF new, on
  <1>6. /\ vio'[d].queue[n] = new
        /\ \A q \in Queues \ {n} : vio'[d].queue[q] = vio[d].queue[q]
    BY <1>2, <1>4
  <1>7. /\ n = 0 => vdev'[d].rx_vq = "set" /\ vdev'[d].tx_vq = vdev[d].tx_vq
        /\ n = 1 => vdev'[d].tx_vq = "set" /\ vdev'[d].rx_vq = vdev[d].rx_vq
        /\ vdev'[d].notify = vdev[d].notify
    BY <1>2 DEF EnableQueue, Here, NicType, Queues
  <1>8. ~Early(d)' /\ (Late(d)' <=> n = 0) /\ (Past(d)' <=> n # 0)
    BY <1>1, <1>2 DEF Late, Past, Early, LatePlaces, EarlyPlaces
  <1>9. \A q \in Queues : Enabled(d, q)' <=> (q = n \/ Enabled(d, q))
    BY <1>5, <1>6 DEF Enabled
  <1>10. \A q \in Queues : q = n => Bound(d, q)'
    BY <1>1, <1>2, <1>5, <1>6 DEF Bound, Stage, SameDevice
  <1>11. \A q \in Queues \ {n} : Bound(d, q)' <=> Bound(d, q)
    BY <1>1, <1>6 DEF Bound, SameDevice
  <1>12. n = 1 => RxFilled(d)'
    <2>1. n = 1 => RxFilled(d)
      BY <1>1, <1>2 DEF Stage
    <2>2. n = 1 => (Enabled(d, 0)' <=> Enabled(d, 0))
      BY <1>9 DEF Queues
    <2> QED
      BY <1>1, <1>4, <1>7, <2>1, <2>2 DEF RxFilled, SameDevice
  <1>13. Late(d)' => Stage(d)'
    <2> SUFFICES ASSUME n = 0
                 PROVE  Stage(d)'
      BY <1>8
    <2>1. Enabled(d, 0)' /\ ~Enabled(d, 1)' /\ pc' = "prefill"
      BY <1>1, <1>2, <1>9 DEF Stage, Queues
    <2> QED
      BY <1>1, <1>2, <1>4, <1>7, <2>1 DEF Stage
  <1>14. \A q \in Queues : vio'[d].queue[q].size = Fn(d)'.queue_size[q]
    BY <1>2, <1>5, <1>6 DEF DeviceInv, SameDevice
  <1>15. Past(d)' => RxFilled(d)' /\ vdev'[d].tx_vq = "set" /\ Enabled(d, 1)'
    BY <1>2, <1>7, <1>8, <1>9, <1>12 DEF Queues
  <1>16. /\ ~vio'[d].resetting /\ "FEATURES_OK" \in vio'[d].status
         /\ \A q \in Queues : Enabled(d, q)' => Bound(d, q)'
    BY <1>2, <1>4, <1>9, <1>10, <1>11 DEF DeviceInv, Stage
  <1>17. pc' # "negotiate"
    BY <1>1
  <1> QED
    BY <1>8, <1>13, <1>14, <1>15, <1>16, <1>17 DEF DeviceInv

LEMMA PrefillNic ==
  ASSUME NEW d, Here(d), SameDevice(d), Prefill
  PROVE  DeviceInv(d)'
  <1>1. /\ pc = "prefill" /\ pc' = "notify" /\ dev' = dev
        /\ UNCHANGED <<vio, vdev, global_vnet_dev, queue_index>>
    BY DEF Prefill, At, GoTo
  <1>2. /\ Late(d) /\ dev = d /\ d \in Int /\ DeviceInv(d) /\ Stage(d)
        /\ vq \in [Queues -> [size : Nat, avail_idx : Nat, owner : Int]]
    BY <1>1 DEF Here, Late, LatePlaces, DeviceInv, NicType
  <1>3. /\ vq'[0].avail_idx = vq[0].avail_idx + vq[0].size
        /\ vq'[0].size = vq[0].size /\ vq'[0].owner = vq[0].owner /\ vq'[1] = vq[1]
    <2> DEFINE sum == vq[0].avail_idx + vq[0].size
    <2>1. vq' = [vq EXCEPT ![0].avail_idx = sum]
      BY DEF Prefill
    <2>2. 0 \in Queues /\ 1 \in Queues
      BY DEF Queues
    <2> HIDE DEF sum
    <2>3. /\ vq'[0].avail_idx = sum
          /\ vq'[0].size = vq[0].size /\ vq'[0].owner = vq[0].owner /\ vq'[1] = vq[1]
      BY <1>2, <2>1, <2>2
    <2> QED
      BY <2>3 DEF sum
  <1>4. vq[0].avail_idx = 0 /\ vq[0].size = Fn(d).queue_size[0] /\ vq[0].size \in Nat
    BY <1>1, <1>2 DEF Stage, DeviceInv, Bound, Queues
  <1>5. vq'[0].avail_idx = Fn(d).queue_size[0]
    BY <1>3, <1>4
  <1>6. ~Early(d)' /\ Late(d)' /\ ~Past(d)'
    BY <1>1, <1>2 DEF Late, Past, Early, LatePlaces, EarlyPlaces
  <1>7. \A q \in Queues : (Enabled(d, q)' <=> Enabled(d, q)) /\ (Bound(d, q)' <=> Bound(d, q))
    BY <1>1, <1>3 DEF Enabled, Bound, SameDevice, Queues
  <1>8. Stage(d)'
    BY <1>1, <1>2, <1>5, <1>7 DEF Stage, Queues, SameDevice
  <1>9. \A q \in Queues : vio'[d].queue[q].size = Fn(d)'.queue_size[q]
    BY <1>1, <1>2 DEF DeviceInv, SameDevice
  <1> QED
    BY <1>1, <1>2, <1>6, <1>7, <1>8, <1>9 DEF DeviceInv, Stage

LEMMA NotifyNic ==
  ASSUME NEW d, Here(d), SameDevice(d), virtqueue_notify
  PROVE  DeviceInv(d)'
  <1>1. /\ pc = "notify" /\ pc' = "select" /\ dev' = dev /\ queue_index' = 1
        /\ UNCHANGED <<vdev, global_vnet_dev, vq>>
    BY DEF virtqueue_notify, HandshakeStep, At, GoTo
  <1>2. /\ Late(d) /\ dev = d /\ d \in Int /\ DeviceInv(d) /\ Stage(d) /\ d \in bus_master
    BY <1>1 DEF Here, Late, LatePlaces, DeviceInv
  <1>3. /\ vio'[d].status = vio[d].status /\ vio'[d].resetting = vio[d].resetting
        /\ vdev[d].notify # NULL => vio'[d].told = vq[0].avail_idx
        /\ vio'[d].queue = vio[d].queue
    BY NotifyWrites DEF Here, DeviceIs, Keep
  <1>4. ~Early(d)' /\ Late(d)' /\ ~Past(d)'
    BY <1>1, <1>2 DEF Late, Past, Early, LatePlaces, EarlyPlaces
  <1>5. \A q \in Queues : (Enabled(d, q)' <=> Enabled(d, q)) /\ (Bound(d, q)' <=> Bound(d, q))
    BY <1>1, <1>3 DEF Enabled, Bound, SameDevice
  <1>6. RxFilled(d)'
    BY <1>1, <1>2, <1>3, <1>5 DEF RxFilled, Stage, SameDevice, Queues
  <1>7. Stage(d)'
    BY <1>1, <1>2, <1>3, <1>5, <1>6 DEF Stage, Queues
  <1>8. \A q \in Queues : vio'[d].queue[q].size = Fn(d)'.queue_size[q]
    BY <1>2, <1>3 DEF DeviceInv, SameDevice
  <1> QED
    BY <1>1, <1>2, <1>3, <1>4, <1>5, <1>7, <1>8 DEF DeviceInv, Stage

LEMMA VirtioNic ==
  ASSUME NEW d, Here(d), VirtioStep
  PROVE  DeviceInv(d)'
  <1>1. SameDevice(d)
    BY SameDeviceLemma
  <1> QED
    BY <1>1, WalkNic, ResetNic, NegotiateNic, DriverOkNic, SelectNic, FormatNic, BindNic,
       EnableNic, PrefillNic, NotifyNic DEF VirtioStep

-----------------------------------------------------------------------------
(* The rest of the kernel, and the device that finishes its reset *)

LEMMA ElsewhereNic ==
  ASSUME PlaceInv, NEW d \in VirtioDevs, DeviceInv(d), UNCHANGED virtio_vars,
         Within(XhciPlaces) \/ Probing \/ Finishing
  PROVE  DeviceInv(d)'
  <1>1. dev \in Int /\ d \in Int /\ Devs \in Int /\ d < Devs
    BY PcieAssumption DEF PlaceInv, VirtioDevs, DevNos
  <1>2. UNCHANGED <<vio, vdev, global_vnet_dev, queue_index, vq>>
    BY DEF virtio_vars
  <1>3. machine' = machine /\ bus_master \subseteq bus_master'
    BY DEF Within, Probing, Finishing
  <1>4. Fn(d)' = Fn(d) /\ (Unusable(d)' <=> Unusable(d))
    BY <1>3 DEF Fn, Unusable
  <1>5. \/ Early(d) /\ Early(d)' /\ pc \notin EarlyPlaces \ {"virtio"}
           /\ pc' \notin EarlyPlaces \ {"virtio"}
        \/ Early(d) /\ dev # d /\ Early(d)' /\ pc' \notin EarlyPlaces \ {"virtio"}
        \/ Past(d) /\ Past(d)'
        \/ pc' = pc /\ dev' = dev
    BY <1>1 DEF Within, Probing, Finishing, PlaceInv, Early, Past, XhciPlaces, EarlyPlaces,
       LastPlaces
  <1>6. CASE pc' = pc /\ dev' = dev
    <2>1. /\ Early(d)' <=> Early(d)
          /\ Late(d)' <=> Late(d)
          /\ Past(d)' <=> Past(d)
      BY <1>6 DEF Early, Late, Past
    <2>2. \A q \in Queues : (Enabled(d, q)' <=> Enabled(d, q)) /\ (Bound(d, q)' <=> Bound(d, q))
      BY <1>2, <1>4 DEF Enabled, Bound
    <2>3. RxFilled(d) => RxFilled(d)'
      BY <1>2, <1>3, <1>4, <2>2 DEF RxFilled, Queues
    <2>4. Stage(d) => Stage(d)'
      BY <1>2, <1>4, <1>6, <2>2, <2>3 DEF Stage, Queues
    <2> QED
      BY <1>2, <1>4, <1>6, <2>1, <2>2, <2>3, <2>4 DEF DeviceInv, Queues
  <1>7. CASE Past(d) /\ Past(d)'
    <2>1. ~Early(d)' /\ ~Late(d)' /\ dev' # d /\ dev # d
      BY <1>1, <1>7 DEF Early, Late, Past, Within, Probing, Finishing
    <2>2. \A q \in Queues : (Enabled(d, q)' <=> Enabled(d, q)) /\ (Bound(d, q)' <=> Bound(d, q))
      BY <1>2, <1>4 DEF Enabled, Bound
    <2>3. RxFilled(d) => RxFilled(d)'
      BY <1>2, <1>3, <1>4, <2>2 DEF RxFilled, Queues
    <2> QED
      BY <1>2, <1>4, <1>7, <2>1, <2>2, <2>3 DEF DeviceInv, Queues
  <1>8. CASE /\ Early(d) /\ Early(d)' /\ pc' \notin EarlyPlaces \ {"virtio"}
             /\ dev # d \/ pc \notin EarlyPlaces \ {"virtio"}
    <2>1. ~Late(d)' /\ ~Past(d)'
      BY <1>1, <1>8 DEF Early, Late, Past, LatePlaces, EarlyPlaces, Within, Probing, Finishing
    <2>2. \A q \in Queues : Enabled(d, q)' <=> Enabled(d, q)
      BY <1>2 DEF Enabled
    <2>3. pc' \notin {"reset", "reset_wait", "negotiate"}
          /\ (dev # d \/ pc \notin {"reset", "reset_wait", "negotiate"})
      BY <1>8 DEF EarlyPlaces
    <2> QED
      BY <1>2, <1>4, <1>8, <2>1, <2>2, <2>3 DEF DeviceInv
  <1> QED
    BY <1>5, <1>6, <1>7, <1>8

LEMMA DeviceResetsNic ==
  ASSUME NicType, VirtioResets
  PROVE  /\ NicType'
         /\ \A d \in VirtioDevs : DeviceInv(d) => DeviceInv(d)'
  <1>1. /\ UNCHANGED <<pc, dev, machine, bus_master, vdev, global_vnet_dev, queue_index, vq>>
    BY DEF VirtioResets, DeviceResets, pcie_vars
  <1>0. PICK e \in DevNos :
         /\ vio[e].resetting
         /\ vio' = [vio EXCEPT ![e].resetting = FALSE, ![e].status = {}, ![e].told = 0,
                               ![e].queue = [q \in Queues |->
                                 [size |-> Fn(e).queue_size[q], enabled |-> FALSE,
                                  at |-> NoRing]]]
    BY DEF VirtioResets, DeviceResets
  <1> DEFINE no == FALSE
             none == {}
             zero == 0
             queues == [q \in Queues |->
                          [size |-> Fn(e).queue_size[q], enabled |-> no, at |-> NoRing]]
             a == [vio EXCEPT ![e].resetting = no]
             b == [a EXCEPT ![e].status = none]
             c == [b EXCEPT ![e].told = zero]
  <1>2. vio' = [c EXCEPT ![e].queue = queues]
    BY <1>0
  <1>3. no \in BOOLEAN /\ ~no /\ zero \in Nat
    OBVIOUS
  <1>4. none \in SUBSET StatusBits /\ "FEATURES_OK" \notin none
    OBVIOUS
  <1>5. /\ queues \in [Queues -> Queue]
        /\ \A q \in Queues : queues[q].size = Fn(e).queue_size[q] /\ ~queues[q].enabled
    <2>1. Fn(e).queue_size \in [Queues -> Nat]
      BY VirtioAssumption DEF NicType, Fn
    <2> QED
      BY <1>3, <2>1 DEF Queue, NoRing
  <1> HIDE DEF no, none, queues
  <1>6. /\ a \in [DevNos -> Device] /\ a[e].resetting = no
        /\ \A d \in DevNos \ {e} : a[d] = vio[d]
    BY <1>3, ZenonT(60) DEF NicType, Device
  <1> HIDE DEF a
  <1>7. /\ b \in [DevNos -> Device] /\ b[e].resetting = no /\ b[e].status = none
        /\ \A d \in DevNos \ {e} : b[d] = vio[d]
    BY <1>4, <1>6 DEF Device
  <1> HIDE DEF b
  <1>8. /\ c \in [DevNos -> Device] /\ c[e].resetting = no /\ c[e].status = none
        /\ \A d \in DevNos \ {e} : c[d] = vio[d]
    BY <1>3, <1>7 DEF Device
  <1> HIDE DEF c
  <1>9. /\ vio' \in [DevNos -> Device] /\ vio'[e].resetting = no /\ vio'[e].status = none
        /\ vio'[e].queue = queues
        /\ \A d \in DevNos \ {e} : vio'[d] = vio[d]
    <2>1. queues \in [Queues -> Queue]
      BY <1>5
    <2>2. /\ vio' \in [DevNos -> Device] /\ vio'[e].resetting = no /\ vio'[e].status = none
          /\ vio'[e].queue = queues
      BY <1>2, <1>8, <2>1 DEF Device
    <2>3. \A d \in DevNos \ {e} : vio'[d] = c[d]
      BY <1>2, <1>8
    <2> QED
      BY <1>8, <2>2, <2>3
  <1>10. NicType'
    BY <1>1, <1>9 DEF NicType, VirtioDevs, Brought, Fn
  <1>11. ASSUME NEW d \in VirtioDevs, DeviceInv(d)
         PROVE  DeviceInv(d)'
    <2>1. d \in DevNos /\ Fn(d)' = Fn(d) /\ (Unusable(d)' <=> Unusable(d))
      BY <1>1 DEF VirtioDevs, Fn, Unusable
    <2>2. /\ Early(d)' <=> Early(d)
          /\ Late(d)' <=> Late(d)
          /\ Past(d)' <=> Past(d)
      BY <1>1 DEF Early, Late, Past
    <2>3. CASE d = e
      <3>1. dev = d /\ pc = "reset_wait"
        BY <1>0, <1>11, <2>3 DEF DeviceInv
      <3>2. Early(d) /\ ~Late(d)
        BY <3>1 DEF Early, Late, EarlyPlaces, LatePlaces
      <3>3. ~Past(d)
        BY <2>1, <3>1, PcieAssumption DEF Past, DevNos
      <3>4. \A q \in Queues : ~Enabled(d, q)' /\ vio'[d].queue[q].size = Fn(d)'.queue_size[q]
        BY <1>5, <1>9, <2>1, <2>3 DEF Enabled
      <3>5. ~vio'[d].resetting /\ "FEATURES_OK" \notin vio'[d].status
        BY <1>3, <1>4, <1>9, <2>3
      <3> QED
        BY <1>1, <1>11, <2>2, <3>1, <3>2, <3>3, <3>4, <3>5 DEF DeviceInv
    <2>4. CASE d # e
      <3>1. vio'[d] = vio[d]
        BY <1>9, <2>1, <2>4
      <3>2. \A q \in Queues : /\ Enabled(d, q)' <=> Enabled(d, q)
                              /\ Bound(d, q)' <=> Bound(d, q)
        BY <1>1, <2>1, <3>1 DEF Enabled, Bound
      <3>3. RxFilled(d)' <=> RxFilled(d)
        BY <1>1, <2>1, <3>1, <3>2 DEF RxFilled, Queues
      <3>4. Stage(d)' <=> Stage(d)
        BY <1>1, <2>1, <3>1, <3>2, <3>3 DEF Stage, Queues
      <3> QED
        BY <1>1, <1>11, <2>1, <2>2, <3>1, <3>2, <3>3, <3>4 DEF DeviceInv, Queues
    <2> QED
      BY <2>3, <2>4
  <1> QED
    BY <1>10, <1>11

LEMMA OneNic ==
  ASSUME Cardinality(VirtioDevs) = 1, NEW d \in VirtioDevs, NEW e \in VirtioDevs
  PROVE  d = e
  <1>1. IsFiniteSet(VirtioDevs)
    <2>1. IsFiniteSet(DevNos)
      BY FS_Interval, PcieAssumption DEF DevNos
    <2>2. VirtioDevs \subseteq DevNos
      BY DEF VirtioDevs
    <2> QED
      BY <2>1, <2>2, FS_Subset
  <1>2. \E x : VirtioDevs = {x}
    BY <1>1, FS_Singleton
  <1> QED
    BY <1>2

LEMMA NicStep ==
  ASSUME NicInv, PlaceInv, [BootNext]_boot_vars
  PROVE  NicInv'
  <1>1. Moves
    BY EveryMove
  <1>2. /\ machine' = machine /\ VirtioDevs' = VirtioDevs
        /\ (Cardinality(VirtioDevs) = 1)' <=> Cardinality(VirtioDevs) = 1
    BY <1>1, MachineLemma
  <1>3. CASE VirtioStep
    <2>1. NicType'
      BY <1>3, NicTypeStep DEF NicInv
    <2>2. pc \in VirtioPlaces
      BY <1>3, VirtioMoves DEF Within
    <2>3. dev \in VirtioDevs /\ dev \in DevNos /\ dev \in bus_master /\ dev \in Int
      BY <2>2, PcieAssumption DEF PlaceInv, VirtioDevs, DevNos
    <2>4. ASSUME Cardinality(VirtioDevs) = 1, NEW d \in VirtioDevs
          PROVE  DeviceInv(d)'
      <3>1. d = dev
        BY <2>3, <2>4, OneNic
      <3>2. Here(d)
        BY <2>3, <2>4, <3>1 DEF Here, NicInv
      <3> QED
        BY <1>3, <3>2, VirtioNic
    <2> QED
      BY <1>2, <2>1, <2>4 DEF NicInv
  <1>4. CASE VirtioResets
    BY <1>2, <1>4, DeviceResetsNic DEF NicInv
  <1>5. ASSUME UNCHANGED virtio_vars, Within(XhciPlaces) \/ Probing \/ Finishing
        PROVE  NicInv'
    <2>1. NicType'
      BY <1>2, <1>5 DEF virtio_vars, NicInv, NicType
    <2>2. \A d \in VirtioDevs : DeviceInv(d) => DeviceInv(d)'
      BY <1>5, ElsewhereNic
    <2> QED
      BY <1>2, <2>1, <2>2 DEF NicInv
  <1>6. CASE Kernel /\ ~VirtioStep
    <2>1. UNCHANGED virtio_vars
      BY <1>6 DEF Kernel
    <2>2. Within(XhciPlaces) \/ Probing \/ Finishing
      BY <1>6, XhciMoves, PcieMoves, IrqMoves DEF Kernel, PlaceInv
    <2> QED
      BY <1>5, <2>1, <2>2
  <1>7. CASE (\E w \in Waits : XhciClears(w)) \/ RedistributorWakes \/ Expires
    <2>1. UNCHANGED virtio_vars
      BY <1>7 DEF XhciClears, RedistributorWakes, Expires
    <2>2. Finishing
      BY <1>7, DevicesStill DEF Finishing
    <2> QED
      BY <1>5, <2>1, <2>2
  <1>8. CASE UNCHANGED boot_vars
    <2>1. UNCHANGED virtio_vars /\ Finishing
      BY <1>8 DEF boot_vars, pcie_vars, Finishing
    <2> QED
      BY <1>5, <2>1
  <1> QED
    BY <1>3, <1>4, <1>6, <1>7, <1>8 DEF BootNext

LEMMA NicStart ==
  ASSUME BootInit
  PROVE  NicInv
  <1>1. /\ pc = "scan" /\ dev = 0 /\ bus_master = {}
        /\ vdev = [d \in DevNos |-> [common |-> NULL, device |-> NULL, isr |-> NULL,
                                     notify |-> NULL, rx_vq |-> "uninit", tx_vq |-> "uninit"]]
        /\ global_vnet_dev = NoDev /\ queue_index = 0
        /\ vq = [q \in Queues |-> [size |-> 0, avail_idx |-> 0, owner |-> NoDev]]
    BY DEF BootInit, PcieInit, VirtioInit
  <1>2. machine \in [DevNos -> DOMAIN Functions]
    BY PcieAssumption DEF BootInit, PcieInit
  <1>3. ASSUME NEW d \in DevNos
        PROVE  /\ vio[d] \in Device
               /\ ~vio[d].resetting /\ "FEATURES_OK" \notin vio[d].status
               /\ \A q \in Queues : vio[d].queue[q].size = Fn(d).queue_size[q]
               /\ vio[d].status = {} => \A q \in Queues : ~Enabled(d, q)
    <2> DEFINE used == Fn(d).used
               sizes == Fn(d).queue_size
               bits == IF used THEN {"ACKNOWLEDGE", "DRIVER", "DRIVER_OK"} ELSE {}
               at == IF used THEN FirmwareRing ELSE NoRing
               no == FALSE
               zero == 0
               queues == [q \in Queues |-> [size |-> sizes[q], enabled |-> used, at |-> at]]
    <2>1. vio[d] = [status |-> bits, resetting |-> no, queue_select |-> 0, told |-> zero,
                    queue |-> queues]
      BY DEF BootInit, VirtioInit
    <2>2. sizes \in [Queues -> Nat] /\ used \in BOOLEAN
      BY <1>2, VirtioAssumption DEF Fn
    <2>3. /\ bits \in SUBSET StatusBits /\ "FEATURES_OK" \notin bits
          /\ bits = {} => ~used
      BY DEF StatusBits
    <2>4. at \in Int /\ no \in BOOLEAN /\ ~no /\ zero \in Nat /\ 0 \in Queues
      BY DEF NoRing, FirmwareRing, Queues
    <2> HIDE DEF used, sizes, bits, at, no, zero
    <2>5. /\ queues \in [Queues -> Queue]
          /\ \A q \in Queues : queues[q].size = sizes[q] /\ queues[q].enabled = used
      BY <2>2, <2>4 DEF Queue
    <2> HIDE DEF queues
    <2>6. /\ vio[d] \in Device /\ vio[d].status = bits /\ vio[d].resetting = no
          /\ vio[d].queue = queues
      BY <2>1, <2>3, <2>4, <2>5 DEF Device
    <2> QED
      BY <2>3, <2>4, <2>5, <2>6 DEF Enabled, sizes
  <1>4. DOMAIN vio = DevNos /\ vio = [d \in DevNos |-> vio[d]]
    BY DEF BootInit, VirtioInit
  <1>5. NicType
    <2>1. vio \in [DevNos -> Device]
      BY <1>3, <1>4
    <2>2. DOMAIN vdev = DevNos /\ \A d \in DevNos :
             DOMAIN vdev[d] = {"common", "device", "isr", "notify", "rx_vq", "tx_vq"}
      BY <1>1
    <2>3. vq \in [Queues -> [size : Nat, avail_idx : Nat, owner : Int]]
      BY <1>1 DEF NoDev
    <2> QED
      BY <1>1, <1>2, <2>1, <2>2, <2>3 DEF NicType, Queues
  <1>6. ASSUME NEW d \in VirtioDevs
        PROVE  DeviceInv(d)
    <2>1. d \in DevNos /\ d >= 0 /\ d # NoDev /\ d \in Int
      BY PcieAssumption DEF VirtioDevs, DevNos, NoDev
    <2>2. Early(d) /\ ~Late(d) /\ ~Past(d)
      BY <1>1, <2>1 DEF Early, Late, Past, LatePlaces
    <2>3. vq[0].avail_idx = 0
      BY <1>1 DEF Queues
    <2> QED
      BY <1>1, <1>3, <2>1, <2>2, <2>3 DEF DeviceInv
  <1> QED
    BY <1>5, <1>6 DEF NicInv

(* virtio_ring.c:134 and virtio_net.c:96: although DRIVER_OK is set before *)
(* the queues exist, a queue a live device has enabled is at its own ring, *)
(* and the ring is formatted for it with the size it reported - whatever   *)
(* firmware had left in its registers and wherever it is on the bus.       *)
THEOREM QueuesAreReady == BootSpec => []EnabledQueueIsReady
  <1>1. BootInit => PlaceInv /\ NicInv
    BY PlaceStart, NicStart
  <1>2. PlaceInv /\ NicInv /\ [BootNext]_boot_vars => (PlaceInv /\ NicInv)'
    BY EveryMove, PlaceStep, NicStep
  <1>3. PlaceInv /\ NicInv => EnabledQueueIsReady
    <2> SUFFICES ASSUME NicInv, Cardinality(VirtioDevs) = 1,
                        NEW d \in VirtioDevs, NEW q \in Queues,
                        Enabled(d, q), "FEATURES_OK" \in vio[d].status
                 PROVE  /\ vio[d].queue[q].at = q
                        /\ vq[q] = [vq[q] EXCEPT !.owner = d, !.size = vio[d].queue[q].size]
      BY ZenonT(60) DEF EnabledQueueIsReady, Enabled
    <2>1. Bound(d, q) /\ vio[d].queue[q].size = Fn(d).queue_size[q]
      BY DEF NicInv, DeviceInv
    <2> DEFINE r == vq[q]
               size == vio[d].queue[q].size
    <2>2. r \in [size : Nat, avail_idx : Nat, owner : Int] /\ r.owner = d /\ r.size = size
      BY <2>1 DEF NicInv, NicType, Bound
    <2> HIDE DEF r, size
    <2> DEFINE s == [r EXCEPT !.owner = d]
    <2>3. s = r
      BY <2>2
    <2> HIDE DEF s
    <2>4. [s EXCEPT !.size = size] = r
      BY <2>2, <2>3
    <2>5. r = [r EXCEPT !.owner = d, !.size = size]
      BY <2>4 DEF s
    <2> QED
      BY <2>1, <2>5 DEF Bound, r, size
  <1> QED
    BY <1>1, <1>2, <1>3, PTL DEF BootSpec

(* virtio_net.c:171: on every machine with one virtio function, not        *)
(* Unusable, kernel_main reaches its main loop with the receive queue      *)
(* enabled, a buffer in every descriptor of it, and, where the function    *)
(* has a notify bank, its doorbell written after the last of them was      *)
(* published; the transmit queue is there as well, if the device has one.  *)
THEOREM NicIsStarted == BootSpec => []NicStarted
  <1>1. BootInit => PlaceInv /\ NicInv
    BY PlaceStart, NicStart
  <1>2. PlaceInv /\ NicInv /\ [BootNext]_boot_vars => (PlaceInv /\ NicInv)'
    BY EveryMove, PlaceStep, NicStep
  <1>3. PlaceInv /\ NicInv => NicStarted
    <2> SUFFICES ASSUME PlaceInv, NicInv, pc = "loop", global_vnet_dev # NoDev,
                        Cardinality(VirtioDevs) = 1, NEW d, d = global_vnet_dev, ~Unusable(d)
                 PROVE  /\ "DRIVER_OK" \in vio[d].status /\ d \in bus_master
                        /\ vdev[d].rx_vq = "set" /\ vio[d].queue[0].enabled
                        /\ vq[0].avail_idx = Fn(d).queue_size[0]
                        /\ vdev[d].notify # NULL => vio[d].told = Fn(d).queue_size[0]
                        /\ Fn(d).queue_size[1] # 0 =>
                             vdev[d].tx_vq = "set" /\ vio[d].queue[1].enabled
      BY DEF NicStarted
    <2>1. d \in VirtioDevs /\ d \in DevNos
      BY DEF NicInv, NicType, VirtioDevs
    <2>2. dev = Devs /\ Past(d)
      BY <2>1, PcieAssumption DEF PlaceInv, LastPlaces, Past, DevNos
    <2>3. DeviceInv(d)
      BY <2>1 DEF NicInv
    <2>4. RxFilled(d) /\ (Fn(d).queue_size[1] # 0 => vdev[d].tx_vq = "set" /\ Enabled(d, 1))
      BY <2>2, <2>3 DEF DeviceInv
    <2> QED
      BY <2>4 DEF RxFilled, Enabled
  <1> QED
    BY <1>1, <1>2, <1>3, PTL DEF BootSpec

-----------------------------------------------------------------------------
(* BarInv: the addresses of the BARs.                                      *)

(* How many functions have been looked at, the one being brought up included *)
NextDev == IF pc \in DriverPlaces THEN dev + 1 ELSE dev

(* What register n of function f can hold once it was probed, when the     *)
(* pool is used up to limit                                                *)
PlacedAt(f, n, value, limit) ==
  IF n \in Memory(f) /\ Unassigned(f.bar[n])
    THEN /\ value % 16 = f.bar[n] % 16
         /\ PCI_POOL <= AddressBits(value) /\ AddressBits(value) + PCI_STRIDE <= limit
    ELSE n \in Memory(f) \/ f.kind[n] = "high" => value = f.bar[n]

BarType ==
  /\ machine \in Machines
  /\ bar \in [DevNos -> [BarNos -> Nat]]
  /\ next_pci_mem_addr \in Nat /\ next_pci_mem_addr % 16 = 0
  /\ PCI_POOL <= next_pci_mem_addr
  /\ next_pci_mem_addr <= PCI_POOL + PCI_STRIDE * (Bars * NextDev)

(* The functions that decode addresses are those the scan has been at. *)
Probed ==
  /\ bus_master \subseteq {d \in DevNos : d < NextDev}
  /\ pc \in DriverPlaces => dev \in bus_master
  /\ pc \in XhciPlaces => Fn(dev).class = "xhci"

AllPlaced ==
  /\ \A d \in DevNos \ bus_master : bar[d] = Fn(d).bar
  /\ \A d \in bus_master, n \in BarNos : PlacedAt(Fn(d), n, bar[d][n], next_pci_mem_addr)

ApartAt(f, i, v, g, j, w) ==
  AddressBits(v) # 0 /\ AddressBits(w) # 0 =>
    Apart(AddressBits(v), UpperHalf(f, i), AddressBits(w), UpperHalf(g, j))

AllApart ==
  \A d, e \in bus_master : \A i \in Memory(Fn(d)), j \in Memory(Fn(e)) :
    <<d, i>> # <<e, j>> => ApartAt(Fn(d), i, bar[d][i], Fn(e), j, bar[e][j])

BarInv == BarType /\ Probed /\ AllPlaced /\ AllApart

-----------------------------------------------------------------------------
LEMMA SoundLemma ==
  ASSUME machine \in Machines, NEW d \in DevNos
  PROVE  BarsSound(Fn(d)) /\ BanksSound(Fn(d))
  BY MachineAssumption DEF Fn

LEMMA GivenApart ==
  ASSUME machine \in Machines, NEW d \in DevNos, NEW e \in DevNos,
         NEW i \in Given(Fn(d)), NEW j \in Given(Fn(e)), <<d, i>> # <<e, j>>
  PROVE  Apart(AddressBits(Fn(d).bar[i]), UpperHalf(Fn(d), i),
               AddressBits(Fn(e).bar[j]), UpperHalf(Fn(e), j))
  BY MachineAssumption DEF Fn

LEMMA PoolConsts ==
  /\ PCI_POOL \in Nat \ {0} /\ PCI_STRIDE \in Nat \ {0} /\ DWORD \in Nat \ {0}
  /\ PCI_POOL % 16 = 0 /\ PCI_STRIDE % 16 = 0
  /\ Devs \in Nat /\ Bars \in Nat \ {0}
  /\ PoolEnd <= DWORD /\ PoolEnd \in Nat
  <1>1. Bars * Devs \in Nat
    BY PcieAssumption, MulLemma
  <1>2. PCI_STRIDE * (Bars * Devs) \in Nat
    BY <1>1, PcieAssumption, MulLemma
  <1> QED
    BY <1>2, PcieAssumption, MachineAssumption DEF PoolEnd

(* A register: its address and its type bits *)
LEMMA RegisterLemma ==
  ASSUME NEW v \in Nat
  PROVE  /\ AddressBits(v) \in Nat /\ AddressBits(v) <= v
         /\ v % 16 \in 0 .. 15 /\ AddressBits(v) % 16 = 0
         /\ \A w \in Nat : w % 16 = v % 16 => (w % 8) \div 2 = (v % 8) \div 2
         /\ v # 0 /\ AddressBits(v) = 0 <=> Unassigned(v)
  BY DEF AddressBits, Unassigned

LEMMA WrittenLemma ==
  ASSUME NEW a \in Nat, a % 16 = 0, NEW old \in Nat, NEW kind
  PROVE  /\ Written(kind, old, a) \in Nat
         /\ kind # "high" => /\ Written(kind, old, a) % 16 = old % 16
                             /\ AddressBits(Written(kind, old, a)) = a
  <1>1. old % 16 \in 0 .. 15
    OBVIOUS
  <1>2. \A r \in 0 .. 15 : a + r \in Nat /\ (a + r) % 16 = r
    OBVIOUS
  <1> QED
    BY <1>1, <1>2 DEF Written, AddressBits

(* Whole strides *)
LEMMA StrideLemma ==
  ASSUME NEW k \in Nat
  PROVE  /\ PCI_STRIDE * k \in Nat /\ (PCI_STRIDE * k) % 16 = 0
         /\ \A m \in Nat : k <= m => PCI_STRIDE * k <= PCI_STRIDE * m
         /\ \A m \in Nat : k < m => PCI_STRIDE * k + PCI_STRIDE <= PCI_STRIDE * m
         /\ \A m \in Nat : PCI_STRIDE * (k + m) = PCI_STRIDE * k + PCI_STRIDE * m
  <1> DEFINE q == PCI_STRIDE \div 16
  <1>1. PCI_STRIDE = 16 * q + 0 /\ q \in Nat
    BY PoolConsts, DivModType
  <1>2. q * k \in Nat
    BY <1>1, MulLemma
  <1>3. PCI_STRIDE * k = 16 * (q * k) + 0
    <2> HIDE DEF q
    <2> QED
      BY <1>1, SMT
  <1>4. (PCI_STRIDE * k) % 16 = 0 /\ PCI_STRIDE * k \in Nat
    <2> HIDE DEF q
    <2> DEFINE p == q * k
    <2> HIDE DEF p
    <2>1. p \in Nat /\ PCI_STRIDE * k = 16 * p + 0
      BY <1>2, <1>3 DEF p
    <2> QED
      BY <2>1
  <1>5. ASSUME NEW m \in Nat
        PROVE  /\ k <= m => PCI_STRIDE * k <= PCI_STRIDE * m
               /\ k < m => PCI_STRIDE * k + PCI_STRIDE <= PCI_STRIDE * m
               /\ PCI_STRIDE * (k + m) = PCI_STRIDE * k + PCI_STRIDE * m
    <2> DEFINE d == m - k
    <2>1. d \in Int /\ PCI_STRIDE \in Nat
      BY PoolConsts
    <2>2. PCI_STRIDE * d = PCI_STRIDE * m - PCI_STRIDE * k
          /\ PCI_STRIDE * m \in Int /\ PCI_STRIDE * k \in Int
          /\ PCI_STRIDE * (k + m) = PCI_STRIDE * k + PCI_STRIDE * m
      BY PoolConsts, SMT
    <2>3. /\ d >= 1 => PCI_STRIDE * d >= PCI_STRIDE
          /\ d >= 0 => PCI_STRIDE * d >= 0
      <3> HIDE DEF d
      <3> QED
        BY <2>1, MulLemma
    <2> QED
      BY <2>1, <2>2, <2>3
  <1> QED
    BY <1>4, <1>5

(* The places in the pool of the registers that need one *)
LEMMA NeedLemma ==
  ASSUME NEW S \in SUBSET BarNos
  PROVE  /\ Cardinality(S) \in 0 .. Bars
         /\ \A n \in S : /\ Cardinality({k \in S : k < n}) \in Nat
                         /\ Cardinality({k \in S : k < n}) < Cardinality(S)
         /\ \A i, j \in S : i < j =>
              Cardinality({k \in S : k < i}) < Cardinality({k \in S : k < j})
  <1>1. IsFiniteSet(BarNos) /\ Cardinality(BarNos) = Bars /\ BarNos \subseteq Int
    BY PoolConsts, FS_Interval DEF BarNos
  <1>2. IsFiniteSet(S) /\ Cardinality(S) \in Nat /\ Cardinality(S) <= Bars
    BY <1>1, FS_Subset, FS_CardinalityType
  <1>3. ASSUME NEW T \in SUBSET S
        PROVE  IsFiniteSet(T) /\ Cardinality(T) \in Nat
    BY <1>2, FS_Subset, FS_CardinalityType
  <1>4. ASSUME NEW T \in SUBSET S, NEW U \in SUBSET T, NEW x \in T, x \notin U
        PROVE  Cardinality(U) < Cardinality(T)
    <2>1. IsFiniteSet(T) /\ IsFiniteSet(U) /\ Cardinality(T) \in Nat /\ Cardinality(U) \in Nat
      BY <1>3
    <2>2. Cardinality(U) <= Cardinality(T) /\ Cardinality(U) # Cardinality(T)
      BY <1>4, <2>1, FS_Subset
    <2> QED
      BY <2>1, <2>2
  <1> DEFINE before(n) == {k \in S : k < n}
  <1>5. ASSUME NEW n \in S
        PROVE  Cardinality(before(n)) \in Nat /\ Cardinality(before(n)) < Cardinality(S)
    <2>1. before(n) \in SUBSET S /\ n \notin before(n)
      BY <1>1
    <2> HIDE DEF before
    <2> QED
      BY <1>3, <1>4, <2>1
  <1>6. ASSUME NEW i \in S, NEW j \in S, i < j
        PROVE  Cardinality(before(i)) < Cardinality(before(j))
    <2>1. before(j) \in SUBSET S /\ before(i) \in SUBSET before(j)
          /\ i \in before(j) /\ i \notin before(i)
      <3>1. \A k \in S : k < i => k < j
        BY <1>1, <1>6
      <3>2. ~ (i < i)
        BY <1>1
      <3> QED
        BY <1>6, <3>1, <3>2, Zenon
    <2> HIDE DEF before
    <2> QED
      BY <1>4, <2>1
  <1> QED
    BY <1>2, <1>5, <1>6

-----------------------------------------------------------------------------
(* BarInv is inductive. *)

LEMMA GivenOutside ==
  ASSUME NEW f, BarsSound(f), NEW n \in Given(f)
  PROVE  \/ AddressBits(f.bar[n]) + PCI_STRIDE <= PCI_POOL
         \/ PoolEnd <= AddressBits(f.bar[n])
  BY DEF BarsSound

LEMMA ApartSymmetric ==
  ASSUME NEW f, NEW g, NEW i, NEW j, NEW v, NEW w, ApartAt(f, i, v, g, j, w)
  PROVE  ApartAt(g, j, w, f, i, v)
  BY DEF ApartAt, Apart

LEMMA LimitGrows ==
  ASSUME NEW f, NEW n, NEW v \in Nat, NEW l \in Nat, NEW m \in Nat, l <= m, PlacedAt(f, n, v, l)
  PROVE  PlacedAt(f, n, v, m)
  <1>1. AddressBits(v) \in Nat
    BY RegisterLemma
  <1> QED
    BY <1>1, PoolConsts DEF PlacedAt

(* Only the scan itself changes registers. *)
LEMMA BarsMove ==
  ASSUME [BootNext]_boot_vars
  PROVE  \/ pcie_probe_device
         \/ /\ UNCHANGED <<bar, bus_master, next_pci_mem_addr>>
            /\ Within(VirtioPlaces) \/ Within(XhciPlaces) \/ Finishing \/ pc' \in {"scan", "gic"}
  <1>1. CASE PcieStep
    BY <1>1 DEF PcieStep, EmptySlot, NoDriver, ScanDone, pcie_vars, Return, GoTo
  <1>2. CASE VirtioStep
    BY <1>2, VirtioMoves DEF VirtioStep, virtio_pci_init, VdevFails, MapCapability, SkipCapability, CapsDone,
         WriteReset, ResetSpin, ResetSeen, Negotiate, DriverOk, SelectQueue, virtqueue_init,
         BindQueue, EnableQueue, Prefill, virtqueue_notify, At, pcie_vars
  <1>3. CASE XhciStep
    BY <1>3, XhciMoves DEF XhciStep, xhci_init, NextExtended, NothingToClaim, RequestOwnership, Poll,
         ReportOwnership, StopAndReset, ReportReset, At, pcie_vars
  <1>4. CASE IrqStep
    BY <1>4, IrqMoves DEF IrqStep, NextRedistributor, WakeRedistributor, EnableTimerInterrupt, timer_init,
         enable_interrupts, MainLoop, TakeIrq, Acknowledge, handle_timer_irq, EndOfInterrupt,
         kernel_exit, HandlerStep, Main, At, GoTo, pcie_vars
  <1>5. CASE VirtioResets \/ (\E w \in Waits : XhciClears(w)) \/ RedistributorWakes \/ Expires
    BY <1>5, DevicesStill DEF Finishing, VirtioResets, XhciClears, RedistributorWakes, Expires, DeviceResets, Clears,
         ChildrenWake, TimerExpires, HandlerStep, pcie_vars
  <1>6. CASE UNCHANGED boot_vars
    BY <1>6 DEF boot_vars, pcie_vars, Finishing
  <1> QED
    BY <1>1, <1>2, <1>3, <1>4, <1>5, <1>6 DEF BootNext, Kernel

(* The scan goes forward. *)
LEMMA NextDevGrows ==
  ASSUME PlaceInv, Moves
  PROVE  NextDev \in Nat /\ NextDev' \in Nat /\ NextDev <= NextDev' /\ NextDev' <= Devs
  <1>1. PlaceInv'
    BY PlaceStep
  <1>2. dev \in 0 .. Devs /\ dev' \in 0 .. Devs /\ Devs \in Nat
    BY <1>1, PoolConsts DEF PlaceInv
  <1>3. (pc' \in DriverPlaces => dev' < Devs) /\ (pc \in DriverPlaces => dev < Devs)
    BY <1>1, <1>2 DEF PlaceInv, DevNos
  <1>4. \/ dev' = dev /\ (pc \in DriverPlaces => pc' \in DriverPlaces)
        \/ dev' = dev + 1
    BY DEF Moves, Within, Probing, Finishing, DriverPlaces, XhciPlaces, VirtioPlaces,
       EarlyPlaces, LatePlaces, LastPlaces, PlaceInv
  <1>5. /\ pc \in DriverPlaces => NextDev = dev + 1
        /\ pc \notin DriverPlaces => NextDev = dev
        /\ pc' \in DriverPlaces => NextDev' = dev' + 1
        /\ pc' \notin DriverPlaces => NextDev' = dev'
    BY DEF NextDev, DriverPlaces, XhciPlaces, VirtioPlaces, EarlyPlaces, LatePlaces
  <1>6. NextDev' <= Devs
    BY <1>2, <1>3, <1>5
  <1>7. CASE dev' = dev /\ (pc \in DriverPlaces => pc' \in DriverPlaces)
    BY <1>2, <1>5, <1>6, <1>7
  <1>8. CASE dev' = dev + 1
    BY <1>2, <1>5, <1>6, <1>8
  <1> QED
    BY <1>4, <1>7, <1>8

(* The pool is large enough for all functions. *)
LEMMA PoolBound ==
  ASSUME NEW a \in Nat, NEW b \in Nat
  PROVE  /\ Bars * a \in Nat /\ PCI_STRIDE * (Bars * a) \in Nat
         /\ a <= b => PCI_STRIDE * (Bars * a) <= PCI_STRIDE * (Bars * b)
         /\ \A c \in 0 .. Bars :
              PCI_STRIDE * (Bars * a) + PCI_STRIDE * c <= PCI_STRIDE * (Bars * (a + 1))
  <1>1. Bars * a \in Nat /\ Bars * b \in Nat /\ Bars * (a + 1) \in Nat
    BY PoolConsts, MulLemma
  <1>2. PCI_STRIDE * (Bars * a) \in Nat
    BY <1>1, StrideLemma
  <1>3. a <= b => Bars * a <= Bars * b
    <2> DEFINE d == b - a
    <2>1. Bars * d = Bars * b - Bars * a /\ d \in Int
      BY PoolConsts, SMT
    <2>2. d >= 0 => Bars * d >= 0
      BY <2>1, PoolConsts, MulLemma
    <2> QED
      BY <1>1, <2>1, <2>2
  <1>4. a <= b => PCI_STRIDE * (Bars * a) <= PCI_STRIDE * (Bars * b)
    BY <1>1, <1>3, StrideLemma
  <1>5. Bars * (a + 1) = Bars * a + Bars
    BY PoolConsts, SMT
  <1>6. ASSUME NEW c \in 0 .. Bars
        PROVE  PCI_STRIDE * (Bars * a) + PCI_STRIDE * c <= PCI_STRIDE * (Bars * (a + 1))
    <2>1. c \in Nat /\ Bars * a + c \in Nat /\ Bars * a + c <= Bars * (a + 1)
      BY <1>1, <1>5, PoolConsts
    <2>2. PCI_STRIDE * (Bars * a + c) = PCI_STRIDE * (Bars * a) + PCI_STRIDE * c
      BY <1>1, <2>1, StrideLemma
    <2>3. PCI_STRIDE * (Bars * a + c) <= PCI_STRIDE * (Bars * (a + 1))
      BY <1>1, <2>1, StrideLemma
    <2> QED
      BY <2>2, <2>3
  <1> QED
    BY <1>1, <1>2, <1>4, <1>6

LEMMA BarsStart ==
  ASSUME BootInit
  PROVE  BarInv
  <1>1. /\ pc = "scan" /\ dev = 0 /\ machine \in Machines /\ bus_master = {}
        /\ bar = [d \in DevNos |-> Fn(d).bar] /\ next_pci_mem_addr = PCI_POOL
    BY DEF BootInit, PcieInit
  <1>2. NextDev = 0 /\ pc \notin DriverPlaces /\ pc \notin XhciPlaces
    BY <1>1 DEF NextDev, DriverPlaces, XhciPlaces, VirtioPlaces, EarlyPlaces, LatePlaces
  <1>3. \A d \in DevNos : Fn(d).bar \in [BarNos -> Nat]
    BY <1>1, SoundLemma DEF BarsSound
  <1>4. BarType
    BY <1>1, <1>2, <1>3, PoolConsts, PoolBound DEF BarType
  <1> QED
    BY <1>1, <1>2, <1>4 DEF BarInv, Probed, AllPlaced, AllApart

LEMMA BarsKept ==
  ASSUME PlaceInv, BarInv, Moves, UNCHANGED <<bar, bus_master, next_pci_mem_addr>>,
         Within(VirtioPlaces) \/ Within(XhciPlaces) \/ Finishing \/ pc' \in {"scan", "gic"}
  PROVE  BarInv'
  <1>1. machine' = machine /\ \A d : Fn(d)' = Fn(d)
    BY MachineLemma
  <1>2. NextDev \in Nat /\ NextDev' \in Nat /\ NextDev <= NextDev'
    BY NextDevGrows
  <1>3. BarType'
    <2>1. PCI_STRIDE * (Bars * NextDev) <= PCI_STRIDE * (Bars * NextDev')
          /\ PCI_STRIDE * (Bars * NextDev) \in Nat /\ PCI_STRIDE * (Bars * NextDev') \in Nat
      BY <1>2, PoolBound
    <2>2. next_pci_mem_addr <= PCI_POOL + PCI_STRIDE * (Bars * NextDev')
      BY <2>1, PoolConsts DEF BarInv, BarType
    <2> QED
      BY <1>1, <2>2 DEF BarInv, BarType
  <1>4. pc' \in DriverPlaces =>
          pc \in DriverPlaces /\ dev' = dev /\ (pc' \in XhciPlaces => pc \in XhciPlaces)
    BY DEF Within, Finishing, DriverPlaces, XhciPlaces, VirtioPlaces, EarlyPlaces, LatePlaces,
       LastPlaces
  <1>5. Probed'
    <2>1. XhciPlaces \subseteq DriverPlaces
      BY DEF DriverPlaces
    <2>2. \A d \in DevNos : d < NextDev => d < NextDev'
      BY <1>2, PcieAssumption DEF DevNos
    <2>3. Fn(dev)' = Functions[machine'[dev']] /\ Fn(dev) = Functions[machine[dev]]
      BY DEF Fn
    <2>4. bus_master \subseteq {d \in DevNos : d < NextDev'}
      BY <2>2 DEF BarInv, Probed
    <2>5. pc' \in DriverPlaces => dev' \in bus_master
      BY <1>4 DEF BarInv, Probed
    <2>6. pc' \in XhciPlaces => Fn(dev)'.class = "xhci"
      BY <1>1, <1>4, <2>1, <2>3 DEF BarInv, Probed
    <2> QED
      BY <2>4, <2>5, <2>6 DEF Probed
  <1>6. AllPlaced' /\ AllApart'
    BY <1>1 DEF BarInv, AllPlaced, AllApart
  <1> QED
    BY <1>3, <1>5, <1>6 DEF BarInv

(* What the scan does to the function it is at: the registers in need of   *)
(* an address get one stride of the pool after the other.                  *)
LEMMA ProbeEffect ==
  ASSUME PlaceInv, BarInv, pcie_probe_device
  PROVE  \E new \in [BarNos -> Nat] :
           /\ bar' = [bar EXCEPT ![dev] = new]
           /\ \A n \in BarNos : PlacedAt(Fn(dev), n, new[n], next_pci_mem_addr')
           /\ \A n \in Memory(Fn(dev)) : Unassigned(Fn(dev).bar[n]) =>
                next_pci_mem_addr <= AddressBits(new[n])
           /\ \A i, j \in Memory(Fn(dev)) :
                i < j /\ Unassigned(Fn(dev).bar[i]) /\ Unassigned(Fn(dev).bar[j]) =>
                  AddressBits(new[i]) + PCI_STRIDE <= AddressBits(new[j])
           /\ next_pci_mem_addr' \in Nat /\ next_pci_mem_addr' % 16 = 0
           /\ next_pci_mem_addr <= next_pci_mem_addr'
           /\ next_pci_mem_addr' <= PCI_POOL + PCI_STRIDE * (Bars * (dev + 1))
  <1> DEFINE f == Fn(dev)
             S == {n \in BarNos : Unassigned(f.bar[n])}
             c(n) == Cardinality({k \in S : k < n})
             N(n) == next_pci_mem_addr + PCI_STRIDE * c(n)
             new == [n \in BarNos |-> IF n \in S THEN Written(f.kind[n], f.bar[n], N(n))
                                      ELSE f.bar[n]]
  <1>1. dev \in DevNos /\ dev \notin bus_master /\ dev \in Nat /\ NextDev = dev
    <2>1. pc = "scan" /\ dev < Devs /\ dev \in 0 .. Devs
      BY DEF pcie_probe_device, PlaceInv
    <2>2. NextDev = dev
      BY <2>1 DEF NextDev, DriverPlaces, XhciPlaces, VirtioPlaces, EarlyPlaces, LatePlaces
    <2>3. dev \in DevNos /\ dev \in Nat
      BY <2>1, PoolConsts DEF DevNos
    <2>4. ~ (dev < dev)
      BY <2>3
    <2> QED
      BY <2>2, <2>3, <2>4 DEF BarInv, Probed
  <1>2. bar[dev] = f.bar
    BY <1>1 DEF BarInv, AllPlaced
  <1>3. f.bar \in [BarNos -> Nat] /\ BarsSound(f)
    BY <1>1, SoundLemma DEF BarInv, BarType, BarsSound
  <1>4. Need(dev) = S
    BY <1>2 DEF Need
  <1>5. \A n : NewAddress(dev, n) = N(n)
    BY <1>4 DEF NewAddress
  <1>6. bar' = [bar EXCEPT ![dev] = new]
    <2>1. bar' = [bar EXCEPT ![dev] = [n \in BarNos |->
                    IF n \in Need(dev) THEN Written(f.kind[n], bar[dev][n], NewAddress(dev, n))
                    ELSE bar[dev][n]]]
      BY DEF pcie_probe_device
    <2> HIDE DEF N, S
    <2> QED
      BY <1>2, <1>4, <1>5, <2>1
  <1>7. S \in SUBSET BarNos
    OBVIOUS
  <1>8. /\ Cardinality(S) \in 0 .. Bars
        /\ \A n \in S : c(n) \in Nat /\ c(n) < Cardinality(S)
        /\ \A i, j \in S : i < j => c(i) < c(j)
    <2> HIDE DEF S
    <2> QED
      BY <1>7, NeedLemma
  <1>9. next_pci_mem_addr' = next_pci_mem_addr + PCI_STRIDE * Cardinality(S)
    BY <1>4 DEF pcie_probe_device
  <1> HIDE DEF S, c
  <1>10. /\ next_pci_mem_addr \in Nat /\ next_pci_mem_addr % 16 = 0
         /\ PCI_POOL <= next_pci_mem_addr
         /\ next_pci_mem_addr <= PCI_POOL + PCI_STRIDE * (Bars * dev)
    BY <1>1 DEF BarInv, BarType
  <1>11. /\ next_pci_mem_addr' \in Nat /\ next_pci_mem_addr' % 16 = 0
         /\ next_pci_mem_addr <= next_pci_mem_addr'
         /\ next_pci_mem_addr' <= PCI_POOL + PCI_STRIDE * (Bars * (dev + 1))
    <2> DEFINE x == PCI_STRIDE * Cardinality(S)
               y == PCI_STRIDE * (Bars * dev)
               z == PCI_STRIDE * (Bars * (dev + 1))
    <2>1. Cardinality(S) \in Nat
      BY <1>8, PoolConsts
    <2>2. x \in Nat /\ x % 16 = 0
      BY <2>1, StrideLemma
    <2>3. y \in Nat /\ y + x <= z
      BY <1>1, <1>8, PoolBound
    <2>4. z \in Nat
      BY <1>1, PoolBound
    <2>5. next_pci_mem_addr' = next_pci_mem_addr + x /\ next_pci_mem_addr <= PCI_POOL + y
      BY <1>9, <1>10
    <2> HIDE DEF x, y, z
    <2>6. next_pci_mem_addr' \in Nat /\ next_pci_mem_addr <= next_pci_mem_addr'
          /\ next_pci_mem_addr' <= PCI_POOL + z
      BY <1>10, <2>2, <2>3, <2>4, <2>5, PoolConsts
    <2>7. next_pci_mem_addr' % 16 = 0
      BY <1>10, <2>2, <2>5
    <2> QED
      BY <2>6, <2>7 DEF z
  <1>12. ASSUME NEW n \in S
         PROVE  /\ N(n) \in Nat /\ N(n) % 16 = 0 /\ next_pci_mem_addr <= N(n)
                /\ N(n) + PCI_STRIDE <= next_pci_mem_addr'
    <2> DEFINE x == PCI_STRIDE * c(n)
               y == PCI_STRIDE * Cardinality(S)
    <2>1. c(n) \in Nat /\ Cardinality(S) \in Nat /\ c(n) < Cardinality(S)
      BY <1>8, PoolConsts
    <2>2. x \in Nat /\ x % 16 = 0 /\ y \in Nat /\ x + PCI_STRIDE <= y
      BY <2>1, StrideLemma
    <2>3. N(n) = next_pci_mem_addr + x /\ next_pci_mem_addr' = next_pci_mem_addr + y
      BY <1>9
    <2> HIDE DEF x, y, N
    <2>4. N(n) \in Nat /\ next_pci_mem_addr <= N(n) /\ N(n) + PCI_STRIDE <= next_pci_mem_addr'
      BY <1>10, <2>2, <2>3, PoolConsts
    <2>5. N(n) % 16 = 0
      BY <1>10, <2>2, <2>3
    <2> QED
      BY <2>4, <2>5
  <1>13. ASSUME NEW i \in S, NEW j \in S, i < j
         PROVE  N(i) + PCI_STRIDE <= N(j)
    <2> DEFINE x == PCI_STRIDE * c(i)
               y == PCI_STRIDE * c(j)
    <2>1. c(i) \in Nat /\ c(j) \in Nat /\ c(i) < c(j)
      BY <1>8, <1>13
    <2>2. x \in Nat /\ y \in Nat /\ x + PCI_STRIDE <= y
      BY <2>1, StrideLemma
    <2>3. N(i) = next_pci_mem_addr + x /\ N(j) = next_pci_mem_addr + y
      OBVIOUS
    <2> HIDE DEF x, y, N
    <2> QED
      BY <1>10, <2>2, <2>3, PoolConsts
  <1> HIDE DEF N
  <1>14. \A n \in BarNos : f.bar[n] \in Nat
    BY <1>3
  <1>15. ASSUME NEW n \in S
         PROVE  /\ new[n] \in Nat
                /\ f.kind[n] # "high" => /\ new[n] % 16 = f.bar[n] % 16
                                         /\ AddressBits(new[n]) = N(n)
    <2>1. new[n] = Written(f.kind[n], f.bar[n], N(n)) /\ n \in BarNos
      BY <1>7
    <2> HIDE DEF new, f
    <2> QED
      BY <1>12, <1>14, <2>1, WrittenLemma
  <1>16. \A n \in BarNos \ S : new[n] = f.bar[n]
    OBVIOUS
  <1>17. new \in [BarNos -> Nat]
    <2>1. \A n \in BarNos : new[n] \in Nat
      BY <1>14, <1>15, <1>16
    <2>2. new = [n \in BarNos |-> new[n]]
      OBVIOUS
    <2> HIDE DEF new
    <2> QED
      BY <2>1, <2>2
  <1>18. \A n \in BarNos : n \in S <=> Unassigned(f.bar[n])
    BY DEF S
  <1>19. \A n \in Memory(f) : n \in BarNos /\ f.kind[n] # "high"
    BY DEF Memory
  <1>20. \A n \in BarNos : f.kind[n] = "high" => n \notin S
    BY <1>3, <1>18 DEF BarsSound
  <1> HIDE DEF new, f
  <1>21. ASSUME NEW n \in BarNos
         PROVE  PlacedAt(f, n, new[n], next_pci_mem_addr')
    <2>1. CASE n \in Memory(f) /\ n \in S
      <3>1. new[n] % 16 = f.bar[n] % 16 /\ AddressBits(new[n]) = N(n)
        BY <1>15, <1>19, <2>1
      <3>2. PCI_POOL <= N(n) /\ N(n) + PCI_STRIDE <= next_pci_mem_addr'
        BY <1>10, <1>12, <2>1, PoolConsts
      <3> QED
        BY <1>18, <2>1, <3>1, <3>2 DEF PlacedAt
    <2>2. CASE ~(n \in Memory(f) /\ n \in S)
      BY <1>16, <1>18, <1>20, <2>2 DEF PlacedAt
    <2> QED
      BY <2>1, <2>2
  <1>22. \A n \in Memory(f) : Unassigned(f.bar[n]) => next_pci_mem_addr <= AddressBits(new[n])
    BY <1>12, <1>15, <1>18, <1>19
  <1>23. ASSUME NEW i \in Memory(f), NEW j \in Memory(f), i < j,
                Unassigned(f.bar[i]), Unassigned(f.bar[j])
         PROVE  AddressBits(new[i]) + PCI_STRIDE <= AddressBits(new[j])
    <2>1. i \in S /\ j \in S
      BY <1>18, <1>19, <1>23
    <2> QED
      BY <1>13, <1>15, <1>19, <1>23, <2>1
  <1> QED
    BY <1>6, <1>11, <1>17, <1>21, <1>22, <1>23 DEF f

(* The registers of the function just probed are apart from all others.    *)
LEMMA ProbedApart ==
  ASSUME BarInv, PoolEnd \in Nat, NEW limit \in Nat, limit <= PoolEnd,
         next_pci_mem_addr <= limit,
         dev \in DevNos, dev \notin bus_master, NEW new \in [BarNos -> Nat],
         \A n \in BarNos : PlacedAt(Fn(dev), n, new[n], limit),
         \A n \in Memory(Fn(dev)) :
           Unassigned(Fn(dev).bar[n]) => next_pci_mem_addr <= AddressBits(new[n]),
         NEW i \in Memory(Fn(dev)), NEW e \in bus_master, NEW j \in Memory(Fn(e))
  PROVE  ApartAt(Fn(dev), i, new[i], Fn(e), j, bar[e][j])
  <1> DEFINE f == Fn(dev)
             g == Fn(e)
             v == new[i]
             w == bar[e][j]
             nx == next_pci_mem_addr
  <1>1. e \in DevNos /\ <<dev, i>> # <<e, j>> /\ i \in BarNos /\ j \in BarNos
    BY DEF BarInv, Probed, Memory
  <1>2. BarsSound(f) /\ BarsSound(g)
    BY <1>1, SoundLemma DEF BarInv, BarType
  <1>3. v \in Nat /\ w \in Nat /\ nx \in Nat /\ PCI_POOL <= nx /\ nx <= limit
    BY <1>1 DEF BarInv, BarType
  <1>4. AddressBits(v) \in Nat /\ AddressBits(w) \in Nat
    BY <1>3, RegisterLemma
  <1>5. PlacedAt(f, i, v, limit) /\ PlacedAt(g, j, w, nx)
    BY <1>1 DEF BarInv, AllPlaced
  <1>6. Unassigned(f.bar[i]) => nx <= AddressBits(v)
    OBVIOUS
  <1>7. i \in Memory(f) /\ j \in Memory(g)
    OBVIOUS
  <1>8. SUFFICES ASSUME AddressBits(v) # 0, AddressBits(w) # 0
                 PROVE  Apart(AddressBits(v), UpperHalf(f, i), AddressBits(w), UpperHalf(g, j))
    BY DEF ApartAt
  <1>9. i \in Given(f) /\ j \in Given(g) /\ v = f.bar[i] /\ w = g.bar[j] =>
          Apart(AddressBits(v), UpperHalf(f, i), AddressBits(w), UpperHalf(g, j))
    BY <1>1, GivenApart DEF BarInv, BarType
  <1> HIDE DEF f, g, v, w, nx
  <1>10. i \in Given(f) => AddressBits(f.bar[i]) + PCI_STRIDE <= PCI_POOL
                            \/ PoolEnd <= AddressBits(f.bar[i])
    BY <1>2, GivenOutside
  <1>11. j \in Given(g) => AddressBits(g.bar[j]) + PCI_STRIDE <= PCI_POOL
                            \/ PoolEnd <= AddressBits(g.bar[j])
    BY <1>2, GivenOutside
  <1>12. \/ i \in Given(f) /\ v = f.bar[i]
         \/ nx <= AddressBits(v) /\ AddressBits(v) + PCI_STRIDE <= limit
    BY <1>5, <1>6, <1>7, <1>8 DEF PlacedAt, Given
  <1>13. \/ j \in Given(g) /\ w = g.bar[j]
         \/ PCI_POOL <= AddressBits(w) /\ AddressBits(w) + PCI_STRIDE <= nx
    BY <1>5, <1>7, <1>8 DEF PlacedAt, Given
  <1>14. CASE i \in Given(f) /\ v = f.bar[i] /\ j \in Given(g) /\ w = g.bar[j]
    BY <1>9, <1>14
  <1>15. CASE /\ i \in Given(f) /\ v = f.bar[i]
              /\ PCI_POOL <= AddressBits(w) /\ AddressBits(w) + PCI_STRIDE <= nx
    <2>1. AddressBits(v) + PCI_STRIDE <= AddressBits(w)
          \/ AddressBits(w) + PCI_STRIDE <= AddressBits(v)
      BY <1>3, <1>4, <1>10, <1>15, PoolConsts
    <2> QED
      BY <2>1 DEF Apart
  <1>16. CASE /\ nx <= AddressBits(v) /\ AddressBits(v) + PCI_STRIDE <= limit
              /\ j \in Given(g) /\ w = g.bar[j]
    <2>1. AddressBits(v) + PCI_STRIDE <= AddressBits(w)
          \/ AddressBits(w) + PCI_STRIDE <= AddressBits(v)
      BY <1>3, <1>4, <1>11, <1>16, PoolConsts
    <2> QED
      BY <2>1 DEF Apart
  <1>17. CASE nx <= AddressBits(v) /\ AddressBits(w) + PCI_STRIDE <= nx
    <2>1. AddressBits(w) + PCI_STRIDE <= AddressBits(v)
      BY <1>3, <1>4, <1>17, PoolConsts
    <2> QED
      BY <2>1 DEF Apart
  <1> QED
    BY <1>12, <1>13, <1>14, <1>15, <1>16, <1>17

(* And from each other                                                     *)
LEMMA OwnApart ==
  ASSUME machine \in Machines, NEW limit \in Nat, limit <= PoolEnd,
         dev \in DevNos, NEW new \in [BarNos -> Nat],
         \A n \in BarNos : PlacedAt(Fn(dev), n, new[n], limit),
         \A k, l \in Memory(Fn(dev)) :
           k < l /\ Unassigned(Fn(dev).bar[k]) /\ Unassigned(Fn(dev).bar[l]) =>
             AddressBits(new[k]) + PCI_STRIDE <= AddressBits(new[l]),
         NEW i \in Memory(Fn(dev)), NEW j \in Memory(Fn(dev)), i # j
  PROVE  ApartAt(Fn(dev), i, new[i], Fn(dev), j, new[j])
  <1> DEFINE f == Fn(dev)
             v == new[i]
             w == new[j]
  <1>1. i \in BarNos /\ j \in BarNos /\ i \in Int /\ j \in Int
    BY DEF Memory, BarNos
  <1>2. BarsSound(f)
    BY SoundLemma
  <1>3. v \in Nat /\ w \in Nat
    BY <1>1
  <1>4. AddressBits(v) \in Nat /\ AddressBits(w) \in Nat
    BY <1>3, RegisterLemma
  <1>5. PlacedAt(f, i, v, limit) /\ PlacedAt(f, j, w, limit)
    BY <1>1
  <1>6. Unassigned(f.bar[i]) /\ Unassigned(f.bar[j]) =>
          AddressBits(v) + PCI_STRIDE <= AddressBits(w)
          \/ AddressBits(w) + PCI_STRIDE <= AddressBits(v)
    BY <1>1
  <1>7. i \in Memory(f) /\ j \in Memory(f)
    OBVIOUS
  <1>8. SUFFICES ASSUME AddressBits(v) # 0, AddressBits(w) # 0
                 PROVE  Apart(AddressBits(v), UpperHalf(f, i), AddressBits(w), UpperHalf(f, j))
    BY DEF ApartAt
  <1>9. i \in Given(f) /\ j \in Given(f) /\ v = f.bar[i] /\ w = f.bar[j] =>
          Apart(AddressBits(v), UpperHalf(f, i), AddressBits(w), UpperHalf(f, j))
    <2>1. <<dev, i>> # <<dev, j>>
      OBVIOUS
    <2> QED
      BY <2>1, GivenApart
  <1> HIDE DEF f, v, w
  <1>10. \A k \in Given(f) : AddressBits(f.bar[k]) + PCI_STRIDE <= PCI_POOL
                              \/ PoolEnd <= AddressBits(f.bar[k])
    BY <1>2, GivenOutside
  <1>11. \/ i \in Given(f) /\ v = f.bar[i]
         \/ /\ PCI_POOL <= AddressBits(v) /\ AddressBits(v) + PCI_STRIDE <= limit
            /\ Unassigned(f.bar[i])
    BY <1>5, <1>7, <1>8 DEF PlacedAt, Given
  <1>12. \/ j \in Given(f) /\ w = f.bar[j]
         \/ /\ PCI_POOL <= AddressBits(w) /\ AddressBits(w) + PCI_STRIDE <= limit
            /\ Unassigned(f.bar[j])
    BY <1>5, <1>7, <1>8 DEF PlacedAt, Given
  <1>13. CASE i \in Given(f) /\ v = f.bar[i] /\ j \in Given(f) /\ w = f.bar[j]
    BY <1>9, <1>13
  <1>14. CASE ~(i \in Given(f) /\ v = f.bar[i] /\ j \in Given(f) /\ w = f.bar[j])
    <2>1. AddressBits(v) + PCI_STRIDE <= AddressBits(w)
          \/ AddressBits(w) + PCI_STRIDE <= AddressBits(v)
      BY <1>4, <1>6, <1>10, <1>11, <1>12, <1>14, PoolConsts
    <2> QED
      BY <2>1 DEF Apart
  <1> QED
    BY <1>13, <1>14

LEMMA BarsProbe ==
  ASSUME PlaceInv, BarInv, Moves, pcie_probe_device
  PROVE  BarInv'
  <1>1. machine' = machine /\ \A d : Fn(d)' = Fn(d)
    BY MachineLemma
  <1>2. PICK new \in [BarNos -> Nat] :
           /\ bar' = [bar EXCEPT ![dev] = new]
           /\ \A n \in BarNos : PlacedAt(Fn(dev), n, new[n], next_pci_mem_addr')
           /\ \A n \in Memory(Fn(dev)) : Unassigned(Fn(dev).bar[n]) =>
                next_pci_mem_addr <= AddressBits(new[n])
           /\ \A i, j \in Memory(Fn(dev)) :
                i < j /\ Unassigned(Fn(dev).bar[i]) /\ Unassigned(Fn(dev).bar[j]) =>
                  AddressBits(new[i]) + PCI_STRIDE <= AddressBits(new[j])
           /\ next_pci_mem_addr' \in Nat /\ next_pci_mem_addr' % 16 = 0
           /\ next_pci_mem_addr <= next_pci_mem_addr'
           /\ next_pci_mem_addr' <= PCI_POOL + PCI_STRIDE * (Bars * (dev + 1))
    BY ProbeEffect
  <1> DEFINE nx == next_pci_mem_addr'
  <1>3. /\ pc = "scan" /\ dev \in DevNos /\ dev \in Nat /\ dev + 1 <= Devs
        /\ bus_master' = bus_master \cup {dev}
        /\ Matches(Fn(dev)) # {}
    BY PoolConsts DEF pcie_probe_device, PlaceInv, DevNos
  <1>4. NextDev = dev /\ dev \notin bus_master
    <2>1. NextDev = dev
      BY <1>3 DEF NextDev, DriverPlaces, XhciPlaces, VirtioPlaces, EarlyPlaces, LatePlaces
    <2>2. ~ (dev < dev)
      BY <1>3
    <2> QED
      BY <2>1, <2>2 DEF BarInv, Probed
  <1> DEFINE init == driver_registry[Min(Matches(Fn(dev)))].init
  <1>5. /\ init \in {"virtio", "xhci", "none"}
        /\ init = "xhci" => Fn(dev).class = "xhci"
    BY <1>3, BroughtLemma
  <1>6. IF init = "none" THEN Return ELSE GoTo(init)
    BY DEF pcie_probe_device
  <1> HIDE DEF init
  <1>7. /\ pc' \in DriverPlaces => dev' = dev
        /\ pc' \in XhciPlaces => Fn(dev).class = "xhci"
        /\ NextDev' = dev + 1
    <2>1. /\ init = "none" => pc' = "scan" /\ dev' = dev + 1
          /\ init # "none" => pc' = init /\ dev' = dev
      BY <1>6 DEF Return, GoTo
    <2>2. /\ "scan" \notin DriverPlaces /\ "scan" \notin XhciPlaces
          /\ "virtio" \in DriverPlaces /\ "xhci" \in DriverPlaces
          /\ "virtio" \notin XhciPlaces
      BY DEF DriverPlaces, XhciPlaces, VirtioPlaces, EarlyPlaces, LatePlaces
    <2>3. NextDev' = IF pc' \in DriverPlaces THEN dev' + 1 ELSE dev'
      BY DEF NextDev, DriverPlaces, XhciPlaces, VirtioPlaces, EarlyPlaces, LatePlaces
    <2>4. CASE init = "none"
      BY <2>1, <2>2, <2>3, <2>4
    <2>5. CASE init # "none"
      BY <1>5, <2>1, <2>2, <2>3, <2>5
    <2> QED
      BY <2>4, <2>5
  <1>8. /\ nx \in Nat /\ next_pci_mem_addr \in Nat /\ PCI_POOL <= nx
        /\ nx <= PoolEnd /\ PoolEnd \in Nat
    <2>1. PCI_STRIDE * (Bars * (dev + 1)) <= PCI_STRIDE * (Bars * Devs)
          /\ PCI_STRIDE * (Bars * (dev + 1)) \in Nat /\ PCI_STRIDE * (Bars * Devs) \in Nat
      BY <1>3, PoolConsts, PoolBound
    <2>2. next_pci_mem_addr \in Nat /\ PCI_POOL <= next_pci_mem_addr
      BY DEF BarInv, BarType
    <2> QED
      BY <1>2, <2>1, <2>2, PoolConsts DEF PoolEnd
  <1>9. bar' \in [DevNos -> [BarNos -> Nat]]
    BY <1>2 DEF BarInv, BarType
  <1>10. BarType'
    BY <1>1, <1>2, <1>7, <1>8, <1>9 DEF BarInv, BarType
  <1>11. Probed'
    <2>1. \A d \in DevNos : d < dev => d < dev + 1
      BY <1>3, PoolConsts DEF DevNos
    <2>2. dev < dev + 1
      BY <1>3
    <2>3. bus_master' \subseteq {d \in DevNos : d < NextDev'}
      BY <1>3, <1>4, <1>7, <2>1, <2>2 DEF BarInv, Probed
    <2>4. pc' \in DriverPlaces => dev' \in bus_master'
      BY <1>3, <1>7
    <2>5. pc' \in XhciPlaces => Functions[machine'[dev']].class = "xhci"
      <3>1. XhciPlaces \subseteq DriverPlaces
        BY DEF DriverPlaces
      <3> QED
        BY <1>1, <1>7, <3>1 DEF Fn
    <2> QED
      BY <2>3, <2>4, <2>5 DEF Probed, Fn
  <1>12. /\ bar'[dev] = new
         /\ \A d \in DevNos \ {dev} : bar'[d] = bar[d]
    BY <1>2, <1>3 DEF BarInv, BarType
  <1>13. bus_master \subseteq DevNos \ {dev}
    BY <1>4 DEF BarInv, Probed
  <1>14. AllPlaced'
    <2>1. ASSUME NEW d \in DevNos \ bus_master'
          PROVE  bar'[d] = Fn(d).bar
      BY <1>3, <1>12 DEF BarInv, AllPlaced
    <2>2. ASSUME NEW d \in bus_master', NEW n \in BarNos
          PROVE  PlacedAt(Fn(d), n, bar'[d][n], nx)
      <3>1. CASE d = dev
        BY <1>2, <1>12, <3>1
      <3>2. CASE d # dev
        <4>1. d \in bus_master /\ bar'[d] = bar[d] /\ bar[d][n] \in Nat
          BY <1>3, <1>12, <1>13, <3>2 DEF BarInv, BarType
        <4>2. PlacedAt(Fn(d), n, bar[d][n], next_pci_mem_addr)
          BY <4>1 DEF BarInv, AllPlaced
        <4>3. PlacedAt(Fn(d), n, bar[d][n], nx)
          BY <1>2, <1>8, <4>1, <4>2, LimitGrows
        <4> QED
          BY <4>1, <4>3
      <3> QED
        BY <3>1, <3>2
    <2> QED
      BY <1>1, <2>1, <2>2 DEF AllPlaced
  <1>15. ASSUME NEW i \in Memory(Fn(dev)), NEW e \in bus_master, NEW j \in Memory(Fn(e))
         PROVE  ApartAt(Fn(dev), i, new[i], Fn(e), j, bar[e][j])
    BY <1>2, <1>3, <1>4, <1>8, ProbedApart
  <1>16. ASSUME NEW i \in Memory(Fn(dev)), NEW j \in Memory(Fn(dev)), i # j
         PROVE  ApartAt(Fn(dev), i, new[i], Fn(dev), j, new[j])
    <2>1. machine \in Machines
      BY DEF BarInv, BarType
    <2> QED
      BY <1>2, <1>3, <1>8, <1>16, <2>1, OwnApart
  <1>17. AllApart'
    <2>1. ASSUME NEW d \in bus_master', NEW e \in bus_master',
                 NEW i \in Memory(Fn(d)), NEW j \in Memory(Fn(e)), <<d, i>> # <<e, j>>
          PROVE  ApartAt(Fn(d), i, bar'[d][i], Fn(e), j, bar'[e][j])
      <3>1. CASE d = dev /\ e = dev
        BY <1>12, <1>16, <2>1, <3>1
      <3>2. CASE d = dev /\ e # dev
        BY <1>3, <1>12, <1>13, <1>15, <3>2
      <3>3. CASE d # dev /\ e = dev
        <4>1. ApartAt(Fn(dev), j, new[j], Fn(d), i, bar[d][i])
          BY <1>3, <1>15, <3>3
        <4>2. ApartAt(Fn(d), i, bar[d][i], Fn(dev), j, new[j])
          BY <4>1, ApartSymmetric
        <4> QED
          BY <1>3, <1>12, <1>13, <3>3, <4>2
      <3>4. CASE d # dev /\ e # dev
        BY <1>3, <1>12, <1>13, <2>1, <3>4 DEF BarInv, AllApart
      <3> QED
        BY <3>1, <3>2, <3>3, <3>4
    <2> QED
      BY <1>1, <2>1 DEF AllApart
  <1> QED
    BY <1>10, <1>11, <1>14, <1>17 DEF BarInv

LEMMA BarsStep ==
  ASSUME PlaceInv, BarInv, [BootNext]_boot_vars
  PROVE  BarInv'
  BY EveryMove, BarsMove, BarsKept, BarsProbe

-----------------------------------------------------------------------------
(* BankInv: what was asked for was mapped, and is in a window of its BAR.  *)
BankInv ==
  \A a \in asked :
    /\ a.dev \in bus_master /\ a.bar \in Memory(Fn(a.dev))
    /\ AddressBits(bar[a.dev][a.bar]) # 0
    /\ a.offset \in Nat /\ a.size \in Nat \ {0} /\ a.offset + a.size <= PCI_STRIDE
    /\ [virt |-> a.virt, phys |-> Base(a.dev, a.bar) + a.offset, size |-> a.size] \in mapped

(* The walk of the capabilities stays in the list. *)
CapInv == pc = "caps" => cap_ptr \in DOMAIN Fn(dev).cap \cup {0}

(* A driver is given a bank of a memory BAR that has an address. *)
Asks(n, offset, size) ==
  /\ Mapping(n, offset, size)
  /\ dev \in bus_master /\ n \in Memory(Fn(dev)) /\ AddressBits(bar[dev][n]) # 0
  /\ offset \in Nat /\ size \in Nat /\ offset + size <= PCI_STRIDE

(* The address of a probed BAR: the drivers read the register as the       *)
(* hardware does.                                                          *)
LEMMA BaseLemma ==
  ASSUME PlaceInv, BarInv, NEW d \in bus_master, NEW n \in Memory(Fn(d))
  PROVE  /\ AddressBits(bar[d][n]) \in Nat /\ UpperHalf(Fn(d), n) \in Nat
         /\ Base(d, n) = AddressBits(bar[d][n]) + DWORD * UpperHalf(Fn(d), n)
         /\ Base(d, n) \in Nat
         /\ BarPhys(d, n) = Base(d, n)
         /\ AddressBits(bar[d][n]) = 0 => BarPhys(d, n) = 0
         /\ AddressBits(bar[d][n]) # 0 => AddressBits(bar[d][n]) + PCI_STRIDE <= DWORD
  <1> DEFINE f == Fn(d)
             v == bar[d][n]
             low == AddressBits(v)
             wide == f.kind[n] = "mem64"
  <1>1. d \in DevNos /\ n \in BarNos /\ n \in Memory(f)
    BY DEF BarInv, Probed, Memory
  <1>2. BarsSound(f)
    BY <1>1, SoundLemma DEF BarInv, BarType
  <1>3. v \in Nat /\ f.bar \in [BarNos -> Nat] /\ f.bar[n] \in Nat
    BY <1>1, <1>2 DEF BarInv, BarType, BarsSound
  <1>4. \A m \in BarNos : PlacedAt(f, m, bar[d][m], next_pci_mem_addr)
    BY DEF BarInv, AllPlaced
  <1>5. wide => n + 1 \in BarNos /\ bar[d][n + 1] = f.bar[n + 1] /\ f.bar[n + 1] \in Nat
    <2> SUFFICES ASSUME wide
                 PROVE  n + 1 \in BarNos /\ bar[d][n + 1] = f.bar[n + 1] /\ f.bar[n + 1] \in Nat
      OBVIOUS
    <2>1. n + 1 \in BarNos /\ f.kind[n + 1] = "high"
      BY <1>1, <1>2 DEF BarsSound
    <2>2. n + 1 \notin Memory(f)
      BY <2>1 DEF Memory
    <2> HIDE DEF f
    <2> QED
      BY <1>3, <1>4, <2>1, <2>2 DEF PlacedAt
  <1>6. v % 16 = f.bar[n] % 16
    <2>1. PlacedAt(f, n, v, next_pci_mem_addr)
      BY <1>1, <1>4
    <2> HIDE DEF f, v
    <2> QED
      BY <1>1, <2>1 DEF PlacedAt
  <1>7. wide <=> (v % 8) \div 2 = 2
    <2>1. wide <=> (f.bar[n] % 8) \div 2 = 2
      BY <1>1, <1>2 DEF BarsSound
    <2>2. (v % 8) \div 2 = (f.bar[n] % 8) \div 2
      <3> HIDE DEF f, v
      <3> QED
        BY <1>3, <1>6, RegisterLemma
    <2> QED
      BY <2>1, <2>2
  <1>8. low \in Nat /\ low = v - (v % 16)
    <2> HIDE DEF v
    <2> QED
      BY <1>3, RegisterLemma DEF AddressBits
  <1>9. UpperHalf(f, n) \in Nat /\ (wide => UpperHalf(f, n) = bar[d][n + 1])
        /\ (~wide => UpperHalf(f, n) = 0)
    BY <1>5 DEF UpperHalf
  <1>10. DWORD * UpperHalf(f, n) \in Nat /\ (~wide => DWORD * UpperHalf(f, n) = 0)
    <2>1. DWORD * UpperHalf(f, n) \in Nat
      BY <1>9, PoolConsts, MulLemma
    <2>2. DWORD * 0 = 0
      BY PoolConsts
    <2> QED
      BY <1>9, <2>1, <2>2
  <1>11. low = 0 => ~wide
    <2> SUFFICES ASSUME low = 0 PROVE ~wide
      OBVIOUS
    <2>1. PlacedAt(f, n, v, next_pci_mem_addr)
      BY <1>1, <1>4
    <2>2. AddressBits(v) = 0 /\ PCI_POOL > 0
      BY PoolConsts
    <2> HIDE DEF f, v, low
    <2>3. ~Unassigned(f.bar[n])
      BY <1>1, <2>1, <2>2, PoolConsts DEF PlacedAt
    <2>4. v = f.bar[n]
      BY <1>1, <2>1, <2>3 DEF PlacedAt
    <2>5. v = 0
      BY <1>3, <2>2, <2>3, <2>4, RegisterLemma
    <2>6. ~ ((0 % 8) \div 2 = 2)
      OBVIOUS
    <2> QED
      BY <1>7, <2>5, <2>6
  <1>12. low # 0 => low + PCI_STRIDE <= DWORD
    <2> SUFFICES ASSUME low # 0 PROVE low + PCI_STRIDE <= DWORD
      OBVIOUS
    <2>1. PlacedAt(f, n, v, next_pci_mem_addr)
      BY <1>1, <1>4
    <2>2. next_pci_mem_addr <= PoolEnd /\ next_pci_mem_addr \in Nat
      <3>1. NextDev \in Nat /\ NextDev <= Devs
        BY PoolConsts DEF PlaceInv, DevNos, NextDev
      <3>2. PCI_STRIDE * (Bars * NextDev) <= PCI_STRIDE * (Bars * Devs)
            /\ PCI_STRIDE * (Bars * NextDev) \in Nat /\ PCI_STRIDE * (Bars * Devs) \in Nat
        BY <3>1, PoolConsts, PoolBound
      <3> QED
        BY <3>2, PoolConsts DEF BarInv, BarType, PoolEnd
    <2>3. AddressBits(v) # 0 /\ AddressBits(v) \in Nat
      BY <1>8
    <2>4. n \in Given(f) => AddressBits(f.bar[n]) + PCI_STRIDE <= PCI_POOL
                             \/ AddressBits(f.bar[n]) + PCI_STRIDE <= DWORD
      BY <1>2 DEF BarsSound
    <2> HIDE DEF f, v, low
    <2>5. \/ n \in Given(f) /\ v = f.bar[n]
          \/ AddressBits(v) + PCI_STRIDE <= next_pci_mem_addr
      BY <1>1, <2>1, <2>3 DEF PlacedAt, Given
    <2>6. PCI_POOL <= next_pci_mem_addr
      BY DEF BarInv, BarType
    <2> QED
      BY <2>2, <2>3, <2>4, <2>5, <2>6, PoolConsts DEF low
  <1> QED
    BY <1>7, <1>8, <1>9, <1>10, <1>11, <1>12 DEF Base, BarPhys

(* What the drivers ask for, and that nothing else is mapped               *)
LEMMA DriversAsk ==
  ASSUME PlaceInv, BarInv, CapInv, [BootNext]_boot_vars
  PROVE  (\E n, offset, size : Asks(n, offset, size)) \/ UNCHANGED ioremap_vars
  <1>1. CASE MapCapability
    <2>1. dev \in bus_master /\ dev \in DevNos /\ Fn(dev).vendor = "1AF4"
      <3>1. dev \in VirtioDevs /\ dev \in bus_master
        BY <1>1 DEF MapCapability, At, PlaceInv, VirtioPlaces, EarlyPlaces
      <3>2. dev \in DevNos /\ Matches(Fn(dev)) # {} /\ Brought(dev) = "virtio"
        BY <3>1 DEF VirtioDevs
      <3> QED
        BY <3>1, <3>2, BroughtLemma DEF Brought
    <2>2. BanksSound(Fn(dev))
      BY <2>1, SoundLemma DEF BarInv, BarType
    <2>3. cap_ptr \in DOMAIN Fn(dev).cap /\ Cap.id = "vendor" /\ BarPhys(dev, Cap.bar) # 0
          /\ Cap = Fn(dev).cap[cap_ptr] /\ Mapping(Cap.bar, Cap.offset, Cap.length)
      BY <1>1 DEF MapCapability, At, CapInv, Cap
    <2>4. /\ Cap.bar \in Memory(Fn(dev)) /\ Cap.offset \in Nat /\ Cap.length \in Nat
          /\ Cap.offset + Cap.length <= PCI_STRIDE
      BY <2>1, <2>2, <2>3 DEF BanksSound
    <2>5. AddressBits(bar[dev][Cap.bar]) # 0
      BY <2>1, <2>3, <2>4, BaseLemma
    <2> QED
      BY <2>1, <2>3, <2>4, <2>5 DEF Asks
  <1>2. CASE xhci_init
    <2>1. dev \in bus_master /\ dev \in DevNos /\ Fn(dev).class = "xhci"
      BY <1>2 DEF xhci_init, At, BarInv, Probed, XhciPlaces, DriverPlaces
    <2>2. BanksSound(Fn(dev)) /\ BarsSound(Fn(dev))
      BY <2>1, SoundLemma DEF BarInv, BarType
    <2>3. 0 \in Memory(Fn(dev)) /\ Fn(dev).bar[0] # 0 /\ XHCI_BANK <= PCI_STRIDE
      BY <2>1, <2>2 DEF BanksSound
    <2>4. AddressBits(bar[dev][0]) # 0
      <3> DEFINE f == Fn(dev)
                 v == bar[dev][0]
      <3>1. 0 \in BarNos /\ 0 \in Memory(f) /\ f.bar[0] # 0 /\ f.bar[0] \in Nat
        BY <2>2, <2>3 DEF BarsSound, Memory
      <3>2. PlacedAt(f, 0, v, next_pci_mem_addr)
        BY <2>1, <3>1 DEF BarInv, AllPlaced
      <3> HIDE DEF f, v
      <3>3. Unassigned(f.bar[0]) => AddressBits(v) >= PCI_POOL
        BY <3>1, <3>2, PoolConsts DEF PlacedAt
      <3>4. ~Unassigned(f.bar[0]) => v = f.bar[0]
        BY <3>1, <3>2 DEF PlacedAt
      <3>5. ~Unassigned(f.bar[0]) => AddressBits(f.bar[0]) # 0
        BY <3>1 DEF Unassigned, AddressBits
      <3>6. AddressBits(v) # 0
        BY <3>3, <3>4, <3>5, PoolConsts
      <3> QED
        BY <3>6 DEF v
    <2>5. Mapping(0, 0, XHCI_BANK) \/ MappingRefused(0, 0, XHCI_BANK)
      BY <1>2 DEF xhci_init
    <2>6. CASE Mapping(0, 0, XHCI_BANK)
      <3>1. 0 \in Nat /\ XHCI_BANK \in Nat /\ 0 + XHCI_BANK <= PCI_STRIDE
        BY <2>3, XhciAssumption
      <3> QED
        BY <2>1, <2>3, <2>4, <2>6, <3>1 DEF Asks
    <2>7. CASE MappingRefused(0, 0, XHCI_BANK)
      BY <2>7 DEF MappingRefused, IoremapFails, vars, ioremap_vars
    <2> QED
      BY <2>5, <2>6, <2>7
  <1>3. CASE SkipCapability
    BY <1>3 DEF SkipCapability, NoMapping, MappingRefused, IoremapFails, vars, ioremap_vars
  <1>4. CASE VirtioStep /\ ~MapCapability /\ ~SkipCapability
    BY <1>4 DEF VirtioStep, virtio_pci_init, VdevFails, CapsDone,
         WriteReset, ResetSpin, ResetSeen, Negotiate, DriverOk, SelectQueue, virtqueue_init,
         BindQueue, EnableQueue, Prefill, virtqueue_notify, HandshakeStep, NoMapping
  <1>5. CASE XhciStep /\ ~xhci_init
    BY <1>5 DEF XhciStep, NextExtended, NothingToClaim, RequestOwnership, Poll,
         ReportOwnership, StopAndReset, ReportReset, NoMapping
  <1>6. CASE PcieStep
    BY <1>6 DEF PcieStep, EmptySlot, NoDriver, pcie_probe_device, ScanDone, ProbeStep, NoMapping
  <1>7. CASE IrqStep
    BY <1>7 DEF IrqStep, NextRedistributor, WakeRedistributor, EnableTimerInterrupt, timer_init,
         enable_interrupts, MainLoop, TakeIrq, Acknowledge, handle_timer_irq, EndOfInterrupt,
         kernel_exit, HandlerStep, Main, NoMapping
  <1>8. CASE VirtioResets \/ (\E w \in Waits : XhciClears(w)) \/ RedistributorWakes \/ Expires
    BY <1>8 DEF VirtioResets, XhciClears, RedistributorWakes, Expires, DeviceResets, Clears,
         ChildrenWake, TimerExpires, HandlerStep, NoMapping
  <1>9. CASE UNCHANGED boot_vars
    BY <1>9 DEF boot_vars
  <1> QED
    BY <1>1, <1>2, <1>3, <1>4, <1>5, <1>6, <1>7, <1>8, <1>9 DEF BootNext, Kernel

LEMMA CapStep ==
  ASSUME PlaceInv, BarInv, CapInv, [BootNext]_boot_vars
  PROVE  CapInv'
  <1>1. machine' = machine
    BY EveryMove, MachineLemma
  <1> SUFFICES ASSUME pc' = "caps"
               PROVE  cap_ptr' \in DOMAIN Functions[machine'[dev']].cap \cup {0}
    BY DEF CapInv, Fn
  <1>2. \/ pc = "caps" /\ dev' = dev /\ cap_ptr' = cap_ptr
        \/ virtio_pci_init \/ MapCapability \/ SkipCapability
    <2>1. CASE PcieStep
      <3>1. dev \in 0 .. Devs
        BY DEF PlaceInv
      <3>2. Probing
        BY <2>1, <3>1, PcieMoves
      <3> QED
        BY <3>2 DEF Probing
    <2>2. CASE VirtioStep
      BY <2>2 DEF VirtioStep, VdevFails, CapsDone, GoTo, Return,
         WriteReset, ResetSpin, ResetSeen, Negotiate, DriverOk, SelectQueue, virtqueue_init,
         BindQueue, EnableQueue, Prefill, virtqueue_notify
    <2>3. CASE XhciStep
      BY <2>3, XhciMoves DEF Within, XhciPlaces
    <2>4. CASE IrqStep /\ UNCHANGED virtio_vars
      BY <2>4, IrqMoves DEF Finishing, LastPlaces, virtio_vars
    <2>5. CASE VirtioResets \/ (\E w \in Waits : XhciClears(w)) \/ RedistributorWakes \/ Expires
      BY <2>5, DevicesStill DEF VirtioResets, XhciClears, RedistributorWakes, Expires,
         DeviceResets, virtio_vars
    <2>6. CASE UNCHANGED boot_vars
      BY <2>6 DEF boot_vars, virtio_vars
    <2> QED
      BY <2>1, <2>2, <2>3, <2>4, <2>5, <2>6 DEF BootNext, Kernel
  <1>3. CASE pc = "caps" /\ dev' = dev /\ cap_ptr' = cap_ptr
    BY <1>1, <1>3 DEF CapInv, Fn
  <1>4. CASE virtio_pci_init \/ MapCapability \/ SkipCapability
    <2>1. dev' = dev /\ pc \in VirtioPlaces
      BY <1>4 DEF virtio_pci_init, MapCapability, SkipCapability, At, GoTo, VirtioPlaces, EarlyPlaces
    <2>2. dev \in DevNos /\ Fn(dev).vendor = "1AF4"
      <3>1. dev \in VirtioDevs
        BY <2>1 DEF PlaceInv
      <3> QED
        BY <3>1, BroughtLemma DEF VirtioDevs, Brought
    <2>3. BanksSound(Fn(dev))
      BY <2>2, SoundLemma DEF BarInv, BarType
    <2>4. CASE virtio_pci_init
      BY <1>1, <2>1, <2>2, <2>3, <2>4 DEF virtio_pci_init, BanksSound, Fn
    <2>5. CASE MapCapability \/ SkipCapability
      <3>1. cap_ptr \in DOMAIN Fn(dev).cap /\ cap_ptr' = Fn(dev).cap[cap_ptr].next
        BY <2>5 DEF MapCapability, SkipCapability, At, CapInv, Cap
      <3> QED
        BY <1>1, <2>1, <2>2, <2>3, <3>1 DEF BanksSound, Fn
    <2> QED
      BY <1>4, <2>4, <2>5
  <1> QED
    BY <1>2, <1>3, <1>4

-----------------------------------------------------------------------------
(* A bank a driver asks for is one ioremap was proved about. *)
LEMMA AskedBank ==
  ASSUME PlaceInv, BarInv, NEW n, NEW offset, NEW size, Asks(n, offset, size)
  PROVE  /\ Bank(n, offset, size) \in Banks
         /\ Bank(n, offset, size) = [phys |-> Base(dev, n) + offset, size |-> size]
         /\ size > 0
         /\ ioremap(Bank(n, offset, size))
         /\ asked' = asked \cup {[dev |-> dev, bar |-> n, offset |-> offset, size |-> size,
                                   virt |-> vmalloc_ptr + ((Base(dev, n) + offset) % PAGE_SIZE)]}
         /\ mapped' = mapped \cup {[virt |-> vmalloc_ptr + ((Base(dev, n) + offset) % PAGE_SIZE),
                                     phys |-> Base(dev, n) + offset, size |-> size]}
  <1>1. Base(dev, n) \in Nat /\ BarPhys(dev, n) = Base(dev, n)
    BY BaseLemma DEF Asks
  <1>2. offset \in Nat /\ size \in Nat /\ Mapping(n, offset, size)
    BY DEF Asks
  <1>3. Bank(n, offset, size) = [phys |-> Base(dev, n) + offset, size |-> size]
    BY <1>1 DEF Bank
  <1>4. Base(dev, n) + offset \in Nat
    BY <1>1, <1>2
  <1>5. Bank(n, offset, size) \in Banks
    BY <1>2, <1>3, <1>4 DEF Banks
  <1>6. ioremap(Bank(n, offset, size))
    BY <1>2 DEF Mapping
  <1>7. Bank(n, offset, size).phys = Base(dev, n) + offset /\ Bank(n, offset, size).size = size
    BY <1>3
  <1>8. size > 0
    BY <1>6, <1>7 DEF ioremap
  <1>9. VirtOf(n, offset) = vmalloc_ptr + ((Base(dev, n) + offset) % PAGE_SIZE)
    BY <1>1 DEF VirtOf
  <1>10. asked' = asked \cup {[dev |-> dev, bar |-> n, offset |-> offset, size |-> size,
                                virt |-> vmalloc_ptr + ((Base(dev, n) + offset) % PAGE_SIZE)]}
    BY <1>2, <1>9 DEF Mapping
  <1>11. mapped' = mapped \cup {[virt |-> vmalloc_ptr + ((Base(dev, n) + offset) % PAGE_SIZE),
                                  phys |-> Base(dev, n) + offset, size |-> size]}
    BY <1>6, <1>7 DEF ioremap
  <1> QED
    BY <1>3, <1>5, <1>6, <1>8, <1>10, <1>11

(* The boot drives the mapping code as module Ioremap allows.              *)
LEMMA BootMapStep ==
  ASSUME PlaceInv, BarInv, CapInv, TypeOK, MapInv, [BootNext]_boot_vars
  PROVE  TypeOK' /\ MapInv'
  <1>1. CASE UNCHANGED ioremap_vars
    <2>1. [Next]_vars
      BY <1>1 DEF ioremap_vars, vars
    <2> QED
      BY <2>1, MapStep
  <1>2. ASSUME NEW n, NEW offset, NEW size, Asks(n, offset, size)
        PROVE  TypeOK' /\ MapInv'
    <2>1. Bank(n, offset, size) \in Banks /\ ioremap(Bank(n, offset, size))
      BY <1>2, AskedBank
    <2>2. [Next]_vars
      BY <2>1 DEF Next, Banks
    <2> QED
      BY <2>2, MapStep
  <1> QED
    BY <1>1, <1>2, DriversAsk

LEMMA BankStep ==
  ASSUME PlaceInv, BarInv, CapInv, BankInv, [BootNext]_boot_vars
  PROVE  BankInv'
  <1>1. machine' = machine /\ bus_master \subseteq bus_master' /\ \A d : Fn(d)' = Fn(d)
    BY EveryMove, MachineLemma
  <1>2. ASSUME NEW d \in bus_master
        PROVE  bar'[d] = bar[d] /\ \A n : Base(d, n)' = Base(d, n)
    <2>1. bar'[d] = bar[d]
      <3>1. CASE pcie_probe_device
        <4>1. dev # d
          <5>1. NextDev = dev
            BY <3>1 DEF pcie_probe_device, NextDev, DriverPlaces, XhciPlaces, VirtioPlaces,
               EarlyPlaces, LatePlaces
          <5>2. d < dev /\ dev \in Int
            BY <5>1 DEF BarInv, Probed, PlaceInv
          <5> QED
            BY <5>2
        <4>2. d \in DevNos
          BY DEF BarInv, Probed
        <4> QED
          BY <3>1, <4>1, <4>2 DEF pcie_probe_device, BarInv, BarType
      <3>2. CASE UNCHANGED bar
        BY <3>2
      <3> QED
        BY <3>1, <3>2, BarsMove
    <2> QED
      BY <1>1, <2>1 DEF Base
  <1>3. ASSUME NEW a \in asked, mapped \subseteq mapped'
        PROVE  /\ a.dev \in bus_master' /\ a.bar \in Memory(Fn(a.dev))'
               /\ AddressBits(bar'[a.dev][a.bar]) # 0
               /\ a.offset \in Nat /\ a.size \in Nat \ {0} /\ a.offset + a.size <= PCI_STRIDE
               /\ [virt |-> a.virt, phys |-> Base(a.dev, a.bar)' + a.offset, size |-> a.size]
                     \in mapped'
    BY <1>1, <1>2, <1>3 DEF BankInv
  <1>4. CASE UNCHANGED ioremap_vars
    BY <1>3, <1>4 DEF BankInv, ioremap_vars
  <1>5. ASSUME NEW n, NEW offset, NEW size, Asks(n, offset, size)
        PROVE  BankInv'
    <2>1. PICK d, v, base :
            d = dev /\ base = Base(dev, n)
            /\ v = vmalloc_ptr + ((Base(dev, n) + offset) % PAGE_SIZE)
      OBVIOUS
    <2> DEFINE new == [dev |-> d, bar |-> n, offset |-> offset, size |-> size, virt |-> v]
               bank == [virt |-> v, phys |-> base + offset, size |-> size]
    <2>2. asked' = asked \cup {new} /\ mapped' = mapped \cup {bank} /\ size > 0
      BY <1>5, <2>1, AskedBank
    <2>3. /\ d \in bus_master /\ n \in Memory(Fn(d)) /\ AddressBits(bar[d][n]) # 0
          /\ offset \in Nat /\ size \in Nat \ {0} /\ offset + size <= PCI_STRIDE
      BY <1>5, <2>1, <2>2 DEF Asks
    <2>4. bar'[d] = bar[d] /\ Base(d, n)' = base
      <3>1. Base(d, n) = base
        BY <2>1
      <3> QED
        BY <1>2, <2>3, <3>1
    <2>5. /\ new.dev = d /\ new.bar = n /\ new.offset = offset /\ new.size = size /\ new.virt = v
          /\ bank \in mapped' /\ mapped \subseteq mapped'
      BY <2>2
    <2>6. bank = [virt |-> v, phys |-> Base(d, n)' + offset, size |-> size]
      BY <2>4
    <2> HIDE DEF new, bank
    <2>7. ASSUME NEW a \in asked', a = new
          PROVE  /\ a.dev \in bus_master' /\ a.bar \in Memory(Fn(a.dev))'
                 /\ AddressBits(bar'[a.dev][a.bar]) # 0
                 /\ a.offset \in Nat /\ a.size \in Nat \ {0} /\ a.offset + a.size <= PCI_STRIDE
                 /\ [virt |-> a.virt, phys |-> Base(a.dev, a.bar)' + a.offset, size |-> a.size]
                       \in mapped'
      <3>1. /\ a.dev = d /\ a.bar = n /\ a.offset = offset /\ a.size = size /\ a.virt = v
        BY <2>5, <2>7
      <3>2. d \in bus_master' /\ n \in Memory(Fn(d))'
        BY <1>1, <2>3
      <3> QED
        BY <2>3, <2>4, <2>5, <2>6, <3>1, <3>2
    <2> QED
      BY <1>3, <2>2, <2>5, <2>7 DEF BankInv
  <1> QED
    BY <1>4, <1>5, DriversAsk

-----------------------------------------------------------------------------
MappingInv == PlaceInv /\ BarInv /\ CapInv /\ TypeOK /\ MapInv /\ BankInv

LEMMA MappingInvariant == BootSpec => []MappingInv
  <1>1. BootInit => MappingInv
    <2> SUFFICES ASSUME BootInit PROVE MappingInv
      OBVIOUS
    <2>1. Init /\ asked = {} /\ pc = "scan"
      BY DEF BootInit, PcieInit
    <2>2. TypeOK /\ MapInv
      BY <2>1, MapInit
    <2> QED
      BY <2>1, <2>2, PlaceStart, BarsStart DEF MappingInv, BankInv, CapInv
  <1>2. MappingInv /\ [BootNext]_boot_vars => MappingInv'
    <2> SUFFICES ASSUME MappingInv, [BootNext]_boot_vars PROVE MappingInv'
      OBVIOUS
    <2>1. PlaceInv /\ BarInv /\ CapInv /\ TypeOK /\ MapInv /\ BankInv
      BY DEF MappingInv
    <2> QED
      BY <2>1, EveryMove, PlaceStep, BarsStep, CapStep, BootMapStep, BankStep DEF MappingInv
  <1> QED
    BY <1>1, <1>2, PTL DEF BootSpec

(* memory.c:94: in every boot, with the banks the drivers ask for, every   *)
(* byte of each of them translates to its register, whatever is mapped     *)
(* later for the same function or another.                                 *)
THEOREM BootBanksTranslate == BootSpec => []MappedBanksTranslate
  <1>1. MappingInv => MappedBanksTranslate
    BY DEF MappingInv, MapInv
  <1> QED
    BY <1>1, MappingInvariant, PTL

(* memory.c:80: nor do two banks of a boot share a virtual page, of the    *)
(* same function or of different ones.                                     *)
THEOREM BootMappingsApart == BootSpec => []MappingsApart
  <1>1. MappingInv => MappingsApart
    BY DEF MappingInv, MapInv
  <1> QED
    BY <1>1, MappingInvariant, PTL

(* An address in the window of a BAR is in the window of no other one: a   *)
(* multiple of DWORD apart, or apart below it.                             *)
LEMMA WindowLemma ==
  ASSUME NEW l1 \in Nat, NEW h1 \in Nat, NEW l2 \in Nat, NEW h2 \in Nat,
         l1 + PCI_STRIDE <= DWORD, l2 + PCI_STRIDE <= DWORD, Apart(l1, h1, l2, h2),
         NEW x \in 0 .. (PCI_STRIDE - 1), NEW y \in 0 .. (PCI_STRIDE - 1)
  PROVE  l1 + DWORD * h1 + x # l2 + DWORD * h2 + y
  <1> DEFINE d == h2 - h1
             p == DWORD * d
             q == DWORD * h1
             r == DWORD * h2
  <1>1. r = q + p /\ q \in Int /\ p \in Int /\ d \in Int
    BY PoolConsts, SMT
  <1>2. (d >= 1 => p >= DWORD) /\ (d <= -1 => p <= -DWORD) /\ (d = 0 => p = 0)
    <2>1. d \in Int
      OBVIOUS
    <2>2. d = 0 => p = 0
      BY PoolConsts
    <2> HIDE DEF d
    <2> QED
      BY <2>1, <2>2, PoolConsts, MulLemma
  <1>3. d = 0 \/ d >= 1 \/ d <= -1
    OBVIOUS
  <1>4. d = 0 => l1 + PCI_STRIDE <= l2 \/ l2 + PCI_STRIDE <= l1
    BY DEF Apart
  <1> HIDE DEF d, p, q, r
  <1>5. l1 + q + x # l2 + r + y
    BY <1>1, <1>2, <1>3, <1>4, PoolConsts
  <1> QED
    BY <1>5 DEF q, r

LEMMA BanksReach ==
  ASSUME MappingInv
  PROVE  BanksReachTheirDevice
  <1>1. PlaceInv /\ BarInv /\ BankInv /\ MappedBanksTranslate
    BY DEF MappingInv, MapInv
  <1> SUFFICES ASSUME NEW a \in asked, NEW k \in {0, a.size - 1}
               PROVE  /\ Translate(a.virt + k) = Base(a.dev, a.bar) + a.offset + k
                      /\ \A d \in DevNos, n \in BarNos :
                           Translate(a.virt + k) \in Decodes(d, n)
                             <=> <<d, n>> = <<a.dev, a.bar>>
    BY DEF BanksReachTheirDevice
  <1> DEFINE base == Base(a.dev, a.bar)
             bank == [virt |-> a.virt, phys |-> base + a.offset, size |-> a.size]
             x == a.offset + k
  <1>2. /\ a.dev \in bus_master /\ a.bar \in Memory(Fn(a.dev))
        /\ AddressBits(bar[a.dev][a.bar]) # 0
        /\ a.offset \in Nat /\ a.size \in Nat \ {0} /\ a.offset + a.size <= PCI_STRIDE
        /\ bank \in mapped
    BY <1>1 DEF BankInv
  <1>3. k \in 0 .. (a.size - 1) /\ x \in 0 .. (PCI_STRIDE - 1)
    <2>1. k \in 0 .. (a.size - 1)
      BY <1>2
    <2> QED
      BY <1>2, <2>1, PoolConsts
  <1>4. base \in Nat
    BY <1>1, <1>2, BaseLemma
  <1>5. Translate(a.virt + k) = base + a.offset + k
    <2>1. bank.virt = a.virt /\ bank.phys = base + a.offset /\ bank.size = a.size
      OBVIOUS
    <2> HIDE DEF bank, base
    <2> QED
      BY <1>1, <1>2, <1>3, <2>1 DEF MappedBanksTranslate
  <1>6. base + a.offset + k = base + x
    BY <1>2, <1>3, <1>4
  <1>7. bus_master \subseteq DevNos /\ \A d : Memory(Fn(d)) \subseteq BarNos
    BY <1>1 DEF BarInv, Probed, Memory
  <1>8. ASSUME NEW d \in bus_master, NEW n \in Memory(Fn(d)), Base(d, n) # 0,
               <<d, n>> # <<a.dev, a.bar>>, NEW y \in 0 .. (PCI_STRIDE - 1)
        PROVE  base + x # Base(d, n) + y
    <2> DEFINE l1 == AddressBits(bar[a.dev][a.bar])
               h1 == UpperHalf(Fn(a.dev), a.bar)
               l2 == AddressBits(bar[d][n])
               h2 == UpperHalf(Fn(d), n)
    <2>1. l1 \in Nat /\ h1 \in Nat /\ base = l1 + DWORD * h1 /\ l1 # 0 /\ l1 + PCI_STRIDE <= DWORD
      BY <1>1, <1>2, BaseLemma
    <2>2. l2 \in Nat /\ h2 \in Nat /\ Base(d, n) = l2 + DWORD * h2 /\ l2 # 0
          /\ l2 + PCI_STRIDE <= DWORD
      BY <1>1, <1>8, BaseLemma
    <2>3. Apart(l1, h1, l2, h2)
      <3>1. ApartAt(Fn(a.dev), a.bar, bar[a.dev][a.bar], Fn(d), n, bar[d][n])
        BY <1>1, <1>2, <1>8 DEF BarInv, AllApart
      <3> QED
        BY <2>1, <2>2, <3>1 DEF ApartAt
    <2> HIDE DEF l1, h1, l2, h2, x, base
    <2>4. l1 + DWORD * h1 + x # l2 + DWORD * h2 + y
      BY <1>3, <2>1, <2>2, <2>3, WindowLemma
    <2> QED
      BY <2>1, <2>2, <2>4
  <1> HIDE DEF base, x
  <1>9. ASSUME NEW d \in DevNos, NEW n \in BarNos
        PROVE  base + x \in Decodes(d, n) <=> <<d, n>> = <<a.dev, a.bar>>
    <2>1. CASE <<d, n>> = <<a.dev, a.bar>>
      <3>1. d = a.dev /\ n = a.bar
        BY <2>1
      <3>2. Base(d, n) = base /\ base # 0
        <4>1. base = AddressBits(bar[a.dev][a.bar]) + DWORD * UpperHalf(Fn(a.dev), a.bar)
              /\ AddressBits(bar[a.dev][a.bar]) \in Nat /\ UpperHalf(Fn(a.dev), a.bar) \in Nat
          BY <1>1, <1>2, BaseLemma DEF base
        <4>2. DWORD * UpperHalf(Fn(a.dev), a.bar) \in Nat
          BY <4>1, PoolConsts, MulLemma
        <4>3. base # 0
          BY <1>2, <4>1, <4>2
        <4> QED
          BY <3>1, <4>3 DEF base
      <3>3. Decodes(d, n) = base .. (base + PCI_STRIDE - 1)
        BY <1>2, <3>1, <3>2 DEF Decodes, Memory
      <3>4. base + x \in base .. (base + PCI_STRIDE - 1)
        BY <1>3, <1>4, PoolConsts
      <3> QED
        BY <2>1, <3>3, <3>4
    <2>2. CASE <<d, n>> # <<a.dev, a.bar>>
      <3> SUFFICES ASSUME base + x \in Decodes(d, n) PROVE FALSE
        BY <2>2
      <3>1. /\ d \in bus_master /\ n \in Memory(Fn(d)) /\ Base(d, n) # 0
            /\ Decodes(d, n) = Base(d, n) .. (Base(d, n) + PCI_STRIDE - 1)
        BY DEF Decodes, Memory
      <3>2. Base(d, n) \in Nat
        BY <1>1, <3>1, BaseLemma
      <3> DEFINE y == base + x - Base(d, n)
      <3>3. y \in 0 .. (PCI_STRIDE - 1) /\ base + x = Base(d, n) + y
        BY <1>3, <1>4, <3>1, <3>2, PoolConsts
      <3> HIDE DEF y
      <3> QED
        BY <1>8, <2>2, <3>1, <3>3
    <2> QED
      BY <2>1, <2>2
  <1> QED
    BY <1>5, <1>6, <1>9 DEF base

(* pcie.c:20 and memory.c:94 together: the registers a driver was given    *)
(* are, through page tables and BARs, those of its device and of no other, *)
(* however many functions the scan gave addresses to and whatever firmware *)
(* had set, on every machine of which MachineAssumption holds.             *)
THEOREM BanksReachTheDevice == BootSpec => []BanksReachTheirDevice
  <1>1. MappingInv => BanksReachTheirDevice
    BY BanksReach
  <1> QED
    BY <1>1, MappingInvariant, PTL

-----------------------------------------------------------------------------
(* The timer's interrupt *)
Frames == DOMAIN Affinities
OurFrame == \E r \in Frames : Affinities[r] = Core

IrqType ==
  /\ redist \in Frames
  /\ gicr \in [Frames -> [sleep : BOOLEAN, asleep : BOOLEAN, group1 : BOOLEAN, enabled : BOOLEAN]]
  /\ cntp \in [enabled : BOOLEAN, due : BOOLEAN]

(* gic_init stops at the frame of our core, if there is one. *)
FrameFound ==
  /\ pc \notin LastPlaces => redist = 1
  /\ pc \in LastPlaces => \A r \in 1 .. (redist - 1) : Affinities[r] # Core
  /\ pc \in LastPlaces \ {"gic"} /\ OurFrame => Affinities[redist] = Core
  /\ pc \in {"timer", "unmask", "loop"} => icc /\ gicr[redist].group1 /\ gicr[redist].enabled

(* Where the edge of an expired timer is, at each place of the handler *)
EdgeAt(where) ==
  /\ where \in {"none", "acknowledge", "exit"} =>
       irq = (IF cntp.due THEN "pending" ELSE "idle")
  /\ where \in {"acknowledge", "timer"} => cntp.due
  /\ where = "timer" => irq = "active"
  /\ where = "end" => irq = (IF cntp.due THEN "active_pending" ELSE "active")

IrqInv ==
  /\ IrqType /\ FrameFound
  /\ cntp.enabled <=> pc \in {"unmask", "loop"}
  /\ cntp.due => cntp.enabled
  /\ handler \in {"none", "acknowledge", "timer", "end", "exit"}
  /\ handler # "none" => pc = "loop"
  /\ daif_i <=> pc # "loop" \/ handler # "none"
  /\ EdgeAt(handler)

(* timer.c:28 'If you miss this, the timer never fires again': in the main *)
(* loop a timer that is due has its interrupt signalled to a core that     *)
(* will take it, or is being handled; or its edge, come during a handler,  *)
(* is kept for the end of it.                                              *)
TickNotLost ==
  pc = "loop" /\ cntp.due /\ OurFrame =>
    \/ handler = "none" /\ ~daif_i /\ Signalled
    \/ handler \in {"acknowledge", "exit"} /\ Signalled
    \/ handler = "timer" /\ irq = "active"
    \/ handler = "end" /\ irq = "active_pending"

LEMMA IrqStart == BootInit => IrqInv
  <1> SUFFICES ASSUME BootInit PROVE IrqInv
    OBVIOUS
  <1>1. 1 \in Frames /\ Frames = 1 .. Len(Affinities) /\ Len(Affinities) \in Nat
    BY IrqAssumption DEF Frames
  <1>2. /\ pc = "scan" /\ redist = 1 /\ icc = FALSE /\ irq = "idle" /\ daif_i = TRUE
        /\ handler = "none" /\ cntp = [enabled |-> FALSE, due |-> FALSE]
        /\ gicr = [r \in Frames |->
                     [sleep |-> TRUE, asleep |-> TRUE, group1 |-> FALSE, enabled |-> FALSE]]
    BY DEF BootInit, PcieInit, IrqInit, Frames
  <1>3. IrqType
    BY <1>1, <1>2 DEF IrqType
  <1> QED
    BY <1>2, <1>3 DEF IrqInv, FrameFound, EdgeAt, LastPlaces

(* The rest of the kernel gets to the interrupts, and leaves them alone.   *)
LEMMA ElsewhereIrq ==
  ASSUME IrqInv, UNCHANGED irq_vars,
         Within(VirtioPlaces) \/ Within(XhciPlaces) \/ Probing \/ UNCHANGED <<pc, dev>>
  PROVE  IrqInv'
  <1>1. /\ redist' = redist /\ gicr' = gicr /\ icc' = icc /\ cntp' = cntp /\ irq' = irq
        /\ daif_i' = daif_i /\ handler' = handler
    BY DEF irq_vars
  <1>2. \/ pc' = pc
        \/ pc \notin LastPlaces /\ (pc' \notin LastPlaces \/ pc' = "gic")
    BY DEF Within, Probing, VirtioPlaces, EarlyPlaces, LatePlaces, XhciPlaces, LastPlaces
  <1>3. CASE pc' = pc
    BY <1>1, <1>3 DEF IrqInv, IrqType, FrameFound, EdgeAt
  <1>4. CASE pc \notin LastPlaces /\ (pc' \notin LastPlaces \/ pc' = "gic")
    <2>1. redist = 1 /\ 1 .. (1 - 1) = {}
      BY <1>4 DEF IrqInv, FrameFound
    <2>2. pc \notin {"unmask", "loop", "timer"} /\ pc' \notin {"unmask", "loop", "timer"}
      BY <1>4 DEF LastPlaces
    <2>3. FrameFound'
      BY <1>1, <1>4, <2>1, <2>2 DEF FrameFound
    <2> QED
      BY <1>1, <2>2, <2>3 DEF IrqInv, IrqType, EdgeAt
  <1> QED
    BY <1>2, <1>3, <1>4

(* gic_init, timer_init and enable_interrupts *)
LEMMA InitIrq ==
  ASSUME IrqInv,
         \/ NextRedistributor \/ WakeRedistributor \/ EnableTimerInterrupt
         \/ timer_init \/ enable_interrupts \/ MainLoop
  PROVE  IrqInv'
  <1>1. Frames = 1 .. Len(Affinities) /\ Len(Affinities) \in Nat
    BY IrqAssumption DEF Frames
  <1>2. CASE NextRedistributor
    <2>1. /\ pc = "gic" /\ pc' = "gic" /\ handler = "none"
          /\ Affinities[redist] # Core /\ redist < Len(Affinities) /\ redist' = redist + 1
          /\ UNCHANGED <<gicr, icc, cntp, irq, daif_i, handler>>
      BY <1>2 DEF NextRedistributor, Main, At, GoTo
    <2>2. redist' \in Frames /\ redist \in Nat
      BY <1>1, <2>1 DEF IrqInv, IrqType
    <2>3. \A r \in 1 .. (redist' - 1) : Affinities[r] # Core
      BY <2>1, <2>2 DEF IrqInv, FrameFound, LastPlaces
    <2> QED
      BY <2>1, <2>2, <2>3 DEF IrqInv, IrqType, FrameFound, EdgeAt, LastPlaces
  <1>3. CASE WakeRedistributor
    <2>1. /\ pc = "gic" /\ pc' = "wake" /\ handler = "none"
          /\ Affinities[redist] = Core \/ redist = Len(Affinities)
          /\ gicr' = [gicr EXCEPT ![redist].sleep = FALSE]
          /\ UNCHANGED <<redist, icc, cntp, irq, daif_i, handler>>
      BY <1>3 DEF WakeRedistributor, Main, At, GoTo
    <2>2. \A r \in 1 .. (redist - 1) : Affinities[r] # Core
      BY <2>1 DEF IrqInv, FrameFound, LastPlaces
    <2>3. OurFrame => Affinities[redist] = Core
      <3> SUFFICES ASSUME NEW r \in Frames, Affinities[r] = Core, redist = Len(Affinities)
                   PROVE  Affinities[redist] = Core
        BY <2>1 DEF OurFrame
      <3>1. r \in 1 .. (redist - 1) \/ r = redist
        BY <1>1
      <3> QED
        BY <2>2, <3>1
    <2>4. IrqType'
      BY <2>1 DEF IrqInv, IrqType
    <2> QED
      BY <2>1, <2>2, <2>3, <2>4 DEF IrqInv, FrameFound, EdgeAt, LastPlaces, OurFrame
  <1>4. CASE EnableTimerInterrupt
    <2>1. /\ pc = "wake" /\ pc' = "timer" /\ handler = "none" /\ icc' = TRUE
          /\ gicr' = [gicr EXCEPT ![redist].group1 = TRUE, ![redist].enabled = TRUE]
          /\ UNCHANGED <<redist, cntp, irq, daif_i, handler>>
      BY <1>4 DEF EnableTimerInterrupt, Main, At, GoTo
    <2> DEFINE g == [gicr EXCEPT ![redist].group1 = TRUE]
    <2>2. gicr' = [g EXCEPT ![redist].enabled = TRUE]
      BY <2>1
    <2>3. /\ redist \in Frames /\ g[redist].group1
          /\ g \in [Frames -> [sleep : BOOLEAN, asleep : BOOLEAN, group1 : BOOLEAN,
                                enabled : BOOLEAN]]
      BY DEF IrqInv, IrqType
    <2> HIDE DEF g
    <2> DEFINE on == TRUE
    <2>4. on \in BOOLEAN /\ on /\ gicr' = [g EXCEPT ![redist].enabled = on]
      BY <2>2
    <2> HIDE DEF on
    <2>5. /\ gicr'[redist].enabled = on /\ gicr'[redist].group1 = g[redist].group1
          /\ gicr' \in [Frames -> [sleep : BOOLEAN, asleep : BOOLEAN, group1 : BOOLEAN,
                                    enabled : BOOLEAN]]
      BY <2>3, <2>4
    <2>6. redist' = redist /\ cntp' = cntp
      BY <2>1
    <2>7. IrqType' /\ gicr'[redist].group1 /\ gicr'[redist].enabled
      BY <2>3, <2>4, <2>5, <2>6 DEF IrqInv, IrqType
    <2> QED
      BY <2>1, <2>7 DEF IrqInv, FrameFound, EdgeAt, LastPlaces, OurFrame
  <1>5. CASE timer_init
    BY <1>5 DEF timer_init, Main, At, GoTo, IrqInv, IrqType, FrameFound, EdgeAt, LastPlaces, OurFrame
  <1>6. CASE enable_interrupts
    BY <1>6 DEF enable_interrupts, Main, At, GoTo, IrqInv, IrqType, FrameFound, EdgeAt,
       LastPlaces, OurFrame
  <1>7. CASE MainLoop
    BY <1>7 DEF MainLoop, Main, At, GoTo, irq_vars, IrqInv, IrqType, FrameFound, EdgeAt,
       LastPlaces, OurFrame
  <1> QED
    BY <1>2, <1>3, <1>4, <1>5, <1>6, <1>7

(* The handler, and an expiry at any place of it *)
LEMMA HandlerIrq ==
  ASSUME IrqInv,
         \/ TakeIrq \/ Acknowledge \/ handle_timer_irq \/ EndOfInterrupt \/ kernel_exit
         \/ TimerExpires
  PROVE  IrqInv'
  <1>1. UNCHANGED <<pc, redist, gicr, icc>>
    BY DEF TakeIrq, Acknowledge, handle_timer_irq, EndOfInterrupt, kernel_exit, TimerExpires,
       HandlerStep
  <1>2. FrameFound'
    BY <1>1 DEF IrqInv, FrameFound, OurFrame
  <1>3. IrqType'
    BY <1>1 DEF IrqInv, IrqType, TakeIrq, Acknowledge, handle_timer_irq, EndOfInterrupt,
       kernel_exit, TimerExpires, Reload
  <1>4. CASE TakeIrq
    <2>1. pc = "loop"
      BY <1>4 DEF TakeIrq, IrqInv
    <2> QED
      BY <1>1, <1>2, <1>3, <1>4, <2>1 DEF TakeIrq, Signalled, IrqInv, IrqType, EdgeAt
  <1>5. CASE Acknowledge
    BY <1>1, <1>2, <1>3, <1>5 DEF Acknowledge, IrqInv, EdgeAt
  <1>6. CASE handle_timer_irq
    BY <1>1, <1>2, <1>3, <1>6 DEF handle_timer_irq, Reload, IrqInv, IrqType, EdgeAt
  <1>7. CASE EndOfInterrupt
    BY <1>1, <1>2, <1>3, <1>7 DEF EndOfInterrupt, IrqInv, EdgeAt
  <1>8. CASE kernel_exit
    BY <1>1, <1>2, <1>3, <1>8 DEF kernel_exit, IrqInv, EdgeAt
  <1>9. CASE TimerExpires
    <2>1. /\ cntp'.due /\ cntp'.enabled /\ ~cntp.due
          /\ irq' = IF irq \in {"active", "active_pending"} THEN "active_pending" ELSE "pending"
          /\ UNCHANGED <<daif_i, handler>>
      BY <1>9 DEF TimerExpires, IrqInv, IrqType
    <2> QED
      BY <1>1, <1>2, <1>3, <1>9, <2>1 DEF TimerExpires, IrqInv, EdgeAt
  <1> QED
    BY <1>4, <1>5, <1>6, <1>7, <1>8, <1>9

LEMMA WakesIrq ==
  ASSUME IrqInv, ChildrenWake
  PROVE  IrqInv'
  <1>1. PICK r \in Frames : gicr' = [gicr EXCEPT ![r].asleep = FALSE]
    BY DEF ChildrenWake, Frames
  <1>2. UNCHANGED <<pc, redist, icc, cntp, irq, daif_i, handler>>
    BY DEF ChildrenWake
  <1>3. IrqType' /\ gicr'[redist].group1 = gicr[redist].group1
        /\ gicr'[redist].enabled = gicr[redist].enabled
    BY <1>1, <1>2 DEF IrqInv, IrqType
  <1> QED
    BY <1>2, <1>3 DEF IrqInv, FrameFound, EdgeAt, OurFrame

LEMMA IrqStepInv ==
  ASSUME IrqInv, PlaceInv, [BootNext]_boot_vars
  PROVE  IrqInv'
  <1>1. CASE Kernel /\ ~IrqStep
    <2>1. UNCHANGED irq_vars
      BY <1>1 DEF Kernel
    <2>2. Within(VirtioPlaces) \/ Within(XhciPlaces) \/ Probing
      BY <1>1, VirtioMoves, XhciMoves, PcieMoves DEF Kernel, PlaceInv
    <2> QED
      BY <2>1, <2>2, ElsewhereIrq
  <1>2. CASE IrqStep
    BY <1>2, InitIrq, HandlerIrq DEF IrqStep
  <1>3. CASE VirtioResets \/ (\E w \in Waits : XhciClears(w)) \/ UNCHANGED boot_vars
    <2>1. UNCHANGED irq_vars
      BY <1>3 DEF VirtioResets, XhciClears, boot_vars, irq_vars
    <2>2. UNCHANGED <<pc, dev>>
      BY <1>3, DevicesStill DEF boot_vars
    <2> QED
      BY <2>1, <2>2, ElsewhereIrq
  <1>4. CASE RedistributorWakes
    BY <1>4, WakesIrq DEF RedistributorWakes
  <1>5. CASE Expires
    BY <1>5, HandlerIrq DEF Expires
  <1> QED
    BY <1>1, <1>2, <1>3, <1>4, <1>5 DEF BootNext, Kernel

LEMMA IrqInvariant == BootSpec => [](PlaceInv /\ IrqInv)
  <1>1. BootInit => PlaceInv /\ IrqInv
    BY PlaceStart, IrqStart
  <1>2. PlaceInv /\ IrqInv /\ [BootNext]_boot_vars => (PlaceInv /\ IrqInv)'
    BY EveryMove, PlaceStep, IrqStepInv
  <1> QED
    BY <1>1, <1>2, PTL DEF BootSpec

(* timer.c:28: no expiry of the timer is lost, wherever in the boot or in  *)
(* the handler it comes, with any number of redistributors: the safety     *)
(* half of UptimeAdvances.                                                 *)
THEOREM TicksAreKept == BootSpec => []TickNotLost
  <1>1. IrqInv => TickNotLost
    <2> SUFFICES ASSUME IrqInv, pc = "loop", cntp.due, OurFrame PROVE TickNotLost
      BY DEF TickNotLost
    <2>1. redist \in Frames /\ Affinities[redist] = Core
      BY DEF IrqInv, IrqType, FrameFound, LastPlaces
    <2>2. icc /\ gicr[redist].group1 /\ gicr[redist].enabled
      BY DEF IrqInv, FrameFound
    <2>3. irq = "pending" => Signalled
      BY <2>1, <2>2 DEF Signalled, Frames
    <2> QED
      BY <2>3 DEF IrqInv, EdgeAt, TickNotLost
  <1> QED
    BY <1>1, IrqInvariant, PTL

=============================================================================
