------------------------------ MODULE Ioremap -------------------------------
(***************************************************************************)
(* Device mappings: vmalloc and ioremap of                                 *)
(* src/AetherWebOS/src/kernel/memory.c over the page tables of             *)
(* src/AetherWebOS/arch/aarch64/mmu.c.                                     *)
(*                                                                         *)
(* The L3 tables of the dynamic region are l3_pool[table][entry], a        *)
(* physical page or NoPage (the descriptor's attribute bits are the same   *)
(* for every entry).  Translate is the walk the hardware makes.  The       *)
(* drivers (virtio_pci.c, xhci.c) may ask for any register bank the PCI    *)
(* BARs name; mapped is a history variable: what each was given.           *)
(***************************************************************************)
EXTENDS Integers, FiniteSets, FiniteSetsExt

CONSTANTS
  PAGE_SIZE,       \* config.h (4096)
  ENTRIES,         \* entries of a table (512)
  TABLES           \* tables in l3_pool (4)

ASSUME IoremapAssumption ==
  PAGE_SIZE \in Nat \ {0} /\ ENTRIES \in Nat \ {0} /\ TABLES \in 1 .. ENTRIES

VARIABLES
  vmalloc_ptr,     \* first virtual address never handed out
  l3_pool,         \* the L3 tables
  mapped           \* history: the set of [virt, phys, size] handed to drivers

vars == <<vmalloc_ptr, l3_pool, mapped>>

NoPage == -1

(* The L1 table has one entry per GB; the dynamic region is the third. *)
GB == ENTRIES * ENTRIES * PAGE_SIZE
VMALLOC_START == 2 * GB
VMALLOC_MAX == VMALLOC_START + TABLES * ENTRIES * PAGE_SIZE

PageOf(addr) == addr - (addr % PAGE_SIZE)                    \* addr & PAGE_MASK

(* (size + PAGE_SIZE - 1) & PAGE_MASK *)
RoundUp(size) == PageOf(size + PAGE_SIZE - 1)

(* (va >> 21) & 0x1FF and (va >> 12) & 0x1FF *)
l2_idx(va) == (va \div (ENTRIES * PAGE_SIZE)) % ENTRIES
l3_idx(va) == (va \div PAGE_SIZE) % ENTRIES

Slots == (0 .. (TABLES - 1)) \X (0 .. (ENTRIES - 1))

Init ==
  /\ vmalloc_ptr = VMALLOC_START
  /\ l3_pool = [s \in Slots |-> NoPage]
  /\ mapped = {}

-----------------------------------------------------------------------------
(* mmu_map_region: one entry per page, the last one written to a slot      *)
(* wins; a page whose table is not in the pool is skipped without notice.  *)
PagesTo(slot, va, size) ==
  {n \in 0 .. (size \div PAGE_SIZE - 1) :
     <<l2_idx(va + n * PAGE_SIZE), l3_idx(va + n * PAGE_SIZE)>> = slot}

Mutant_mmu_map_region(va, pa, size) ==
  [slot \in Slots |->
     IF PagesTo(slot, va, size) = {} THEN l3_pool[slot] ELSE PageOf(pa)]

mmu_map_region(va, pa, size) ==
  [slot \in Slots |->
     IF PagesTo(slot, va, size) = {} THEN l3_pool[slot]
     ELSE PageOf(pa) + PAGE_SIZE * Max(PagesTo(slot, va, size))]

(* vmalloc(size) finds room *)
VmallocFits(size) == vmalloc_ptr + RoundUp(size) <= VMALLOC_MAX

(* The pages that cover the bank, its offset in the first one included *)
map_size(b) == RoundUp((b.phys % PAGE_SIZE) + b.size)

ioremap(b) ==
  /\ b.size > 0 /\ VmallocFits(map_size(b))
  /\ vmalloc_ptr' = vmalloc_ptr + RoundUp(map_size(b))
  /\ l3_pool' = mmu_map_region(vmalloc_ptr, PageOf(b.phys), map_size(b))
  /\ mapped' = mapped \cup
       {[virt |-> vmalloc_ptr + (b.phys % PAGE_SIZE), phys |-> b.phys, size |-> b.size]}

(* ioremap returns NULL: nothing asked for, or the pool is exhausted. *)
IoremapFails(b) ==
  /\ b.size = 0 \/ ~VmallocFits(map_size(b))
  /\ UNCHANGED vars

(* Drivers in any order, asking for any bank; module Boot has the ones the *)
(* kernel has.                                                             *)
Next == \E b \in [phys : Nat, size : Nat] : ioremap(b) \/ IoremapFails(b)

Spec == Init /\ [][Next]_vars

-----------------------------------------------------------------------------
(* The hardware's walk in the dynamic region (external) *)
Translate(va) ==
  LET slot == <<l2_idx(va), l3_idx(va)>>
  IN IF slot \notin Slots \/ l3_pool[slot] = NoPage THEN NoPage
     ELSE l3_pool[slot] + (va % PAGE_SIZE)

(* Type invariant. *)
TypeOK ==
  /\ vmalloc_ptr \in VMALLOC_START .. VMALLOC_MAX /\ vmalloc_ptr % PAGE_SIZE = 0
  /\ l3_pool \in [Slots -> Nat \cup {NoPage}]
  /\ mapped \subseteq [virt : Nat, phys : Nat, size : Nat]

(* memory.c:94 'handles the "Alignment Trap"': every byte of every bank a  *)
(* driver was given translates to that register's physical address,        *)
(* however unaligned the bank, and later mappings never change it.         *)
MappedBanksTranslate ==
  \A m \in mapped : \A k \in 0 .. (m.size - 1) : Translate(m.virt + k) = m.phys + k

=============================================================================
