------------------------------ MODULE Kmalloc -------------------------------
(***************************************************************************)
(* The kernel heap of src/AetherWebOS/src/kernel/memory.c.                 *)
(*                                                                         *)
(* free_list is the C list of mem_header_t, newest block first (a header   *)
(* is only ever pushed at the head and never unlinked), so it holds every  *)
(* block the heap ever created, free or not.  A header's address, which C  *)
(* leaves implicit in the pointer, is the field addr.                      *)
(*                                                                         *)
(* Clients are disciplined: they pass kfree either NULL or a pointer       *)
(* kmalloc returned and they have not freed since.  live and peak are      *)
(* history variables: the regions clients hold, and the most they ever     *)
(* held at once.                                                           *)
(***************************************************************************)
EXTENDS Naturals, Sequences, FiniteSets

CONSTANTS
  HEAP_START,   \* config.h
  HEAP_SIZE,    \* config.h
  HEADER,       \* sizeof(mem_header_t), 24 on AArch64
  Sizes         \* the request sizes the clients use

ASSUME HeapAssumption ==
  /\ HEAP_START \in Nat \ {0}
  /\ HEAP_SIZE \in Nat
  /\ HEADER \in Nat \ {0}
  /\ Sizes \subseteq Nat

VARIABLES
  free_list,    \* every block, newest first
  heap_ptr,     \* first byte never handed out
  live,         \* history: the regions [ptr, len] held by clients
  peak          \* history: the largest number of regions ever held at once

vars == <<free_list, heap_ptr, live, peak>>

HEAP_END == HEAP_START + HEAP_SIZE

(* (size + 7) & ~7 *)
Align8(size) == ((size + 7) \div 8) * 8

Headers == [addr : Nat, size : Nat, is_free : BOOLEAN]

(* (void * )(header + 1) *)
DataOf(header) == header.addr + HEADER

-----------------------------------------------------------------------------
Init ==
  /\ free_list = << >>
  /\ heap_ptr = HEAP_START
  /\ live = {}
  /\ peak = 0

(* The client holds what kmalloc returned. *)
Hold(ptr, len) ==
  /\ live' = live \cup {[ptr |-> ptr, len |-> len]}
  /\ peak' = IF Cardinality(live') > peak THEN Cardinality(live') ELSE peak

(* Blocks a request of (aligned) size may reuse *)
Mutant_FitsIgnoresSize(i, size) ==
  free_list[i].is_free

Mutant_FitsIgnoresUse(i, size) ==
  free_list[i].size >= size

Fits(i, size) ==
  /\ free_list[i].is_free
  /\ free_list[i].size >= size

FittingBlocks(size) == {i \in 1 .. Len(free_list) : Fits(i, size)}

(* Step 2 of kmalloc: the first block of the list that fits is reused whole. *)
KmallocReuse(len) ==
  \E i \in FittingBlocks(Align8(len)) :
    /\ \A j \in FittingBlocks(Align8(len)) : i <= j
    /\ free_list' = [free_list EXCEPT ![i].is_free = FALSE]
    /\ Hold(DataOf(free_list[i]), len)
    /\ UNCHANGED heap_ptr

Mutant_RoomIgnoresHeader(size) == heap_ptr + size <= HEAP_END

(* heap_ptr + total_size > HEAP_START + HEAP_SIZE is the error *)
Room(size) == heap_ptr + HEADER + size <= HEAP_END

NewHeader(size) == [addr |-> heap_ptr, size |-> size, is_free |-> FALSE]

(* A heap that grows the wrong way *)
Mutant_KmallocBumpDown(len) ==
  /\ FittingBlocks(Align8(len)) = {}
  /\ Room(Align8(len))
  /\ free_list' = <<NewHeader(Align8(len))>> \o free_list
  /\ heap_ptr' = heap_ptr - (HEADER + Align8(len))
  /\ Hold(DataOf(NewHeader(Align8(len))), len)

(* Step 3 of kmalloc: a new block at heap_ptr, pushed on the list. *)
KmallocBump(len) ==
  /\ FittingBlocks(Align8(len)) = {}
  /\ Room(Align8(len))
  /\ free_list' = <<NewHeader(Align8(len))>> \o free_list
  /\ heap_ptr' = heap_ptr + HEADER + Align8(len)
  /\ Hold(DataOf(NewHeader(Align8(len))), len)

(* "Heap Exhausted!": kmalloc returns NULL. *)
KmallocExhausted(len) ==
  /\ FittingBlocks(Align8(len)) = {}
  /\ ~Room(Align8(len))
  /\ UNCHANGED vars

(* A kfree that forgets the block *)
Mutant_KfreeForgets(r) ==
  /\ UNCHANGED <<free_list, heap_ptr, peak>>
  /\ live' = live \ {r}

(* kfree(ptr): the header just before ptr is marked free, nothing else. *)
Kfree(r) ==
  /\ \E i \in 1 .. Len(free_list) :
       /\ DataOf(free_list[i]) = r.ptr
       /\ free_list' = [free_list EXCEPT ![i].is_free = TRUE]
  /\ live' = live \ {r}
  /\ UNCHANGED <<heap_ptr, peak>>

Next ==
  \/ \E len \in Sizes : KmallocReuse(len)
  \/ \E len \in Sizes : KmallocBump(len)
  \/ \E len \in Sizes : KmallocExhausted(len)
  \/ \E r \in live : Kfree(r)

Spec == Init /\ [][Next]_vars

-----------------------------------------------------------------------------
(* Type invariant. *)
TypeOK ==
  /\ free_list \in Seq(Headers)
  /\ heap_ptr \in Nat
  /\ live \subseteq [ptr : Nat, len : Sizes]
  /\ IsFiniteSet(live)
  /\ peak \in Nat

(* Blocks lie one after another, newest highest, all below heap_ptr and    *)
(* inside the heap, whatever mixture of kmalloc and kfree came before.     *)
BlocksTile ==
  /\ HEAP_START <= heap_ptr
  /\ heap_ptr <= HEAP_END
  /\ \A i \in 1 .. Len(free_list) :
       /\ HEAP_START <= free_list[i].addr
       /\ free_list[i].addr + HEADER + free_list[i].size <= heap_ptr
  /\ \A i, j \in 1 .. Len(free_list) :
       i < j => free_list[j].addr + HEADER + free_list[j].size <= free_list[i].addr

(* Every region a client holds is the data of one block in use, and fits.  *)
LiveOwnBlocks ==
  /\ \A r \in live : \E i \in 1 .. Len(free_list) :
       /\ r.ptr = DataOf(free_list[i])
       /\ r.len <= free_list[i].size
       /\ ~free_list[i].is_free
  /\ \A r, s \in live : r.ptr = s.ptr => r = s

(* Every block in use is held by a client: no block is lost. *)
UsedBlocksLive ==
  \A i \in 1 .. Len(free_list) :
    ~free_list[i].is_free => \E r \in live : r.ptr = DataOf(free_list[i])

(* INDUCTIVE: the blocks, and who holds which. *)
HeapInv == BlocksTile /\ LiveOwnBlocks /\ UsedBlocksLive

(* SAFETY: a client that writes only inside the regions it holds, however  *)
(* often blocks were freed and reused, never writes another client's       *)
(* region nor any header of the allocator's list, and stays in the heap.   *)
NoOverlap ==
  /\ \A r, s \in live :
       r # s => /\ r.ptr # s.ptr
                /\ r.ptr + r.len <= s.ptr \/ s.ptr + s.len <= r.ptr
  /\ \A r \in live : \A i \in 1 .. Len(free_list) :
       \/ r.ptr + r.len <= free_list[i].addr
       \/ free_list[i].addr + HEADER <= r.ptr
  /\ \A r \in live : HEAP_START <= r.ptr /\ r.ptr + r.len <= HEAP_END

BlocksOfSize(size) ==
  {free_list[i].addr : i \in {j \in 1 .. Len(free_list) : free_list[j].size = size}}

(* RECYCLING: blocks are neither split nor merged, yet the heap cannot     *)
(* grow without limit while clients free what they take: there are never   *)
(* more blocks of one size than regions were ever held at once.            *)
RecyclingBound ==
  \A size \in {Align8(len) : len \in Sizes} : Cardinality(BlocksOfSize(size)) <= peak

(* The heap as its clients see it: every step is an allocation of a region *)
(* no other client holds, the return of one, or invisible.                 *)
Heap == INSTANCE HeapSpec
HeapSpecImplemented == Heap!Spec

=============================================================================
