------------------------------ MODULE HeapSpec ------------------------------
(***************************************************************************)
(* What the kernel heap (src/AetherWebOS/src/kernel/memory.c) promises its *)
(* clients: kmalloc hands out a region of the heap that no other client    *)
(* holds, or fails; kfree takes a region back.  How free space is found    *)
(* again, and where the allocator keeps its headers, is not said here:     *)
(* module Kmalloc implements this specification.                           *)
(***************************************************************************)
EXTENDS Naturals

CONSTANTS
  HEAP_START,   \* first byte of the heap
  HEAP_SIZE,    \* bytes in the heap
  Sizes         \* request sizes

VARIABLE
  live          \* the regions [ptr, len] clients hold

(* The addresses a region may start at; an empty region may sit at the end. *)
Addresses == HEAP_START .. (HEAP_START + HEAP_SIZE)

Regions == [ptr : Addresses, len : Sizes]

(* No byte belongs to both regions, and they have different names. *)
Disjoint(r, s) ==
  /\ r.ptr # s.ptr
  /\ \/ r.ptr + r.len <= s.ptr
     \/ s.ptr + s.len <= r.ptr

Init == live = {}

Alloc(r) ==
  /\ r.ptr + r.len <= HEAP_START + HEAP_SIZE
  /\ \A s \in live : Disjoint(r, s)
  /\ live' = live \cup {r}

Free(r) ==
  /\ r \in live
  /\ live' = live \ {r}

Next ==
  \/ \E r \in Regions : Alloc(r)
  \/ \E r \in live : Free(r)

Spec == Init /\ [][Next]_live

=============================================================================
