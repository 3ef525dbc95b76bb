----------------------------- MODULE VirtioRing -----------------------------
(***************************************************************************)
(* The split virtqueue of src/AetherWebOS/src/drivers/virtio/virtio_ring.c *)
(* as operators on a queue record.  The record joins struct virtqueue (the *)
(* driver's own size, free_head, num_free, last_used_idx) with the memory  *)
(* it shares with the device: the descriptor table (addr, next), the       *)
(* available ring and the used ring.  Descriptor lengths and flags are     *)
(* left out: every buffer of a queue is used in one direction only.        *)
(*                                                                         *)
(* IdxMod is 2^16: avail->idx, used->idx and last_used_idx are uint16_t    *)
(* that wrap, and ring slots are taken modulo the queue size.              *)
(***************************************************************************)
EXTENDS Integers, Sequences, FiniteSets

CONSTANTS
  IdxMod,       \* number of values of a ring index
  NULL          \* the address of a descriptor never filled

ASSUME IdxAssumption == IdxMod \in Nat \ {0, 1}

(* 0xFFFF: "no descriptor" *)
NoDesc == IdxMod - 1

Descs(q) == 0 .. (q.size - 1)

(* virtqueue_init: descriptors chained 0, 1, ..., size - 1, 0xFFFF.  The   *)
(* ring memory is static and therefore zero.                               *)
virtqueue_init(size) ==
  [size          |-> size,
   addr          |-> [i \in 0 .. (size - 1) |-> NULL],
   next          |-> [i \in 0 .. (size - 1) |-> IF i = size - 1 THEN NoDesc ELSE i + 1],
   free_head     |-> 0,
   num_free      |-> size,
   avail_ring    |-> [i \in 0 .. (size - 1) |-> 0],
   avail_idx     |-> 0,
   used_ring     |-> [i \in 0 .. (size - 1) |-> [id |-> 0, len |-> 0]],
   used_idx      |-> 0,
   last_used_idx |-> 0]

(* virtqueue_add_descriptor returns the head of the free list, or 0xFFFF.  *)
added_head(q) == IF q.num_free = 0 THEN NoDesc ELSE q.free_head

virtqueue_add_descriptor(q, buf) ==
  IF q.num_free = 0 THEN q
  ELSE [q EXCEPT !.free_head = q.next[q.free_head],
                 !.num_free = @ - 1,
                 !.addr[q.free_head] = buf,
                 !.next[q.free_head] = 0]

(* virtqueue_push_available is two stores the device can see separately:   *)
(* the ring slot (step 1) and, after the barrier, the index (step 3).      *)
write_avail_slot(q, head) ==
  [q EXCEPT !.avail_ring[q.avail_idx % q.size] = head]

(* An index kept in a wider integer *)
Mutant_publish_no_wrap(q) ==
  [q EXCEPT !.avail_idx = @ + 1]

publish_avail_idx(q) ==
  [q EXCEPT !.avail_idx = (@ + 1) % IdxMod]

(* The test at the top of virtqueue_pop_used *)
has_used(q) == q.last_used_idx # q.used_idx

Mutant_used_receipt(q) == q.used_ring[(q.last_used_idx + 1) % q.size]

used_receipt(q) == q.used_ring[q.last_used_idx % q.size]

(* A pop that recycles the descriptor without linking it to the old list *)
Mutant_pop_loses_list(q) ==
  LET id == used_receipt(q).id
  IN [q EXCEPT !.last_used_idx = (@ + 1) % IdxMod,
               !.free_head = id,
               !.num_free = @ + 1]

(* The rest of virtqueue_pop_used: consume the receipt and put the         *)
(* descriptor back at the head of the free list.                           *)
virtqueue_pop_used(q) ==
  LET id == used_receipt(q).id
  IN [q EXCEPT !.last_used_idx = (@ + 1) % IdxMod,
               !.next[id] = q.free_head,
               !.free_head = id,
               !.num_free = @ + 1]

-----------------------------------------------------------------------------
(* The device's side (external; the virtio 1.0 device QEMU provides): it    *)
(* reads available entries in order from its own index, and writes a        *)
(* receipt for each descriptor it has finished with, in any order.          *)
avail_pending(q, last_avail) == (q.avail_idx - last_avail) % IdxMod

device_reads(q, last_avail) == q.avail_ring[last_avail % q.size]

device_completes(q, id, len) ==
  [q EXCEPT !.used_ring[q.used_idx % q.size] = [id |-> id, len |-> len],
            !.used_idx = (@ + 1) % IdxMod]

-----------------------------------------------------------------------------
(* Where a descriptor is, read off the indices *)
AvailSeq(q, last_avail) ==
  [i \in 1 .. avail_pending(q, last_avail) |->
     q.avail_ring[((last_avail + i - 1) % IdxMod) % q.size]]

UsedSeq(q) ==
  [i \in 1 .. ((q.used_idx - q.last_used_idx) % IdxMod) |->
     q.used_ring[((q.last_used_idx + i - 1) % IdxMod) % q.size].id]

(* The free list is the chain of num_free different descriptors that       *)
(* starts at free_head.                                                    *)
IsFreeChain(q, chain) ==
  /\ chain \in [1 .. q.num_free -> Descs(q)]
  /\ \A i, j \in 1 .. q.num_free : chain[i] = chain[j] => i = j
  /\ q.num_free > 0 => chain[1] = q.free_head
  /\ \A i \in 1 .. (q.num_free - 1) : q.next[chain[i]] = chain[i + 1]

=============================================================================
