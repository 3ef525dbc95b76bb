------------------------------ MODULE VirtioNet -----------------------------
(***************************************************************************)
(* The network driver of src/AetherWebOS/src/drivers/virtio/virtio_net.c   *)
(* with ethernet_send of drivers/ethernet/ethernet.c, running in the main  *)
(* loop of kernel.c against the device.                                    *)
(*                                                                         *)
(* The kernel is one thread: pc says where it is in                        *)
(*   setup: prefill of the RX queue (fill, fill_idx)                       *)
(*   loop:  virtio_net_poll (poll, handle, tx_idx, refill, refill_idx),    *)
(*          net_tx_reaper (reap)                                           *)
(* The device runs beside it and sees shared memory after every step.      *)
(* What the protocol layers do with a frame is a number of calls of        *)
(* ethernet_send chosen freely up to MaxReplies; modules Arp and Tcp say   *)
(* which.  The counters of global_net_stats, which decide nothing, are     *)
(* left out.                                                               *)
(***************************************************************************)
EXTENDS VirtioRing

CONSTANTS
  RxSize,          \* queue sizes, read from the device
  TxSize,
  Buffers,         \* heap buffers ethernet_send may get from kmalloc
  MaxReplies,      \* bound: frames sent while one received frame is handled
  PrefillOrdered   \* TRUE: the device sees the prefill's stores in program order

ASSUME NetAssumption ==
  /\ RxSize \in Nat \ {0} /\ RxSize < IdxMod /\ IdxMod % RxSize = 0
  /\ TxSize \in Nat \ {0} /\ TxSize < IdxMod /\ IdxMod % TxSize = 0
  /\ MaxReplies \in Nat
  /\ PrefillOrdered \in BOOLEAN

VARIABLES
  pc, cur, i, replies,   \* control; full_buffer; the prefill index; frames sent so far
  rx, tx,                \* the queues, driver's and shared parts
  heap,                  \* buffers of ethernet_send not given back by kfree
  dev,                   \* the device: next entry to read and descriptors held, per queue
  broken,                \* the device stopped: it was given an impossible descriptor
  overflowed             \* history: ethernet_send published 0xFFFF

driver == <<pc, cur, i, replies, heap, overflowed>>
vars == <<pc, cur, i, replies, rx, tx, heap, dev, broken, overflowed>>

(* Receipt lengths told apart: at most the virtio header, or a frame too *)
Lens == {0, 1}

Init ==
  /\ pc = "fill" /\ cur = 0 /\ i = 0 /\ replies = 0
  /\ rx = virtqueue_init(RxSize)
  /\ tx = virtqueue_init(TxSize)
  /\ heap = {}
  /\ dev = [rx |-> [last |-> 0, held |-> {}], tx |-> [last |-> 0, held |-> {}]]
  /\ broken = FALSE
  /\ overflowed = FALSE

-----------------------------------------------------------------------------
(* virtio_net_setup_queues: the prefill loop.  Each turn takes a           *)
(* descriptor, writes its ring slot and the index, with no barrier between *)
(* the two stores.                                                         *)
Filled == virtqueue_add_descriptor(rx, i)

FillSlot ==
  /\ pc = "fill" /\ i < RxSize
  /\ rx' = write_avail_slot(Filled, added_head(rx))
  /\ pc' = "fill_idx"
  /\ UNCHANGED <<cur, i, replies, tx, heap, dev, broken, overflowed>>

FillIdx ==
  /\ pc = "fill_idx"
  /\ rx' = publish_avail_idx(rx)
  /\ i' = i + 1
  /\ pc' = "fill"
  /\ UNCHANGED <<cur, replies, tx, heap, dev, broken, overflowed>>

(* The two stores reach memory in the other order. *)
FillIdxFirst ==
  /\ ~PrefillOrdered
  /\ pc = "fill" /\ i < RxSize
  /\ rx' = publish_avail_idx(Filled)
  /\ cur' = added_head(rx)
  /\ pc' = "fill_slot"
  /\ UNCHANGED <<i, replies, tx, heap, dev, broken, overflowed>>

FillSlotLate ==
  /\ pc = "fill_slot"
  /\ rx' = [rx EXCEPT !.avail_ring[(rx.avail_idx - 1) % RxSize] = cur]
  /\ cur' = 0
  /\ i' = i + 1
  /\ pc' = "fill"
  /\ UNCHANGED <<replies, tx, heap, dev, broken, overflowed>>

FillDone ==
  /\ pc = "fill" /\ i = RxSize
  /\ pc' = "poll"
  /\ UNCHANGED <<cur, i, replies, rx, tx, heap, dev, broken, overflowed>>

-----------------------------------------------------------------------------
(* virtio_net_poll up to ethernet_handle_packet.  full_buffer is           *)
(* rx_buffers[id], whatever address the descriptor holds.                  *)
PollNothing ==
  /\ pc = "poll" /\ ~has_used(rx)
  /\ pc' = "reap"
  /\ UNCHANGED <<cur, i, replies, rx, tx, heap, dev, broken, overflowed>>

(* A runt that leaves the function before the refill *)
Mutant_PollDropsRunt ==
  /\ pc = "poll" /\ has_used(rx)
  /\ rx' = virtqueue_pop_used(rx)
  /\ cur' = used_receipt(rx).id
  /\ replies' = 0
  /\ pc' = IF used_receipt(rx).len = 0 THEN "reap" ELSE "handle"
  /\ UNCHANGED <<i, tx, heap, dev, broken, overflowed>>

PollReceive ==
  /\ pc = "poll" /\ has_used(rx)
  /\ rx' = virtqueue_pop_used(rx)
  /\ cur' = used_receipt(rx).id
  /\ replies' = 0
  /\ pc' = IF used_receipt(rx).len = 0 THEN "refill" ELSE "handle"
  /\ UNCHANGED <<i, tx, heap, dev, broken, overflowed>>

(* ethernet_send, called by the layer that handles the frame: the buffer   *)
(* is published even when virtqueue_add_descriptor found no descriptor.    *)
ethernet_send(b) ==
  /\ pc = "handle" /\ replies < MaxReplies
  /\ heap' = heap \cup {b}
  /\ tx' = write_avail_slot(virtqueue_add_descriptor(tx, b), added_head(tx))
  /\ overflowed' = (overflowed \/ added_head(tx) = NoDesc)
  /\ pc' = "tx_idx"
  /\ replies' = replies + 1
  /\ UNCHANGED <<cur, i, rx, dev, broken>>

SendPublish ==
  /\ pc = "tx_idx"
  /\ tx' = publish_avail_idx(tx)
  /\ pc' = "handle"
  /\ UNCHANGED <<cur, i, replies, rx, heap, dev, broken, overflowed>>

(* A handler that returns from virtio_net_poll *)
Mutant_HandleReturns ==
  /\ pc = "handle"
  /\ pc' = "reap"
  /\ UNCHANGED <<cur, i, replies, rx, tx, heap, dev, broken, overflowed>>

(* A send whose kmalloc fails changes nothing: it is the same as no send.   *)
HandleDone ==
  /\ pc = "handle"
  /\ pc' = "refill"
  /\ UNCHANGED <<cur, i, replies, rx, tx, heap, dev, broken, overflowed>>

(* A refill that publishes the descriptor it did not take *)
Mutant_RefillWithoutDescriptor ==
  /\ pc = "refill"
  /\ rx' = write_avail_slot(rx, cur)
  /\ pc' = "refill_idx"
  /\ UNCHANGED <<cur, i, replies, tx, heap, dev, broken, overflowed>>

(* The buffer next to the one just read is posted. *)
Mutant_RefillOtherBuffer ==
  /\ pc = "refill"
  /\ rx' = write_avail_slot(virtqueue_add_descriptor(rx, (cur + 1) % RxSize), added_head(rx))
  /\ pc' = "refill_idx"
  /\ UNCHANGED <<cur, i, replies, tx, heap, dev, broken, overflowed>>

(* refill: the same buffer is posted again. *)
Refill ==
  /\ pc = "refill"
  /\ rx' = write_avail_slot(virtqueue_add_descriptor(rx, cur), added_head(rx))
  /\ pc' = "refill_idx"
  /\ UNCHANGED <<cur, i, replies, tx, heap, dev, broken, overflowed>>

Mutant_RefillPublishTwice ==
  /\ pc = "refill_idx"
  /\ rx' = publish_avail_idx(publish_avail_idx(rx))
  /\ pc' = "reap" /\ cur' = 0 /\ replies' = 0
  /\ UNCHANGED <<i, tx, heap, dev, broken, overflowed>>

RefillPublish ==
  /\ pc = "refill_idx"
  /\ rx' = publish_avail_idx(rx)
  /\ pc' = "reap" /\ cur' = 0 /\ replies' = 0
  /\ UNCHANGED <<i, tx, heap, dev, broken, overflowed>>

(* A reaper that forgets kfree *)
Mutant_ReapNoFree ==
  /\ pc = "reap" /\ has_used(tx)
  /\ tx' = virtqueue_pop_used(tx)
  /\ UNCHANGED <<pc, cur, i, replies, rx, heap, dev, broken, overflowed>>

(* net_tx_reaper: one turn of its loop per step, then the loop's exit. *)
Reap ==
  /\ pc = "reap" /\ has_used(tx)
  /\ tx' = virtqueue_pop_used(tx)
  /\ heap' = heap \ {tx.addr[used_receipt(tx).id]}
  /\ UNCHANGED <<pc, cur, i, replies, rx, dev, broken, overflowed>>

ReapDone ==
  /\ pc = "reap" /\ ~has_used(tx)
  /\ pc' = "poll"
  /\ UNCHANGED <<cur, i, replies, rx, tx, heap, dev, broken, overflowed>>

-----------------------------------------------------------------------------
(* The device (external).  It reads the available ring in order; an entry  *)
(* that names no descriptor stops it for good.                             *)
DeviceTakesRx ==
  /\ ~broken /\ avail_pending(rx, dev.rx.last) > 0
  /\ IF device_reads(rx, dev.rx.last) \in Descs(rx)
       THEN /\ dev' = [dev EXCEPT !.rx.last = (@ + 1) % IdxMod,
                                  !.rx.held = @ \cup {device_reads(rx, dev.rx.last)}]
            /\ UNCHANGED broken
       ELSE broken' = TRUE /\ UNCHANGED dev
  /\ UNCHANGED <<driver, rx, tx>>

DeviceTakesTx ==
  /\ ~broken /\ avail_pending(tx, dev.tx.last) > 0
  /\ IF device_reads(tx, dev.tx.last) \in Descs(tx)
       THEN /\ dev' = [dev EXCEPT !.tx.last = (@ + 1) % IdxMod,
                                  !.tx.held = @ \cup {device_reads(tx, dev.tx.last)}]
            /\ UNCHANGED broken
       ELSE broken' = TRUE /\ UNCHANGED dev
  /\ UNCHANGED <<driver, rx, tx>>

(* A frame arrives in a posted buffer; a posted frame has been sent. *)
DeviceReceives(id, len) ==
  /\ ~broken /\ id \in dev.rx.held
  /\ rx' = device_completes(rx, id, len)
  /\ dev' = [dev EXCEPT !.rx.held = @ \ {id}]
  /\ UNCHANGED <<driver, tx, broken>>

DeviceSends(id) ==
  /\ ~broken /\ id \in dev.tx.held
  /\ tx' = device_completes(tx, id, 0)
  /\ dev' = [dev EXCEPT !.tx.held = @ \ {id}]
  /\ UNCHANGED <<driver, rx, broken>>

-----------------------------------------------------------------------------
Driver ==
  \/ FillSlot \/ FillIdx \/ FillIdxFirst \/ FillSlotLate \/ FillDone
  \/ PollNothing \/ PollReceive
  \/ \E b \in Buffers \ heap : ethernet_send(b)
  \/ SendPublish \/ HandleDone
  \/ Refill \/ RefillPublish
  \/ Reap \/ ReapDone

Next ==
  \/ Driver
  \/ DeviceTakesRx
  \/ DeviceTakesTx
  \/ \E id \in Descs(rx), len \in Lens : DeviceReceives(id, len)
  \/ \E id \in Descs(tx) : DeviceSends(id)

Spec == Init /\ [][Next]_vars

(* The main loop never stops, and a device that works reads the TX ring    *)
(* and sends every frame it took.  Frames arrive when they please: no      *)
(* fairness for receiving.                                                 *)
FairSpec ==
  /\ Spec
  /\ WF_vars(Driver)
  /\ WF_vars(DeviceTakesTx)
  /\ \A id \in 0 .. (TxSize - 1) : WF_vars(DeviceSends(id))

-----------------------------------------------------------------------------
SeqElems(s) == {s[n] : n \in DOMAIN s}

RxAvail == AvailSeq(rx, dev.rx.last)
TxAvail == AvailSeq(tx, dev.tx.last)

(* The descriptor taken from the free list whose index is not yet published *)
RxFilled ==
  IF pc \in {"fill_idx", "refill_idx"}
    THEN {rx.avail_ring[rx.avail_idx % RxSize]} ELSE {}
TxFilled ==
  IF pc = "tx_idx" THEN {tx.avail_ring[tx.avail_idx % TxSize]} ELSE {}

RxOut == RxFilled \cup SeqElems(RxAvail) \cup dev.rx.held \cup SeqElems(UsedSeq(rx))
TxOut == TxFilled \cup SeqElems(TxAvail) \cup dev.tx.held \cup SeqElems(UsedSeq(tx))

(* Type invariant.  After 0xFFFF was published a descriptor can be handed  *)
(* out twice, and num_free pass the size of the TX queue.                  *)
QueueType(q, size, Addrs) ==
  /\ q.size = size
  /\ q.addr \in [0 .. (size - 1) -> Addrs \cup {NULL}]
  /\ q.next \in [0 .. (size - 1) -> 0 .. (size - 1) \cup {NoDesc}]
  /\ q.free_head \in 0 .. (size - 1) \cup {NoDesc}
  /\ q.num_free \in 0 .. size
  /\ q.avail_ring \in [0 .. (size - 1) -> 0 .. (size - 1) \cup {NoDesc}]
  /\ q.used_ring \in [0 .. (size - 1) -> [id : 0 .. (size - 1), len : Lens]]
  /\ {q.avail_idx, q.used_idx, q.last_used_idx} \subseteq 0 .. (IdxMod - 1)

TypeOK ==
  /\ pc \in {"fill", "fill_idx", "fill_slot", "poll", "handle", "tx_idx",
             "refill", "refill_idx", "reap"}
  /\ cur \in 0 .. (RxSize - 1) /\ i \in 0 .. RxSize /\ replies \in 0 .. MaxReplies
  /\ QueueType(rx, RxSize, 0 .. (RxSize - 1))
  /\ overflowed \/ QueueType(tx, TxSize, Buffers)
  /\ heap \subseteq Buffers
  /\ dev \in [rx : [last : 0 .. (IdxMod - 1), held : SUBSET (0 .. (RxSize - 1))],
              tx : [last : 0 .. (IdxMod - 1), held : SUBSET (0 .. (TxSize - 1))]]
  /\ broken \in BOOLEAN /\ overflowed \in BOOLEAN

OnePlace(avail, held, used, filled) ==
  /\ \A m, n \in DOMAIN avail : avail[m] = avail[n] => m = n
  /\ \A m, n \in DOMAIN used : used[m] = used[n] => m = n
  /\ SeqElems(avail) \cap held = {}
  /\ SeqElems(avail) \cap SeqElems(used) = {}
  /\ SeqElems(used) \cap held = {}
  /\ filled \cap (SeqElems(avail) \cup SeqElems(used) \cup held) = {}

(* A descriptor is in one place: published once, or with the device, or    *)
(* finished, however often the 16-bit indices wrapped (for the TX queue:   *)
(* until 0xFFFF is published; after that a ring slot the device has not    *)
(* read can be overwritten).                                               *)
DescInOnePlace ==
  /\ OnePlace(RxAvail, dev.rx.held, UsedSeq(rx), RxFilled)
  /\ ~overflowed => OnePlace(TxAvail, dev.tx.held, UsedSeq(tx), TxFilled)

(* The free list of each queue is a well-formed chain of exactly the       *)
(* descriptors nobody else has.                                            *)
FreeListSound ==
  /\ \E chain \in [1 .. rx.num_free -> Descs(rx)] :
       IsFreeChain(rx, chain) /\ SeqElems(chain) = Descs(rx) \ RxOut
  /\ ~overflowed => \E chain \in [1 .. tx.num_free -> Descs(tx)] :
       IsFreeChain(tx, chain) /\ SeqElems(chain) = Descs(tx) \ TxOut

(* The device never owns the buffer the kernel is reading: descriptor n    *)
(* always names rx_buffers[n], and while a frame is handled its descriptor *)
(* is in no place the device looks at.                                     *)
RxBufferOwnership ==
  /\ \A n \in RxOut : rx.addr[n] = n
  /\ pc \in {"handle", "tx_idx", "refill"} => cur \notin RxOut

(* Back in the main loop every RX descriptor is with the device again: a   *)
(* runt, a full TX queue or a failed kmalloc costs no receive buffer.      *)
RxAllPosted == pc = "poll" => RxOut = Descs(rx) /\ rx.num_free = 0

(* What the device may still read is allocated, no buffer is queued twice: *)
(* net_tx_reaper frees each buffer once, and only after it was sent, and   *)
(* virtio_net.c:268 "Reclaims memory after packets are sent": a buffer     *)
(* that is not queued is free.  Until the TX queue overflows.              *)
TxBuffersExact ==
  ~overflowed =>
    /\ heap = {tx.addr[n] : n \in TxOut}
    /\ \A m, n \in TxOut : tx.addr[m] = tx.addr[n] => m = n

(* The RX queue implements the abstract virtqueue. *)
RxQueue == INSTANCE VirtQueueSpec WITH
  Desc <- 0 .. (RxSize - 1), free <- Descs(rx) \ RxOut, filled <- RxFilled,
  avail <- RxAvail, device <- dev.rx.held, used <- UsedSeq(rx)
RxQueueImplemented == RxQueue!Spec

(* Every receipt is consumed: a received frame's buffer is posted again.   *)
RxReposted ==
  \A n \in 0 .. (RxSize - 1) : n \in SeqElems(UsedSeq(rx)) ~> n \in SeqElems(RxAvail)

(* Every transmit buffer goes back to the heap, unless the TX queue        *)
(* overflowed.                                                             *)
TxReclaimed == \A b \in Buffers : b \in heap ~> b \notin heap \/ overflowed

-----------------------------------------------------------------------------
(* virtio_ring.h:34: the available ring is an "Array of descriptor         *)
(* indices (size = vq->size)": every published entry names a descriptor.   *)
TxRingNamesDescriptors == \A n \in DOMAIN TxAvail : TxAvail[n] \in Descs(tx)

(* virtio_ring.c:101-102 wants the "ring entry ... globally visible before *)
(* updating idx": the next entry the device reads is never a descriptor it *)
(* already has.                                                            *)
RxHandedOnce ==
  avail_pending(rx, dev.rx.last) > 0 =>
    device_reads(rx, dev.rx.last) \notin dev.rx.held \cup SeqElems(UsedSeq(rx))

=============================================================================
