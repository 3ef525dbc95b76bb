# A TLA+ verification of Aether WebOS

Aether WebOS (`src/AetherWebOS`) is a bare-metal AArch64 kernel in C: it brings up
memory, PCIe and a virtio network card, runs a small TCP/HTTP server in its main
loop, and shows a text portal on the serial console. This directory holds TLA+
modules for the parts that carry its logic, TLC configurations that check them on
small instances, and TLAPS proofs, for instances of every size, about the heap, the
virtqueues and their driver, TCP, the checksums, the mappings, the boot, ARP, the
console and a whole page load.
`PROJECT.json` lists the runs, the source lines behind every definition, the
theorems, the findings and the hazards.

Paths below are relative to `src/AetherWebOS`.

## 1. Inventory

The kernel is one thread plus one interrupt (the timer). What runs beside it is
the hardware: the virtio device reads and writes the rings at any moment. The
call chain of a received frame is

    kernel_main loop -> virtio_net_poll -> ethernet_handle_packet
      -> arp_handle | ipv4_handle -> tcp_input_process -> socket_dispatch
      -> tcp_send_segment -> ipv4_send -> ethernet_send -> TX virtqueue

and `net_tx_reaper`, called after every poll, gives the frames' buffers back to
the heap.

| Part | State | Operations | What is hard | Correct means |
|---|---|---|---|---|
| Heap (`memory.c`) | block list, `heap_ptr` | `kmalloc`, `kfree` | reuse after long sequences, exhaustion, no coalescing | regions never overlap, blocks are recycled |
| Device mappings (`memory.c`, `mmu.c`) | `vmalloc_ptr`, L3 tables | `vmalloc`, `ioremap`, `mmu_map_region` | unaligned banks, the end of the pool | every register translates, mappings stay apart |
| Virtqueue (`virtio_ring.c`) | free list, three rings, 16-bit indices | init, add, push, pop | the device runs concurrently; wrap-around | a descriptor is in one place |
| Network driver (`virtio_net.c`, `ethernet.c`) | two queues, RX buffers | prefill, poll, refill, send, reap | store order, full queue, completions out of order | no buffer lost, doubled, or freed early |
| TCP + HTTP (`tcp/*.c`, `socket.c`) | TCB list, ISN counter | one handler per segment, sends | any segment at any time, a send that fails half way, sequence wrap | one TCB per 4-tuple, one answer per request |
| IPv4 and checksums (`ipv4.c`, `tcp_checksum.c`) | error counters | `ipv4_handle`, `ipv4_send` | byte order, odd lengths, double carry | correct packets pass, damaged ones do not |
| ARP (`arp.c`) | cache of 4 | `arp_handle` | full cache, probes, MAC changes | entries are unique and current |
| Main loop and console (`kernel.c`, `portal.c`) | mode, escape parser | refresh, key, poll | keys between refreshes, broken sequences, starvation of the poll | keys work, screen follows mode, network is served |
| Health (`health.c`) | counters | updated by the layers above | two layers count the same event | counts are exact |
| PCIe scan (`pcie.c`) | BARs, `next_pci_mem_addr` | probe, match a driver, assign BARs, call the driver | BARs firmware assigned, 64-bit BARs, several functions | a bank reaches the device it belongs to, and no other |
| virtio-pci and handshake (`virtio_pci.c`, `virtio_net_init`) | vdev, device status, queue registers | capability walk, reset, negotiation, binding of the queues | missing banks, DRIVER_OK before the queues, unbounded waits | the card is started completely, its queues ready before they are enabled |
| xHCI (`xhci.c`) | ownership, run and reset bits | claim, stop, reset | three countdowns against slow or silent hardware | what is reported is what was read; the boot goes on |
| Interrupts (`gic.c`, `timer.c`, `exception.c`, `vectors.S`) | redistributor, timer, masks | `gic_init`, `timer_init`, the IRQ path | an edge at any instruction, masked or in the handler | the uptime never stops |
| UART, utils, IPv6, PSCI, boot code | - | register programming, printing | - | not modelled: no logic of their own, see section 6 |

`backups/` is not built by the Makefile, and `src/aethernxt` is an unfinished Rust
stub without state.

## 2. Modules

| Module | Models | Composition |
|---|---|---|
| `HeapSpec` | what the heap promises its clients | abstract |
| `Kmalloc` | `kmalloc`, `kfree` | implements `HeapSpec` |
| `KmallocProofs` | theorems about `Kmalloc` | extends `Kmalloc` |
| `VirtQueueSpec` | what a virtqueue promises: a descriptor goes free, filled, available, device, used, free | abstract |
| `VirtioRing` | `virtio_ring.c` as operators on a queue record | used by `VirtioNet` |
| `VirtioNet` | `virtio_net.c` and `ethernet_send` with the device | extends `VirtioRing`; its RX queue implements `VirtQueueSpec` |
| `Tcp`, `MCTcp` | `tcp.c`, `tcp_input.c`, `tcp_output.c`, `socket.c`, `health_update_tcp_stats` | |
| `Ioremap` | `vmalloc`, `ioremap`, `mmu_map_region` | extended by `Pcie` |
| `Pcie` | `pcie.c` | extends `Ioremap`: the drivers map banks of the BARs it assigned |
| `VirtioPci` | `virtio_pci.c`, `virtio_net_init`, `virtio_net_setup_queues`, `virtio_pci_bind_queue` | extends `Pcie` |
| `Xhci` | `xhci.c` | extends `Pcie` |
| `Irq` | `gic_init`, `timer.c`, the IRQ vector and `handle_irq_exception` | extends `Pcie` |
| `Boot`, `MCBoot` | `kernel_main` up to its loop | composes `VirtioPci`, `Xhci` and `Irq` over one `Pcie` and one `Ioremap` |
| `IpInput`, `MCIpInput` | `ipv4.c`, `tcp_checksum.c`, up to the TCB lookup | |
| `Arp` | `arp.c` | extended by `PageLoad` |
| `PageLoad`, `MCPageLoad` | a client loading a page over a link that loses frames | composes `Arp` and an instance of `Tcp` |
| `Console` | the main loop of `kernel_main` | |
| `NumberLemmas` | products, division, remainders, least elements | used by the proofs below |
| `VirtioNetProofs`, `TcpProofs`, `IpInputProofs`, `ConsoleProofs` | theorems about the module named | each extends it |
| `BootProofs` | theorems about `Ioremap`, and about `Boot` and the modules it composes | extends `Boot` |
| `PageLoadProofs` | theorems about `Arp` and about `PageLoad` | extends `PageLoad` |

How state and steps correspond to the code:

- **Kmalloc.** `free_list` is the C list as a sequence, newest block first. A call
  of `kmalloc` is `KmallocReuse`, `KmallocBump` or `KmallocExhausted`; `Kfree`
  marks the block. `live` (the regions clients hold) and `peak` are history.
  Clients are disciplined: they free what they hold, once. No caller in the
  repository passes sizes near `SIZE_MAX`, so the model does without the wrap of
  `size + 7`.
- **VirtioRing / VirtioNet.** A queue record joins `struct virtqueue` and the
  shared rings. `virtqueue_push_available` is two steps, because the device can
  look between the slot and the index; `dsb st` keeps them in order. The prefill
  loop has no barrier, so with `PrefillOrdered = FALSE` the stores may also become
  visible the other way round. `pc` follows the kernel through prefill, poll,
  handling, refill and reaper. What a handler does is any number of calls of
  `ethernet_send` up to `MaxReplies`. The device (external) takes available
  entries in order and finishes them in any order; a used receipt is atomic for
  it. An entry that names no descriptor stops the device, as QEMU does.
- **Tcp.** A handler call is one action per branch of `tcp_input_process`; the
  whole chain of sends it makes (dispatch, data, FIN, ACK, second ACK, second FIN)
  is computed on a work record, and `fails` says at which of them `kmalloc`
  returned NULL. Peers are unconstrained. TCB fields `iss`, `fins` and `answers`
  are history, and so is `again`: it alternates when a handler call sends exactly what
  the last one sent, so that no call that sends is a step that changes nothing. `tcp_global_isn` is declared in
  `tcp_internal.h` and defined nowhere, so its first value is a constant.
- **Ioremap.** `l3_pool` as a function of table and entry; `Translate` is the
  hardware's walk. The static part of the tables is assumed.
- **Pcie.** `dev` is the scan's loop variable; an action per function: empty slot,
  no driver, driver. A driver's init runs to its end before the scan goes on
  (`GoTo` its first step, `Return` at its last). A BAR register is a number with
  its type bits; `machine` is the hardware, fixed in a behaviour and free in Init.
- **VirtioPci.** One action per capability, then one per register write the device
  can act on: reset, the wait, negotiation, DRIVER_OK, and per queue select,
  format, bind, enable. `vio` is the device's side, with what firmware left in it;
  `vdev` and `vq` the driver's. The status is written and read as a 32-bit word, so
  `StatusWordZero` also asks for the two registers beside it. `owner` (for which
  function `rx_queue` and `tx_queue` were formatted) and `told` (how many receive
  buffers were published when the device's doorbell was last written) are history.
- **Xhci.** One action per read of a polled register. `last` and `said` are history.
- **Irq.** The timer's interrupt is edge triggered, as `gic_init` sets it. While the
  handler runs, the actions of `kernel_main` are disabled.
- **Boot.** `pc` is where `kernel_main` is; devices, redistributor and timer answer
  in between.
- **PageLoad.** The client (external) repeats what is not acknowledged. A frame the
  kernel receives is taken (`KernelTakes`: one call of `arp_handle` or
  `tcp_input_process`) or, if it is a segment, dropped by the header test of
  `ipv4.c:71` or by `tcp_validate_checksum` (`KernelDrops`). What decides between the
  two is in `IpInput`; here both can happen. Neighbours' ARP packets arrive in between.
- **IpInput.** Bytes and words as such, since byte order is what can be wrong.
  The IPv4 header is cut down to length, addresses and checksum; the fields left
  out are constants of `ipv4_send` and enter the sum like the others.
- **Arp.** One action per packet; `latest` is history.
- **Console.** One turn of the loop is refresh, key, poll; each `continue` goes
  back to the refresh. `screen` is what the terminal shows; `typed` (how much of a
  function key's sequence was typed last) and `clean` (whether `num` was 0 when it
  began) are history.

## 3. What the runs check

Passing runs (all with the deadlock check on):

| Run | Shows |
|---|---|
| `kmalloc` | `HeapInv` (inductive), `NoOverlap`, `RecyclingBound`, and the refinement `HeapSpecImplemented` |
| `virtio_rx` | `DescInOnePlace`, `FreeListSound`, `RxBufferOwnership` (the device never owns the buffer being read), `RxAllPosted`, and the refinement `RxQueueImplemented` |
| `virtio_tx` | `FreeListSound`, `TxBuffersExact` (each heap buffer freed once, after it was sent), and the liveness properties `RxReposted` and `TxReclaimed` |
| `tcp` | `UniqueTuple`, `SeqRangesDisjoint` across the wrap, `OnlyClosedLeaves`, `AtRest` (CLOSE_WAIT never survives a handler, so the only branch that handles RST is dead), `AnsweredOnce`, `SentInOrder` (each segment numbered right after everything sent before, within a handler call as well; no payload after a FIN), with `kmalloc` failing anywhere |
| `boot` | `MappedBanksTranslate` (the mappings the drivers ask for), `BanksReachTheirDevice` (through page tables and BARs), `EnabledQueueIsReady`, `NicStarted` (with the doorbell after the fill), `ReportedAsSeen`, and the liveness properties `BootEnds` and `UptimeAdvances` |
| `console` | `FunctionKeysWork`, `ScreenNotStale`, the liveness property `NetworkPolled`, and `NewModeDrawn`: a mode entered from another is drawn, and one that was drawn last and is entered again is not (`StaysBlank`) |
| `ip_input` | `HeaderSumIsInternet`, `OwnPacketsDelivered`, `DamageNotDelivered` |
| `page_load` | `CacheCurrent`, `SendersCached` (a sender is learned as long as there is room), and the liveness properties `PageLoaded` and `TcbReclaimed`, under the assumption `TakenSpec` below |

Where the code does something else than a document or comment says, the statement
is a property of its own and TLC finds the counterexample:

| Run | Statement | What the code does |
|---|---|---|
| `virtio_tx_overflow` | ring entries are descriptor indices | 0xFFFF is published when no descriptor is free |
| `virtio_prefill` | entry visible before idx | no barrier in the prefill |
| `tcp_segment_leak` | the reaper frees the segment buffer | it frees the copy `ethernet_send` made |
| `ip_peer_header` | header checksums are verified | a correct header of another host is dropped |

On the checksums: the two sides of this code agree with each other
(`OwnPacketsDelivered`) but not with the RFCs. `ipv4_checksum` itself is right
(`HeaderSumIsInternet`); the comparison and the store miss a byte swap.

Two conditions the passing runs rest on. `virtio_rx` sets `PrefillOrdered`: the
stores of the prefill become visible in program order, which the code does not
enforce; `virtio_prefill` is the run without it. Properties of the TX queue hold
until it overflows; the history variable `overflowed` marks the states after the
step that `virtio_tx_overflow` shows. `virtio_rx` has more buffers than TX
descriptors, so it goes on after the overflow and shows that no receive buffer is
lost by it; `virtio_tx` has as many buffers as descriptors, the largest
instance whose liveness properties TLC decides quickly.

What the machines of `boot` leave out, because the code does not handle it: a
32-bit BAR that reads 0 under the xHCI driver (the scan skips it, although
`pcie.c:20` speaks of zeroed BARs, and `xhci_init` maps physical address 0), an
upper half of a 64-bit BAR with a value from 1 to 15 (`pcie.c:79` takes it for an
unassigned BAR), BARs larger than the stride of 1 MB (sizes are not probed), and
firmware addresses inside the pool. `MachineAssumption` of `Boot` states these
conditions, and that a capability's bank lies inside a memory BAR; TLC evaluates it
on the machines of the run, and the theorems about the banks rest on it. Two network functions are included; the
second one formats the static queues of the first (matching is by vendor alone,
`pcie.c:72`), so `EnabledQueueIsReady` and `NicStarted` are stated for machines with
one. `NicStarted` also leaves out what `Unusable` names (a refused negotiation, a
receive queue of size 0: there `virtio_net_init` gives up and `global_vnet_dev` stays
set), and claims the doorbell only where the notify bank was mapped: without one
the driver goes on (`virtio_pci.c:93`) and the device is never told.
`Stopped` names the three ways a device holds the boot for ever: a cyclic
list of capabilities or of extended capabilities, and a `config_generation` that
is not 0 while the driver waits for the 32-bit word to read 0. `BootEnds` is
claimed of all other machines; on these three the code waits for ever, and nothing
here says otherwise.

`page_load` shows how far a kernel without timers gets. Its liveness properties are
conditional: `TakenSpec` assumes that what the client repeats gets past the link
and past the two checksum tests as often as needed. The code does not give this. A
client that computes both checksums as this kernel does passes the tests
(`OwnPacketsDelivered`); one that follows the RFCs fails the header test unless the two
bytes of its checksum are equal, which `ip_peer_header` shows, and of such a client
no progress is claimed: it may never load the page. The run shows that nothing
*else* is in the way: under that assumption any loss towards the kernel is repaired
by the client. When the third segment of the handshake is lost, the
request establishes the connection and its bytes are dropped; the repeated
request is answered. Loss in the other direction is never repaired: a repeated SYN is
ignored in SYN_RECEIVED, so a lost SYN-ACK leaves the client waiting and the TCB
in the list; the run therefore assumes that what the kernel sends arrives.

Noticed while modelling, and not a run of its own:

- the heap usage shown is always 0, since `heap_current_ptr` is never assigned
  (`memory.c:125`; `README.md:40`, `:193` promise memory tracking);
- received and sent frames are counted by the ring and again by the driver, and
  `buffer_usage` is decremented twice per sent frame (`virtio_ring.c:188-194`,
  `virtio_net.c:251`, `:291`, `:295`). The counters decide nothing, so they are
  left out of the model;
- any ACK establishes a half-open connection (`tcp_input.c:78`; `README.md:144`
  "ACK validation"), and a FIN sets `rcv_nxt` whatever its number
  (`tcp_input.c:103`; `README.md:145` "Sequence validation");
- `is_http_get` is never called: all data is answered (`socket.c:59`;
  `README.md:171`);
- in `tcp_compute_checksum` the addresses have the other byte order than the rest
  of the sum (`tcp_checksum.c:46`), so a correct segment of a peer fails too;
- F7 and F10 are lost after an escape sequence that did not end with `~`, because
  `num` keeps its digits (`kernel.c:186`, `:217`); `FunctionKeysWork` states the
  condition under which they work;
- entering the mode drawn last (F7 twice, F1 twice, or another mode in between that
  no refresh saw) leaves a blank screen: the key clears it (`kernel.c:176`, `:198`) and
  the refresh, which finds `last_mode` equal, draws nothing (`kernel.c:102`, `:131-141`).
  Only the dashboard is drawn again. `StaysBlank`, a part of `NewModeDrawn`, states this;
- without a notify bank the doorbell is written through NULL and the device is never
  told of its buffers (`virtio_pci.c:93`, `virtio_ring.c:27`);
- nothing returns to the portal although the dashboard prints "[ESC] Main Portal"
  (`kernel.c:154`, `portal.c:133`);
- a sender is not learned once the ARP cache is full (`arp.c:25`);
- the dashboard advances `cur` before it reads `cur->state` (`portal.c:121-124`),
  so with any TCB in the list its last read goes through NULL;
- `global_vnet_dev` is set before `virtio_net_init`, and stays set when that fails
  (`virtio_pci.c:95`);
- the header put before a sent frame is `sizeof(struct virtio_net_hdr)`, 10 bytes,
  while the receive side skips 12 bytes and subtracts 10 from the length
  (`ethernet.c:20`, `virtio_net.c:226-232`);
- the device id of `driver_registry` is never compared (`pcie.c:72`);
- an xHCI extended capability's next pointer is counted from the base and not from
  the capability it is in (`xhci.c:57`), and HCRST is set after a fixed delay
  without reading HCHalted (`xhci.c:111`);
- a SYN that arrives late, after its client has gone, leaves a TCB in SYN_RECEIVED
  for ever (`tcp_input.c:48`); `health_check_syn_timeouts` is declared and defined
  nowhere (`health.h:24`).

## 4. Bounds

| Bound | Value | Why it is enough |
|---|---|---|
| `HEAP_SIZE`, `Sizes` | 136 bytes; 0, 5, 12 | up to five blocks: reuse of an exact, a larger and no block, and exhaustion, all at once. The theorems need no bound |
| `RxSize`, `TxSize`, `IdxMod` | 1-2, 1-2, 4 | two descriptors complete out of order; indices wrap every second turn; 2^16 is a multiple of the queue size, as in the code |
| `Buffers`, `MaxReplies` | 2 (3 in `virtio_tx_overflow`), 1-2 | more frames than TX descriptors in `virtio_rx` and `virtio_tx_overflow`, as many in `virtio_tx`; `kmalloc` fails when all are in use |
| `Conns`, `MaxOpen` | 2 listening and 1 other, 3 | a 4-tuple is opened again while another lives; the middle of the list is removed |
| `SEQ_MOD`, `FirstIsn`, `ISN_STEP`, `RESP` | 18, 16, 5, 2 | the first connection already wraps; `RESP + 3 <= ISN_STEP` as 1000 and the response of some 250 bytes have it |
| `Segments` | five flag sets, numbers 0-2 with payload, 0-1 with FIN, 0 otherwise; payload 0-1 | in order, repeated, too early; data with FIN. The numbers left out decide nothing: without payload and FIN no branch reads the number, and a FIN is taken whatever it is |
| `PAGE_SIZE`, `ENTRIES`, `TABLES` | 16, 4, 2 | banks start inside a page, cross pages and tables; the pool runs out |
| `Devs`, `Bars`, `Machines` | 2, 3, every network function with another after it, every other function before one | addresses of a second function follow those of a first; the third BAR is the upper half of the second |
| `PCI_POOL`, `PCI_STRIDE`, `DWORD` | 256, 64, 1024 | windows of four pages; 64-bit addresses above all 32-bit ones |
| `Functions` | 22 kinds | BARs without, with firmware's and with 64-bit addresses, missing and cyclic capabilities, refused features, empty queues, silent controllers |
| `XHCI_TIMEOUT`, `XHCI_BANK` | 2, 32 | a bit clears before, at and after the last read |
| `Affinities`, `UPTIME_END` | two redistributors, ours second; 30 | the search goes on once; the uptime wraps |
| `LinkCap`, `DownCap` | 2, 1 | an ACK and the request are on their way together; the kernel answers with several segments at once |
| `BYTE`, `MaxSeg` | 4, 3 | odd and even lengths; folds that carry again |
| `ARP_CACHE_SIZE`, hosts | 2, 3 | one host too many, and one that changes its MAC |
| `Chars`, `NumMax` | the keys of the parser, 218 | the sequences of F1, F7, F10 and broken ones |

Symmetry: only `tcp` uses it, over the two listening 4-tuples, which the
code only compares for equality; its properties are safety properties.

## 5. Fairness

- `VirtioNet!FairSpec` (run `virtio_tx`): weak fairness of the driver (the main loop never blocks
  and is never preempted for good), and of the device reading the TX ring and
  sending each frame it took. Frames need not arrive.
- `Console!FairSpec` (run `console`): weak fairness of the loop and of the timer (an interrupt the
  handler re-arms, `timer.c:28`), and strong fairness of `NoKey`: a person does not
  type so fast for ever that each turn of the loop finds a character. This is an
  assumption on the user: under keys that never pause the `continue` statements do
  starve the network, and `NetworkPolled` does not say otherwise.
- `Boot!BootSpec` (run `boot`): weak fairness of the core (it executes), of a virtio
  device finishing a reset, of the redistributor waking and of a running timer
  expiring. The BIOS and the xHCI controller owe nothing: their waits are bounded.
- `PageLoad!PLSpec`: weak fairness of the client repeating itself
  and receiving, and of the kernel receiving a frame: the main loop polls in every
  turn that reads no key (`console`). `PageLoad!TakenSpec` (run `page_load`) adds strong
  fairness of `KernelTakes`. That is no fairness of the code but an assumption on link
  and client: of frames offered again and again some arrive and pass both checksum
  tests. Section 3 says of which clients it is not true. The theorems are about `PLSpec`
  and need none of it.

## 6. Proofs, and what is left to TLC

Every safety property of the passing runs is a theorem, for every value of the
constants its assumptions allow. An invariant that is not inductive is proved
through a stronger one that is; these are named below. Eight further theorems
state no property of a run: they say what the liveness properties leave open (that
nothing wrong happens on the way), that mappings share no page, and that the
page load implements the two modules it composes.

### What is proved

| Module | Theorem | States |
|---|---|---|
| `KmallocProofs` | `TypeCorrect` | `Spec => []TypeOK` |
| | `HeapInvariant` | `Spec => []HeapInv` |
| | `NoOverlapAlways` | `Spec => []NoOverlap` |
| | `KmallocImplementsHeap` | `Spec => HeapSpecImplemented` |
| | `RecyclingAlways` | `Spec => []RecyclingBound` |
| `VirtioNetProofs` | `TxBuffers` | `Spec => []TxBuffersExact` |
| | `TypeCorrect` | `PrefillOrdered`: `Spec => []TypeOK` |
| | `OnePlaceOnly` | `PrefillOrdered`: `Spec => []DescInOnePlace` |
| | `FreeListExact` | `PrefillOrdered`: `Spec => []FreeListSound` |
| | `RxBuffersOwned` | `PrefillOrdered`: `Spec => []RxBufferOwnership` |
| | `RxBuffersPosted` | `PrefillOrdered`: `Spec => []RxAllPosted` |
| | `RxQueueRefines` | `PrefillOrdered`: `Spec => RxQueueImplemented` |
| `TcpProofs` | `TypeCorrect` | `Spec => []TypeOK` |
| | `OneTcbPerConnection` | `Spec => []UniqueTuple` |
| | `ThreeStates` | `Spec => []AtRest` |
| | `NoSecondAnswer` | `Spec => []AnsweredOnce` |
| | `NumbersNeverShared` | `Spec => []SeqRangesDisjoint` |
| | `OnlyClosedConnectionsLeave` | `Spec => OnlyClosedLeaves` |
| | `InOrder` | `Spec => SentInOrder`: without gap or overlap, within a handler call as well |
| `IpInputProofs` | `ChecksumIsInternet` | `Spec => []HeaderSumIsInternet` |
| | `OwnPacketsArrive` | `Spec => []OwnPacketsDelivered` |
| | `DamageIsSeen` | `Spec => []DamageNotDelivered` |
| `BootProofs` | `TypeCorrect` | of `Ioremap`: `Spec => []TypeOK` |
| | `BanksTranslate` | of `Ioremap`: `Spec => []MappedBanksTranslate`, for banks of any address and size |
| | `MappingsStayApart` | of `Ioremap`: `Spec => []MappingsApart`: no two mappings share a virtual page |
| | `BootMappingsApart` | `BootSpec => []MappingsApart` |
| | `BootBanksTranslate` | `BootSpec => []MappedBanksTranslate` |
| | `BanksReachTheDevice` | `BootSpec => []BanksReachTheirDevice` |
| | `ReportsAreSeen` | `BootSpec => []ReportedAsSeen` |
| | `QueuesAreReady` | `BootSpec => []EnabledQueueIsReady`: machines with one virtio function |
| | `NicIsStarted` | `BootSpec => []NicStarted`: machines with one virtio function, not `Unusable` |
| | `TicksAreKept` | `BootSpec => []TickNotLost`: in the loop, an expiry of the timer is signalled or pending until it is served |
| `PageLoadProofs` | `TypeCorrect` | of `Arp`: `Spec => []TypeOK` |
| | `CacheIsCurrent` | of `Arp`: `Spec => []CacheCurrent` |
| | `EveryoneCached` | of `Arp`: `Spec => []SendersCached` |
| | `ResponseIsWhole` | `PLSpec => []WholeResponse`: whatever is lost and repeated, a client at the end has the response, whole and once |
| | `ClosedLeavesNoTcb` | `PLSpec => []NoTcbLeft`: no TCB is left of a client that is closed |
| | `LoadIsArp`, `LoadIsTcp` | `PLSpec => Spec` and `PLSpec => T!Spec`: the composition implements `Arp` and `Tcp` |
| | `LoadCacheIsCurrent`, `LoadEveryoneCached` | `PLSpec => []CacheCurrent`, `PLSpec => []SendersCached` |
| `ConsoleProofs` | `FunctionKeys_Work` | `Spec => []FunctionKeysWork` |
| | `ScreenIsCurrent` | `Spec => []ScreenNotStale` |
| | `EnteredTwiceStaysBlank` | `Spec => StaysBlank`: a mode drawn last and entered again is not drawn |

### From which assumptions

Each is an `ASSUME` of the module that declares the constants, evaluated by TLC on
every run.

| Assumption | Says | Because |
|---|---|---|
| `HeapAssumption` | the heap does not start at address 0, a header is not empty | NULL means failure (`memory.c:45`) |
| `NetAssumption`, `IdxAssumption` | a queue's size divides the number of values of an index, and is smaller | sizes are powers of 2, indices 16 bits wide |
| `TcpAssumption`, `SegmentAssumption` | segments have fields of their types; a response with a SYN and two FINs takes fewer numbers than `ISN_STEP`; the connections opened do not go round the number space (`MaxOpen`) | `tcp_global_isn += 1000`, and the page is some 250 bytes. Without the second, numbers of an old connection do come back: after 4 million connections |
| `IoremapAssumption` | pages and tables are not empty, and the L3 tables have their entries in one L2 table | 4 tables of 512 entries |
| `PcieAssumption`, `XhciAssumption`, `IrqAssumption` | sizes, strides and countdowns are positive; pool and stride are multiples of 16; there is a redistributor | their values in the code; the GIC of the machine |
| `VirtioAssumption`, `MachineAssumption` | what hardware and firmware leave the kernel with, see section 3 | conditions of the code on its machine, not facts about the code |
| `IpAssumption` | a byte has two values at least, addresses have four bytes, the protocol number one | the formats of `ipv4.h` |
| `PageLoadAssumption` | what `TcpAssumption` says of the numbers; the client has an address and a MAC, and no neighbour uses its address | one host per address |
| `ArpAssumption`, `ConsoleAssumption` | address 0 is no host's; the characters are those the parser tells apart | 0 marks an empty entry (`arp.c:26`) |

`PrefillOrdered` is a hypothesis of six theorems and not an assumption of the
module: the prefill has no barrier between ring slot and index, and the run
`virtio_prefill` shows the device reading a slot not yet written. The theorems say
what holds once the stores arrive in order, as the `dsb st` of
`virtqueue_push_available` makes them everywhere else. `TxBuffers` needs no such
hypothesis: nothing is prefilled there.

### Along which argument

**Heap.** `NoOverlap` is not inductive, because it does not say why a block marked
free is nobody's. `HeapInv` adds that: blocks tile the used part of the heap
(`BlocksTile`), every region held is the data of exactly one block in use
(`LiveOwnBlocks`), and every block in use is held (`UsedBlocksLive`). Reuse keeps
it since a free block is held by no one; bump since the new block lies above all
others; `kfree` since distinct blocks have distinct addresses (`AddrInjective`).
Disjointness then follows from the order of the blocks. The refinement maps `live`
to itself: each `kmalloc` that succeeds is an `Alloc`, each `kfree` a `Free`,
exhaustion a stutter. For `RecyclingBound`, a new block of some size is made only
when no block of at least that size is free; so all blocks of that size are held
at that moment, and their number is at most the number of regions held
(an injection from blocks to regions).

**Virtqueue and network driver.** That a descriptor is in one place says nothing yet
of the indices, which wrap. The proof has three layers. A `Window` is a stretch of
a ring between two wrapping indices; publishing, taking and receiving write behind
a window or move one of its ends, and leave the rest of it alone as long as it is
no longer than the ring. `Places` states the property over the sequences read off
the windows, and one lemma per move (fill, publish, take, complete, pop) keeps it;
`Chained` says the free list is exactly the rest. `RxInv` and `TxInv` tie both to
the place the driver is at: during prefill the first `i` buffers are out, between
`Refill` and its publication one descriptor is filled, and each buffer is where
its descriptor is. The windows are never longer than the ring because their
descriptors are distinct. `TxInv` holds until the overflow, as the property does.
For the refinement each of these moves is a step of `VirtQueueSpec` on the places
(`View`), and everything else a stutter.

**TCP.** `TcpInv` is `UniqueTuple`, that every TCB is `Sound`, and `NumbersGiven`. A
TCB at rest is in one of three states, with an offset from its initial number
that its state bounds, and one that has not reached LAST_ACK has neither answered
nor sent a FIN. Two connections have initial numbers a multiple of `ISN_STEP` apart,
and no offset reaches `ISN_STEP`, so modulo the width their ranges are disjoint.
A handler's chain of sends (`Work`) is followed one send at a time, failing or not:
`Progress` says of each link that the segments sent so far are numbered without gap from
where the handler began (`Contiguous`), that `snd_nxt` comes right after the last one, and
that it is the initial number plus the offset. A send that fails appends nothing
and moves nothing (`AppendContiguous` is the step that succeeds).
The two action properties follow from the same invariant: only `Close` shortens
the list; and in a step that sends on one connection, that connection is the only
one whose numbers move (`SpeakingLemma`, `SilentLemma`), as no two have one 4-tuple.

**IPv4 and checksums.** The sums are recursive functions. What they compute cannot be
proved with an induction theorem here, since no prover instantiates its operator
parameter; instead induction is a fact about sets: a nonempty set of naturals has a
least element, so the set of places up to which a statement holds is all of them
(`UpTo` in `NumberLemmas`). `OnesSum`, the sum modulo `WORD - 1` that is 0 only for 0,
solves the equation of the loop of folds, and is its only solution, for each fold
makes a sum that is too long smaller. A checksum completes a sum to a multiple of
`WORD - 1` that is not 0, and such sums are the ones that validate. One damaged byte changes
the sum by less than `WORD - 1` and not by 0, so it is no multiple any more. `IpInv`
says that a packet of this kernel is as `ipv4_send` made it until it is damaged, and
does not validate after. Sums have no width here; those of the code have 32 bits,
which some 128 KB of data are needed to fill.

**Mappings.** `MapInv` says that `vmalloc_ptr` is a page's start, that everything
handed out lies below it, `MappedBanksTranslate`, and that no mapping begins in a page
of another (`MappingsApart`). Pages of the region have
different table entries (`PageSlot`), by the laws of division, so a new mapping
changes no entry of an earlier one; the one just made translates because each of
its pages was written with the page of the physical range at the same distance.

**Boot.** All invariants rest on `PlaceInv`: which function is being brought up at
each place of the kernel. `WaitInv` (for `ReportedAsSeen`) relates each countdown
to the last read: at 0 the bit was still set, above 0 it was seen clear, before any
report of it. `NicInv` (for `EnabledQueueIsReady`, `NicStarted`) says what the
device and the driver have reached at each place, with the queue registers selected
there; the doorbell is written at a place where the ring is already full, so `told` is
the queue's size from then on. `BarInv` says that a probed function's memory BARs have addresses, below
the pool's pointer or firmware's, and that all windows are apart; `BankInv` that a
bank asked for lies in such a window and is mapped. With `MapInv`, now kept by every
step of the boot, an address goes through the page tables to its register, and by
`BarInv` no other window holds that address.

**Timer.** `IrqInv` says where the edge of an expiry is at each place of the handler:
pending before it is acknowledged, active until the timer is armed again, pending
behind the active interrupt if it expires between that and the end of interrupt. With what
`gic_init` has set up by then (`FrameFound`) the signal reaches the core in every
case, which is what `UptimeAdvances` needs fairness for, and no more. It holds for
cores that have a redistributor; without one `gic_init` sets up another core's.

**ARP.** `CacheInv`: entries in use come first, each is of a host that has spoken,
and only a full cache leaves a host out. So a host's own entry is found before an
empty one is, which is what keeps entries unique. `SendersCached` counts: hosts no
more than entries and all entries in use by different hosts leave none out.

**Page load.** `LoadInv` counts how far the client (`c`) and the kernel (`k`) have got,
five stages each, and says how far apart the two can be (`InStep`). Losses and repetitions
move neither. The link keeps the order (`UpOk`: no SYN behind an ACK), which is
why a repeated SYN never comes after the TCB is gone and opens nothing; on the way
down are, in the order of their sequence numbers, just the segments the client has
not had (`DownOk`), then resets. So each segment that arrives is the next one, or one
that changes nothing. A reset is sent only without a TCB, which is all a closed
client has seen (`ClosedLeavesNoTcb`). Each step of the kernel is proved to be the
branch of `tcp_input_process` that belongs to its stage, and `LoadInv` also gives that
frames are packets of `Arp` and segments of `Tcp`, hence the two refinements;
`TcpAssumptionsHold` says that the assumptions of `Tcp` hold of this use of it.

**Console.** `SequenceInv` relates how much of a function key's sequence was typed to
the parser's state, `num` included. `ScreenNotStale` is inductive by itself, and `StaysBlank` a
fact about single steps.

### Only model-checked

- Liveness and fairness, which TLAPS does not reach here (and ENABLED, which
  fairness needs): `RxReposted`, `TxReclaimed`, `BootEnds`, `UptimeAdvances`,
  `NetworkPolled`, `NewModeDrawn`, `PageLoaded`, `TcbReclaimed`.
  Theorems state the safety half of some: `RxBuffersPosted`, `TxBuffers`,
  `TicksAreKept`, `EnteredTwiceStaysBlank`, `ResponseIsWhole`, `ClosedLeavesNoTcb`.
- The four runs that show a violation.

### Not modelled

What is printed (`uart.c`, `portal.c`, `utils.c`, the JSON of
`health.c`), IPv6 (it only prints), synchronous exceptions (they print and hang),
the GICv2 branch of another board, cache and TLB maintenance, `kernel_shutdown`
and with it `virtio_pci_reset` (called by nothing), PSCI, boot assembly, the WebUI
proxy.

## 7. Plan

Done: heap with proofs, virtqueue and network driver, TCP, IPv4 and checksums, ARP,
device mappings, console; then PCIe, virtio-pci with the handshake, xHCI and
interrupts composed in `Boot`, and ARP with TCP and a client in `PageLoad`.

Proved: every safety property that a passing run checks, the refinements
`HeapSpecImplemented` and `RxQueueImplemented`, and that `PageLoad` implements `Arp` and
`Tcp`.

Left:

1. `Tcp` over `Kmalloc`: how many requests the heap lasts for, with the segment leak
   and the unenforced `TCP_MAX_CONNS`.
2. The number formatting of `utils.c` and `uart.c`, as functions on digits.
