------------------------------- MODULE MCBoot -------------------------------
(***************************************************************************)
(* Two device numbers on the bus.  Pages of 16 bytes, BAR windows of 64.   *)
(***************************************************************************)
EXTENDS Boot

Vacant ==
  [vendor |-> "FFFF", class |-> "", bar |-> [n \in BarNos |-> 0],
   kind |-> [n \in BarNos |-> "none"], queue_size |-> [q \in Queues |-> 2], used |-> FALSE,
   cap_head |-> 0, cap |-> <<>>, cyclic |-> FALSE, config_generation |-> 0,
   offers |-> {"MAC", "VERSION_1", "MRG_RXBUF"}, needs |-> {"VERSION_1"},
   ext_head |-> 0, ext |-> <<>>, stuck |-> {}]

BarsOf(a, b, c) == [n \in BarNos |-> <<a, b, c>>[n + 1]]

CapOf(id, type, offset, length, next) ==
  [id |-> id, type |-> type, bar |-> 1, offset |-> offset, length |-> length, next |-> next]

(* Another capability, then the banks, unaligned and across pages, and the *)
(* PCI access capability, which has no bank *)
Caps ==
  << CapOf("msix", "", 0, 0, 2),
     CapOf("vendor", "common", 4, 16, 3),
     CapOf("vendor", "isr", 20, 2, 4),
     CapOf("vendor", "device", 26, 8, 5),
     CapOf("vendor", "notify", 36, 4, 6),
     CapOf("vendor", "pci", 0, 0, 0) >>

(* An I/O BAR and a 64-bit one, neither with an address *)
Nic ==
  [Vacant EXCEPT !.vendor = "1AF4", !.cap_head = 1, !.cap = Caps,
                 !.bar = BarsOf(1, 12, 0), !.kind = BarsOf("io", "mem64", "high")]

(* Dwords where the walk looks: another capability, then legacy support *)
Hc ==
  [Vacant EXCEPT !.vendor = "8086", !.class = "xhci", !.bar = BarsOf(4, 0, 0),
                 !.kind = BarsOf("mem64", "high", "none"), !.ext_head = 1,
                 !.ext = <<[legacy |-> FALSE, next |-> 2], [legacy |-> TRUE, next |-> 0]>>]

MCFunctions ==
  [ none       |-> Vacant,
    bridge     |-> [Vacant EXCEPT !.vendor = "1B36"],
    other      |-> [Vacant EXCEPT !.vendor = "8086"],
    nic        |-> Nic,
    used       |-> [Nic EXCEPT !.used = TRUE],
    firmware   |-> [Nic EXCEPT !.bar = BarsOf(1, 12 + 128, 16)],
    nic32      |-> [Nic EXCEPT !.bar = BarsOf(8, 8, 8), !.kind = BarsOf("mem32", "mem32", "mem32")],
    zero_bar   |-> [Nic EXCEPT !.bar = BarsOf(0, 0, 0), !.kind = BarsOf("mem32", "mem32", "mem32")],
    no_notify  |-> [Nic EXCEPT !.cap[4].next = 6],
    no_device  |-> [Nic EXCEPT !.cap[3].next = 5],
    loop_caps  |-> [Nic EXCEPT !.cap[5].next = 3, !.cyclic = TRUE],
    generation |-> [Nic EXCEPT !.config_generation = 1],
    picky      |-> [Nic EXCEPT !.needs = {"VERSION_1", "MRG_RXBUF"}],
    no_rx      |-> [Nic EXCEPT !.queue_size[0] = 0],
    no_tx      |-> [Nic EXCEPT !.queue_size[1] = 0],
    hc         |-> Hc,
    hc32       |-> [Hc EXCEPT !.ext_head = 0, !.bar = BarsOf(64, 0, 0),
                              !.kind = BarsOf("mem32", "none", "none")],
    no_legacy  |-> [Hc EXCEPT !.ext[2].legacy = FALSE],
    loop_ext   |-> [Hc EXCEPT !.ext[2] = [legacy |-> FALSE, next |-> 1], !.cyclic = TRUE],
    keeps      |-> [Hc EXCEPT !.stuck = {"bios"}],
    no_reset   |-> [Hc EXCEPT !.stuck = {"hcrst"}],
    not_ready  |-> [Hc EXCEPT !.stuck = {"cnr"}] ]

Nics == {"nic", "used", "firmware", "nic32", "zero_bar", "no_notify", "no_device", "loop_caps",
         "generation", "picky", "no_rx", "no_tx"}

Pair(a, b) == [d \in DevNos |-> <<a, b>>[d + 1]]

(* Every network function with a controller, a second network function or  *)
(* nothing after it; everything else before a network function             *)
MCMachines ==
  {Pair(a, b) : a \in Nics, b \in {"hc", "nic", "none"}}
    \cup {Pair(b, a) : b \in DOMAIN MCFunctions \ Nics, a \in {"nic", "firmware"}}

MCAffinities == <<1, 0>>
=============================================================================
