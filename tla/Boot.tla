-------------------------------- MODULE Boot --------------------------------
(***************************************************************************)
(* kernel_main up to its main loop (src/AetherWebOS/src/kernel/kernel.c):  *)
(* the PCI scan (Pcie) with the drivers it calls (VirtioPci, Xhci) over    *)
(* the device mappings (Ioremap), then the interrupts (Irq), with the      *)
(* devices answering in their own time.                                    *)
(***************************************************************************)
EXTENDS VirtioPci, Xhci, Irq

boot_vars == <<pc, dev, machine, pcie_vars, ioremap_vars, virtio_vars, xhci_vars, irq_vars>>

BootInit == PcieInit /\ VirtioInit /\ XhciInit /\ IrqInit

Kernel ==
  \/ PcieStep /\ UNCHANGED <<virtio_vars, xhci_vars, irq_vars>>
  \/ VirtioStep /\ UNCHANGED <<xhci_vars, irq_vars>>
  \/ XhciStep /\ UNCHANGED <<virtio_vars, irq_vars>>
  \/ IrqStep /\ UNCHANGED <<virtio_vars, xhci_vars>>

VirtioResets == DeviceResets /\ UNCHANGED <<xhci_vars, irq_vars>>
XhciClears(w) == Clears(w) /\ UNCHANGED <<virtio_vars, irq_vars>>
RedistributorWakes == ChildrenWake /\ UNCHANGED <<virtio_vars, xhci_vars>>
Expires == TimerExpires /\ UNCHANGED <<virtio_vars, xhci_vars>>

BootNext ==
  \/ Kernel \/ VirtioResets \/ (\E w \in Waits : XhciClears(w))
  \/ RedistributorWakes \/ Expires

(* The core executes; a device finishes its reset, a redistributor wakes   *)
(* and a running timer expires.  The BIOS and the xHCI controller owe      *)
(* nothing: their waits are bounded.                                       *)
Fairness ==
  WF_boot_vars(Kernel) /\ WF_boot_vars(VirtioResets)
  /\ WF_boot_vars(RedistributorWakes) /\ WF_boot_vars(Expires)

BootSpec == BootInit /\ [][BootNext]_boot_vars /\ Fairness

-----------------------------------------------------------------------------
(* What the boot takes for granted of the machines it runs on (external):  *)
(* a 64-bit BAR has an upper half, which is 0 or does not look unassigned; *)
(* the addresses firmware gave leave the pool and each other alone; a      *)
(* capability's bank and the registers of an xHCI controller are in a      *)
(* memory BAR, in no more than PCI_STRIDE bytes of it.                     *)
Memory(f) == {n \in BarNos : f.kind[n] \in {"mem32", "mem64"}}
AddressBits(value) == value - (value % 16)
UpperHalf(f, n) == IF f.kind[n] = "mem64" THEN f.bar[n + 1] ELSE 0
Given(f) == {n \in Memory(f) : AddressBits(f.bar[n]) # 0}
PoolEnd == PCI_POOL + PCI_STRIDE * (Bars * Devs)

BarsSound(f) ==
  /\ f.bar \in [BarNos -> Nat]
  /\ \A n \in BarNos :
       /\ f.kind[n] = "mem64" => n + 1 \in BarNos /\ f.kind[n + 1] = "high"
       /\ n \in Memory(f) => (f.kind[n] = "mem64" <=> (f.bar[n] % 8) \div 2 = 2)
       /\ f.kind[n] = "high" => ~Unassigned(f.bar[n])
  /\ \A n \in Given(f) :
       LET low == AddressBits(f.bar[n])
       IN \/ low + PCI_STRIDE <= PCI_POOL
          \/ PoolEnd <= low /\ low + PCI_STRIDE <= DWORD

BanksSound(f) ==
  /\ f.vendor = "1AF4" =>
       /\ f.cap_head \in DOMAIN f.cap \cup {0}
       /\ \A c \in DOMAIN f.cap :
            /\ f.cap[c].next \in DOMAIN f.cap \cup {0}
            /\ f.cap[c].id = "vendor" =>
                 /\ f.cap[c].bar \in Memory(f)
                 /\ f.cap[c].offset \in Nat /\ f.cap[c].length \in Nat
                 /\ f.cap[c].offset + f.cap[c].length <= PCI_STRIDE
  /\ f.class = "xhci" => 0 \in Memory(f) /\ f.bar[0] # 0 /\ XHCI_BANK <= PCI_STRIDE

(* Windows of PCI_STRIDE bytes do not meet. *)
Apart(low1, high1, low2, high2) ==
  high1 # high2 \/ low1 + PCI_STRIDE <= low2 \/ low2 + PCI_STRIDE <= low1

ASSUME MachineAssumption ==
  /\ PoolEnd <= DWORD
  /\ \A m \in Machines :
       LET f == [d \in DevNos |-> Functions[m[d]]]
       IN \A d \in DevNos :
            /\ BarsSound(f[d]) /\ BanksSound(f[d])
            /\ \A e \in DevNos : \A i \in Given(f[d]), j \in Given(f[e]) :
                 <<d, i>> # <<e, j>> =>
                   Apart(AddressBits(f[d].bar[i]), UpperHalf(f[d], i),
                         AddressBits(f[e].bar[j]), UpperHalf(f[e], j))

(* What memory BAR n of d decodes (external), once memory space is on: by  *)
(* the register's kind, not by how a driver reads it                       *)
Base(d, n) ==
  bar[d][n] - (bar[d][n] % 16) + (IF Fn(d).kind[n] = "mem64" THEN DWORD * bar[d][n + 1] ELSE 0)

Decodes(d, n) ==
  IF d \in bus_master /\ Fn(d).kind[n] \in {"mem32", "mem64"} /\ Base(d, n) # 0
    THEN Base(d, n) .. (Base(d, n) + PCI_STRIDE - 1)
    ELSE {}

(* pcie.c:20 'Allocation pool for devices with zeroed BARs', memory.c:94   *)
(* 'Alignment Trap': every register bank the drivers asked for reaches,    *)
(* through the page tables, the BAR it is in at the right offset, and no   *)
(* other BAR of any function answers there, whichever of firmware and scan *)
(* gave the addresses and however many functions were probed since.  (The  *)
(* ends of a bank tell: MappedBanksTranslate has the bytes between, and no *)
(* window is smaller than a bank.)                                         *)
BanksReachTheirDevice ==
  \A a \in asked : \A k \in {0, a.size - 1} :
    LET phys == Translate(a.virt + k)
    IN /\ phys = Base(a.dev, a.bar) + a.offset + k
       /\ \A d \in DevNos, n \in BarNos : phys \in Decodes(d, n) <=> <<d, n>> = <<a.dev, a.bar>>

Brought(d) == driver_registry[Min(Matches(Fn(d)))].init
VirtioDevs == {d \in DevNos : Fn(d).vendor # "FFFF" /\ Matches(Fn(d)) # {}
                              /\ Brought(d) = "virtio"}

(* virtio_ring.c:134 'Program queue size (CRITICAL STEP)', and DRIVER_OK   *)
(* is set before the queues exist (virtio_net.c:96): a live device never   *)
(* finds a queue enabled that is not at its own ring, formatted for this   *)
(* device and its size, whatever firmware left behind.                     *)
EnabledQueueIsReady ==
  Cardinality(VirtioDevs) = 1 =>
    \A d \in VirtioDevs, q \in Queues :
      vio[d].queue[q].enabled /\ {"FEATURES_OK", "DRIVER_OK"} \subseteq vio[d].status =>
        /\ vio[d].queue[q].at = q
        /\ vq[q] = [vq[q] EXCEPT !.owner = d, !.size = vio[d].queue[q].size]

(* What lets virtio_net_init give up on a device *)
Unusable(d) ==
  \/ ~(Fn(d).needs \subseteq Fn(d).offers \cap Wanted)
  \/ Fn(d).queue_size[0] = 0

(* virtio_net.c:171 'Single notify for RX batch': on a machine with one    *)
(* virtio function, not Unusable, in the main loop its receive queue is    *)
(* enabled and holds a buffer in every descriptor; its doorbell was        *)
(* written when all of them were published, not earlier; and the transmit  *)
(* queue is there too, unless the device has none.  (No doorbell without a *)
(* notify bank: virtio_pci.c:93 goes on without one, and such a device is  *)
(* never told.  What Unusable leaves out is claimed nowhere either: there  *)
(* global_vnet_dev is set although virtio_net_init gave up.)               *)
NicStarted ==
  pc = "loop" /\ global_vnet_dev # NoDev /\ Cardinality(VirtioDevs) = 1 =>
    LET d == global_vnet_dev IN
      \/ Unusable(d)
      \/ /\ "DRIVER_OK" \in vio[d].status /\ d \in bus_master
         /\ vdev[d].rx_vq = "set" /\ vio[d].queue[0].enabled
         /\ vq[0].avail_idx = Fn(d).queue_size[0]
         /\ vdev[d].notify # NULL => vio[d].told = Fn(d).queue_size[0]
         /\ Fn(d).queue_size[1] # 0 =>
              vdev[d].tx_vq = "set" /\ vio[d].queue[1].enabled

(* xhci.c:52, 130: 'BIOS ownership released' and 'READY' are said exactly  *)
(* when the last read of each register found its bit clear; a bit that     *)
(* clears while the countdown runs out is judged by the same read.         *)
ReportedAsSeen ==
  \A d \in DevNos :
    /\ "READY" \in said[d] => ~last[d].hcrst /\ ~last[d].cnr
    /\ "Reset Timeout" \in said[d] => last[d].hcrst \/ last[d].cnr
    /\ "BIOS released" \in said[d] => ~last[d].bios
    /\ "BIOS timeout" \in said[d] => last[d].bios

-----------------------------------------------------------------------------
(* Where a device can stop the boot for good: a capability list with a     *)
(* cycle, a register word that never reads zero *)
Stopped ==
  \/ pc = "caps" /\ Fn(dev).cyclic
  \/ pc = "claim" /\ Fn(dev).cyclic
  \/ pc = "reset_wait" /\ Fn(dev).config_generation # 0

(* kernel_main reaches its main loop, whatever the functions answer and    *)
(* however long the BIOS or the xHCI controller takes, except on the       *)
(* machines that Stopped describes.                                        *)
BootEnds == <>[](pc = "loop" \/ Stopped)

(* timer.c:28 'If you miss this, the timer never fires again': once in the *)
(* main loop, the uptime advances again and again.                         *)
UptimeAdvances ==
  \A t \in {10 * k : k \in 0 .. (UPTIME_END \div 10 - 1)} :
    (pc = "loop" /\ uptime_ms = t) ~> (uptime_ms # t)

=============================================================================
