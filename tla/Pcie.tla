-------------------------------- MODULE Pcie --------------------------------
(***************************************************************************)
(* The PCI scan of src/AetherWebOS/src/drivers/pcie.c: pcie_init visits    *)
(* the device numbers of bus 0, pcie_probe_device finds a driver for each  *)
(* function, gives addresses to BARs that have none, and calls the driver, *)
(* which returns here before the next function is looked at (modules       *)
(* VirtioPci and Xhci).                                                    *)
(*                                                                         *)
(* A BAR register is a number: an address, a multiple of 16, plus the type *)
(* bits below.  machine is the hardware, chosen once.                      *)
(* pc says where kernel_main is.                                           *)
(***************************************************************************)
EXTENDS Ioremap

CONSTANTS
  Devs,        \* device numbers scanned (32)
  Bars,        \* BAR registers of a function (6)
  Functions,   \* what the scan and the drivers can read of a function, by its name
  Machines,    \* the machines considered: device number -> name of its function
  PCI_POOL,    \* next_pci_mem_addr when the kernel starts (0x10000000)
  PCI_STRIDE,  \* what each BAR is given (0x100000)
  DWORD        \* 2^32

DevNos == 0 .. (Devs - 1)
BarNos == 0 .. (Bars - 1)

ASSUME PcieAssumption ==
  /\ Devs \in Nat /\ Bars \in Nat \ {0}
  /\ PCI_POOL \in Nat \ {0} /\ PCI_STRIDE \in Nat \ {0} /\ DWORD \in Nat \ {0}
  /\ PCI_POOL % 16 = 0 /\ PCI_STRIDE % 16 = 0 /\ DWORD % 16 = 0
  /\ Machines \subseteq [DevNos -> DOMAIN Functions]

VARIABLES
  pc, dev,
  machine,             \* the hardware, a member of Machines
  bar,                 \* dev -> BAR registers
  bus_master,          \* the functions whose command register has 0x6 set
  next_pci_mem_addr,
  total_pci_devices,
  asked                \* history: the banks mapped, with the BAR they are in

ioremap_vars == <<vmalloc_ptr, l3_pool, mapped, asked>>
pcie_vars == <<bar, bus_master, next_pci_mem_addr, total_pci_devices>>

Fn(d) == Functions[machine[d]]

PcieInit ==
  /\ pc = "scan" /\ dev = 0
  /\ machine \in Machines
  /\ bar = [d \in DevNos |-> Fn(d).bar]
  /\ bus_master = {}
  /\ next_pci_mem_addr = PCI_POOL
  /\ total_pci_devices = 0
  /\ Init /\ asked = {}

-----------------------------------------------------------------------------
(* driver_registry: the device id is there in the code, and not compared.  *)
driver_registry ==
  << [vendor |-> "1AF4", class |-> "", init |-> "virtio"],
     [vendor |-> "", class |-> "xhci", init |-> "xhci"],
     [vendor |-> "1B36", class |-> "", init |-> "none"] >>

Matches(f) ==
  {n \in DOMAIN driver_registry :
     \/ driver_registry[n].vendor # "" /\ driver_registry[n].vendor = f.vendor
     \/ driver_registry[n].class # "" /\ driver_registry[n].class = f.class}

(* A BAR with type bits and no address *)
Unassigned(value) == value # 0 /\ value - (value % 16) = 0

(* What a register holds after a write (external): the upper half of a     *)
(* 64-bit BAR takes the value, a BAR keeps its type bits.                  *)
Written(kind, old, value) == IF kind = "high" THEN value ELSE value + (old % 16)

Need(d) == {n \in BarNos : Unassigned(bar[d][n])}

Mutant_NewAddress(d, n) == next_pci_mem_addr

NewAddress(d, n) ==
  next_pci_mem_addr + PCI_STRIDE * Cardinality({k \in Need(d) : k < n})

(* The 64-bit or 32-bit address of a BAR, as virtio_pci_map_capability and *)
(* xhci_init put it together.                                              *)
BarPhys(d, n) ==
  LET low == bar[d][n] - (bar[d][n] % 16)
  IN IF (bar[d][n] % 8) \div 2 = 2 THEN low + DWORD * bar[d][n + 1] ELSE low

-----------------------------------------------------------------------------
(* kernel_main and the calls it makes move on by these. *)
At(where) == pc = where /\ UNCHANGED <<machine, pcie_vars>>
GoTo(where) == pc' = where /\ UNCHANGED dev
Return == pc' = "scan" /\ dev' = dev + 1

NoMapping == UNCHANGED ioremap_vars

(* ioremap of size bytes at offset in BAR n of the function being probed:  *)
(* mapped, at the address VirtOf; or refused.                              *)
Bank(n, offset, size) == [phys |-> BarPhys(dev, n) + offset, size |-> size]

VirtOf(n, offset) == vmalloc_ptr + ((BarPhys(dev, n) + offset) % PAGE_SIZE)

Mapping(n, offset, size) ==
  /\ ioremap(Bank(n, offset, size))
  /\ asked' = asked \cup {[dev |-> dev, bar |-> n, offset |-> offset, size |-> size,
                            virt |-> VirtOf(n, offset)]}

MappingRefused(n, offset, size) ==
  IoremapFails(Bank(n, offset, size)) /\ UNCHANGED asked

-----------------------------------------------------------------------------
ProbeStep == NoMapping /\ UNCHANGED machine

(* Vendor 0xFFFF or 0: nothing there *)
EmptySlot ==
  /\ pc = "scan" /\ dev < Devs
  /\ Fn(dev).vendor = "FFFF"
  /\ Return
  /\ ProbeStep /\ UNCHANGED pcie_vars

NoDriver ==
  /\ pc = "scan" /\ dev < Devs
  /\ Fn(dev).vendor # "FFFF" /\ Matches(Fn(dev)) = {}
  /\ total_pci_devices' = total_pci_devices + 1
  /\ Return
  /\ ProbeStep /\ UNCHANGED <<bar, bus_master, next_pci_mem_addr>>

pcie_probe_device ==
  /\ pc = "scan" /\ dev < Devs
  /\ Fn(dev).vendor # "FFFF" /\ Matches(Fn(dev)) # {}
  /\ total_pci_devices' = total_pci_devices + 1
  /\ bar' = [bar EXCEPT ![dev] = [n \in BarNos |->
               IF n \in Need(dev) THEN Written(Fn(dev).kind[n], @[n], NewAddress(dev, n))
               ELSE @[n]]]
  /\ next_pci_mem_addr' = next_pci_mem_addr + PCI_STRIDE * Cardinality(Need(dev))
  /\ bus_master' = bus_master \cup {dev}
  /\ LET init == driver_registry[Min(Matches(Fn(dev)))].init
     IN IF init = "none" THEN Return ELSE GoTo(init)
  /\ ProbeStep

ScanDone ==
  /\ pc = "scan" /\ dev = Devs
  /\ GoTo("gic")
  /\ ProbeStep /\ UNCHANGED pcie_vars

PcieStep == EmptySlot \/ NoDriver \/ pcie_probe_device \/ ScanDone

=============================================================================
