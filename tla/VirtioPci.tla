----------------------------- MODULE VirtioPci ------------------------------
(***************************************************************************)
(* Bringing up a virtio function: virtio_pci_init and its walk of the      *)
(* capability list (src/AetherWebOS/src/drivers/virtio/virtio_pci.c), the  *)
(* handshake of virtio_net_init and virtio_net_setup_queues (virtio_net.c) *)
(* and virtio_pci_bind_queue (virtio_ring.c).                              *)
(*                                                                         *)
(* vio is the device's side: its status bits and queue registers, which    *)
(* firmware may have left in use.  A queue is at ring 0 (rx_queue), 1      *)
(* (tx_queue), the firmware's ring or none.  vq is                         *)
(* the driver's: rx_queue and tx_queue, static and the same whichever      *)
(* function is brought up.  Two history fields: owner, the function a      *)
(* queue was formatted for, and told, the receive buffers published when   *)
(* the device's doorbell was last written.  A pointer is a virtual         *)
(* address, 0 being NULL; the two queue pointers of vdev come from kmalloc *)
(* and are not initialised.  What happens in the rings afterwards is       *)
(* module VirtioNet's.                                                     *)
(***************************************************************************)
EXTENDS Pcie

VARIABLES
  vio,                \* dev -> the device's registers
  vdev,               \* dev -> struct virtio_pci_device
  global_vnet_dev,    \* dev, or NoDev
  cap_ptr,            \* the capability the walk is at
  queue_index,        \* the queue being set up: 0 is RX, 1 is TX
  vq                  \* rx_queue and tx_queue

virtio_vars == <<vio, vdev, global_vnet_dev, cap_ptr, queue_index, vq>>

NoDev == -1
NoRing == -1
FirmwareRing == -2
NULL == 0
Queues == {0, 1}
Wanted == {"MAC", "ANY_LAYOUT", "VERSION_1"}

(* queue_size is a 16-bit register. *)
ASSUME VirtioAssumption ==
  \A name \in DOMAIN Functions :
    Functions[name].queue_size \in [Queues -> Nat] /\ Functions[name].used \in BOOLEAN

VirtioInit ==
  /\ vio = [d \in DevNos |->
              [status |-> IF Fn(d).used THEN {"ACKNOWLEDGE", "DRIVER", "DRIVER_OK"} ELSE {},
               resetting |-> FALSE, queue_select |-> 0, told |-> 0,
               queue |-> [q \in Queues |->
                            [size |-> Fn(d).queue_size[q], enabled |-> Fn(d).used,
                             at |-> IF Fn(d).used THEN FirmwareRing ELSE NoRing]]]]
  /\ vdev = [d \in DevNos |-> [common |-> NULL, device |-> NULL, isr |-> NULL, notify |-> NULL,
                               rx_vq |-> "uninit", tx_vq |-> "uninit"]]
  /\ global_vnet_dev = NoDev
  /\ cap_ptr = 0 /\ queue_index = 0
  /\ vq = [q \in Queues |-> [size |-> 0, avail_idx |-> 0, owner |-> NoDev]]

-----------------------------------------------------------------------------
virtio_pci_init ==
  /\ At("virtio")
  /\ cap_ptr' = Fn(dev).cap_head
  /\ GoTo("caps")
  /\ NoMapping /\ UNCHANGED <<vio, vdev, global_vnet_dev, queue_index, vq>>

(* kmalloc of the vdev fails. *)
VdevFails ==
  /\ At("virtio")
  /\ Return
  /\ NoMapping /\ UNCHANGED <<vio, vdev, global_vnet_dev, cap_ptr, queue_index, vq>>

Cap == Fn(dev).cap[cap_ptr]

(* virtio_pci_map_capability: a bank of any type is mapped, and the        *)
(* pointer of its type set; a later one of the same type replaces it.      *)
MapCapability ==
  /\ At("caps") /\ cap_ptr # 0
  /\ Cap.id = "vendor" /\ BarPhys(dev, Cap.bar) # 0
  /\ Mapping(Cap.bar, Cap.offset, Cap.length)
  /\ vdev' = IF Cap.type \in {"common", "device", "isr", "notify"}
               THEN [vdev EXCEPT ![dev][Cap.type] = VirtOf(Cap.bar, Cap.offset)]
               ELSE vdev
  /\ cap_ptr' = Cap.next
  /\ GoTo("caps")
  /\ UNCHANGED <<vio, global_vnet_dev, queue_index, vq>>

(* Another capability, a BAR without an address, or ioremap returns NULL *)
SkipCapability ==
  /\ At("caps") /\ cap_ptr # 0
  /\ \/ (Cap.id # "vendor" \/ BarPhys(dev, Cap.bar) = 0) /\ NoMapping
     \/ /\ Cap.id = "vendor" /\ BarPhys(dev, Cap.bar) # 0
        /\ MappingRefused(Cap.bar, Cap.offset, Cap.length)
  /\ cap_ptr' = Cap.next
  /\ GoTo("caps")
  /\ UNCHANGED <<vio, vdev, global_vnet_dev, queue_index, vq>>

CapsDone ==
  /\ At("caps") /\ cap_ptr = 0
  /\ IF vdev[dev].common # NULL /\ vdev[dev].device # NULL
       THEN global_vnet_dev' = dev /\ GoTo("reset")
       ELSE Return /\ UNCHANGED global_vnet_dev
  /\ NoMapping /\ UNCHANGED <<vio, vdev, cap_ptr, queue_index, vq>>

-----------------------------------------------------------------------------
(* virtio_net_init.  The registers at common + 0x14 are written and read   *)
(* as one 32-bit word: device_status, config_generation, queue_select.     *)
HandshakeStep ==
  NoMapping /\ UNCHANGED <<vdev, global_vnet_dev, cap_ptr, vq>>

WriteReset ==
  /\ At("reset")
  /\ vio' = [vio EXCEPT ![dev].resetting = TRUE, ![dev].queue_select = 0]
  /\ GoTo("reset_wait")
  /\ HandshakeStep /\ UNCHANGED queue_index

StatusWordZero(d) ==
  /\ vio[d].status = {} /\ ~vio[d].resetting
  /\ Fn(d).config_generation = 0 /\ vio[d].queue_select = 0

ResetSpin ==
  /\ At("reset_wait") /\ ~StatusWordZero(dev)
  /\ GoTo("reset_wait")
  /\ HandshakeStep /\ UNCHANGED <<vio, queue_index>>

ResetSeen ==
  /\ At("reset_wait") /\ StatusWordZero(dev)
  /\ GoTo("negotiate")
  /\ HandshakeStep /\ UNCHANGED <<vio, queue_index>>

(* ACKNOWLEDGE | DRIVER, the features, FEATURES_OK; the device keeps the   *)
(* last bit if it can work with what was accepted.                         *)
Negotiate ==
  LET f == Fn(dev)
      ok == f.needs \subseteq f.offers \cap Wanted
  IN /\ At("negotiate")
     /\ vio' = [vio EXCEPT ![dev].status =
                  {"ACKNOWLEDGE", "DRIVER"} \cup (IF ok THEN {"FEATURES_OK"} ELSE {})]
     /\ IF ok THEN GoTo("driver_ok") ELSE Return
     /\ HandshakeStep /\ UNCHANGED queue_index

DriverOk ==
  /\ At("driver_ok")
  /\ vio' = [vio EXCEPT ![dev].status = @ \cup {"DRIVER_OK"}]
  /\ queue_index' = 0
  /\ GoTo("select")
  /\ HandshakeStep

-----------------------------------------------------------------------------
(* virtio_net_setup_queues *)
SelectQueue ==
  /\ At("select")
  /\ vio' = [vio EXCEPT ![dev].queue_select = queue_index]
  /\ IF vio[dev].queue[queue_index].size = 0 THEN Return ELSE GoTo("format")
  /\ HandshakeStep /\ UNCHANGED queue_index

(* virtqueue_init leaves avail->idx as it is. *)
virtqueue_init ==
  /\ At("format")
  /\ vq' = [vq EXCEPT ![queue_index].size = vio[dev].queue[queue_index].size,
                      ![queue_index].owner = dev]
  /\ GoTo("bind")
  /\ NoMapping /\ UNCHANGED <<vio, vdev, global_vnet_dev, cap_ptr, queue_index>>

(* queue_enable is written before the addresses. *)
Mutant_BindQueue ==
  /\ At("bind")
  /\ vio' = [vio EXCEPT ![dev].queue_select = queue_index,
                        ![dev].queue[queue_index].enabled = TRUE]
  /\ GoTo("enable")
  /\ HandshakeStep /\ UNCHANGED queue_index

(* The queue goes by the register in vq, not by the one selected before *)
BindQueue ==
  /\ At("bind")
  /\ vio' = [vio EXCEPT ![dev].queue_select = queue_index,
                        ![dev].queue[queue_index].size = vq[queue_index].size,
                        ![dev].queue[queue_index].at = queue_index]
  /\ GoTo("enable")
  /\ HandshakeStep /\ UNCHANGED queue_index

EnableQueue ==
  /\ At("enable")
  /\ vio' = [vio EXCEPT ![dev].queue[vio[dev].queue_select].enabled = TRUE]
  /\ vdev' = IF queue_index = 0 THEN [vdev EXCEPT ![dev].rx_vq = "set"]
                                ELSE [vdev EXCEPT ![dev].tx_vq = "set"]
  /\ IF queue_index = 0 THEN GoTo("prefill") ELSE Return
  /\ NoMapping /\ UNCHANGED <<global_vnet_dev, cap_ptr, queue_index, vq>>

(* The prefill, one descriptor after the other in module VirtioNet *)
Prefill ==
  /\ At("prefill")
  /\ vq' = [vq EXCEPT ![0].avail_idx = @ + vq[0].size]
  /\ GoTo("notify")
  /\ NoMapping /\ UNCHANGED <<vio, vdev, global_vnet_dev, cap_ptr, queue_index>>

(* The doorbell is not written after the fill. *)
Mutant_virtqueue_notify ==
  /\ At("notify")
  /\ vio' = [vio EXCEPT ![dev].queue_select = 0]
  /\ queue_index' = 1
  /\ GoTo("select")
  /\ HandshakeStep

(* virtqueue_notify writes to notify_base whatever that is: without a bank *)
(* the doorbell is not the device's.                                       *)
virtqueue_notify ==
  /\ At("notify")
  /\ vio' = [vio EXCEPT ![dev].queue_select = 0,
                        ![dev].told = IF vdev[dev].notify # NULL THEN vq[0].avail_idx ELSE @]
  /\ queue_index' = 1
  /\ GoTo("select")
  /\ HandshakeStep

-----------------------------------------------------------------------------
(* The device (external) finishes its reset. *)
DeviceResets ==
  /\ \E d \in DevNos :
       /\ vio[d].resetting
       /\ vio' = [vio EXCEPT ![d].resetting = FALSE, ![d].status = {}, ![d].told = 0,
                             ![d].queue = [q \in Queues |->
                               [size |-> Fn(d).queue_size[q], enabled |-> FALSE,
                                at |-> NoRing]]]
  /\ NoMapping
  /\ UNCHANGED <<pc, dev, machine, pcie_vars, vdev, global_vnet_dev, cap_ptr, queue_index, vq>>

VirtioStep ==
  \/ virtio_pci_init \/ VdevFails \/ MapCapability \/ SkipCapability \/ CapsDone
  \/ WriteReset \/ ResetSpin \/ ResetSeen \/ Negotiate \/ DriverOk
  \/ SelectQueue \/ virtqueue_init \/ BindQueue \/ EnableQueue \/ Prefill \/ virtqueue_notify

=============================================================================
