---------------------------- MODULE VirtQueueSpec ---------------------------
(***************************************************************************)
(* What a virtqueue promises the driver and the device: a descriptor is in *)
(* one place at a time and goes round free -> filled -> avail -> device -> *)
(* used -> free.  Published descriptors reach the device in order and      *)
(* receipts reach the driver in the order the device wrote them; nothing   *)
(* is lost, duplicated or invented.  Rings, wrapping indices and the free  *)
(* list are the implementation: module VirtioNet.                          *)
(***************************************************************************)
EXTENDS Naturals, Sequences

CONSTANT Desc       \* the descriptors

VARIABLES
  free,       \* descriptors the driver may fill
  filled,     \* descriptors filled and not yet published
  avail,      \* published, not yet read by the device
  device,     \* held by the device
  used        \* finished, receipt not yet read by the driver

vars == <<free, filled, avail, device, used>>

Init ==
  /\ free = Desc
  /\ filled = {}
  /\ avail = << >>
  /\ device = {}
  /\ used = << >>

Fill(d) ==
  /\ d \in free
  /\ free' = free \ {d}
  /\ filled' = filled \cup {d}
  /\ UNCHANGED <<avail, device, used>>

Publish(d) ==
  /\ d \in filled
  /\ filled' = filled \ {d}
  /\ avail' = Append(avail, d)
  /\ UNCHANGED <<free, device, used>>

Take ==
  /\ avail # << >>
  /\ device' = device \cup {Head(avail)}
  /\ avail' = Tail(avail)
  /\ UNCHANGED <<free, filled, used>>

Complete(d) ==
  /\ d \in device
  /\ device' = device \ {d}
  /\ used' = Append(used, d)
  /\ UNCHANGED <<free, filled, avail>>

Reclaim ==
  /\ used # << >>
  /\ free' = free \cup {Head(used)}
  /\ used' = Tail(used)
  /\ UNCHANGED <<filled, avail, device>>

Next ==
  \/ \E d \in free : Fill(d)
  \/ \E d \in filled : Publish(d)
  \/ Take
  \/ \E d \in device : Complete(d)
  \/ Reclaim

Spec == Init /\ [][Next]_vars

=============================================================================
