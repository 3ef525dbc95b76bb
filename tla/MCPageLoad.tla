----------------------------- MODULE MCPageLoad -----------------------------
(***************************************************************************)
(* The client and two neighbours at a cache of two entries.  One neighbour *)
(* changes its MAC; probes and packets that are no ARP for IPv4 come too.  *)
(***************************************************************************)
EXTENDS PageLoad

MCNeighbours ==
  {p \in Packets :
     /\ p.sender_ip # client_ip
     /\ p.sender_mac = client_mac => p.sender_ip = 2
     /\ p.opcode = "request" => p.target_ip = aether_ip
     /\ p.opcode = "reply" => p.target_ip = aether_ip /\ p.sender_ip # 0}
=============================================================================
