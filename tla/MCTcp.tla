------------------------------- MODULE MCTcp --------------------------------
(***************************************************************************)
(* Small instances of module Tcp.  Peers start at sequence number 0 and    *)
(* send what a client, a client that repeats itself, or a confused one     *)
(* would: SYN, ACK, data with or without FIN, in and out of order, RST.    *)
(***************************************************************************)
EXTENDS Tcp, TLC

MCFlagSets == {{"SYN"}, {"ACK"}, {"FIN", "ACK"}, {"RST"}, {"RST", "ACK"}}

(* The number acknowledged changes no decision of the code: one value.     *)
(* Neither does the number of a segment without payload and FIN, and a FIN  *)
(* is taken whatever its number: two will do.                              *)
MCSegments ==
  {s \in [conn : Conns, flags : MCFlagSets, seq : 0 .. 2, ack : {0}, len : {0, 1}] :
     /\ s.len > 0 => "ACK" \in s.flags /\ "RST" \notin s.flags
     /\ s.conn \notin Listening => s.seq = 0
     /\ "FIN" \in s.flags => s.seq < 2
     /\ s.len = 0 /\ "FIN" \notin s.flags => s.seq = 0}

ConnSymmetry == Permutations(Listening)
=============================================================================
