----------------------------- MODULE MCIpInput ------------------------------
(***************************************************************************)
(* Bytes of four values, words of sixteen; this machine and two peers.     *)
(***************************************************************************)
EXTENDS IpInput
MCOurs == <<2, 0, 1, 3>>
MCAddrs == {MCOurs, <<2, 0, 1, 1>>, <<3, 3, 0, 2>>}
=============================================================================
