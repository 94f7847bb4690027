---------------------------- MODULE MCSubnetSync ----------------------------
(* Small instances of SubnetSync. *)
EXTENDS SubnetSync, TLC

CONSTANTS net, bad, addr

MCCidrs == {net, bad, Empty}
MCValid == {net}
MCCovers == [c \in MCValid |-> {addr}]
=============================================================================
