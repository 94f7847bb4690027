--------------------------- MODULE MCLocalSubnets ---------------------------
(* Small instances of LocalSubnets: one address, a subnet that covers it,   *)
(* one that does not, and a string that is no subnet.                       *)
EXTENDS LocalSubnets, TLC

CONSTANTS net, other, bad, addr

MCValid == Cidrs \ {bad}
MCCovers == [c \in MCValid |-> IF c = net THEN {addr} ELSE {}]

Symmetry == Permutations(Admins)
=============================================================================
