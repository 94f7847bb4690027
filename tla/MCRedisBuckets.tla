--------------------------- MODULE MCRedisBuckets ---------------------------
(* Small instances of RedisBuckets: two goroutines on two instances whose    *)
(* clocks may differ, one key with a real rule.                              *)
EXTENDS RedisBuckets, TLC

CONSTANTS user, p1, p2

MCProcs == {p1, p2}
MCSkew == p1 :> 0 @@ p2 :> MaxSkew
MCLimit == user :> 1
MCWindow == user :> 3
=============================================================================
