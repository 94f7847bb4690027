--------------------------- MODULE MCRateLimiter ---------------------------
(* A small instance of RateLimiter: one login, the empty password, and an   *)
(* address of each kind.                                                    *)
EXTENDS RateLimiter, TLC

CONSTANTS addr, white, black, junk

MCPolicy ==
    [x \in Ips \cup BadIps |->
        IF x = white THEN "allow" ELSE IF x = black THEN "deny" ELSE "continue"]
MCLimitOf == [login |-> 2, password |-> 1, ip |-> 1]

Symmetry == Permutations(Procs)
=============================================================================
