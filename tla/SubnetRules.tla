---------------------------- MODULE SubnetRules ----------------------------
(***************************************************************************)
(* The pure part of the subnet lists (internal/domain/subnetlist): which   *)
(* strings are accepted as a subnet, which list an address is on, and what *)
(* the two lists together decide.  A CIDR string is a model value; what    *)
(* net.ParseCIDR and the net.IPNet make of it is given by Valid and Covers.*)
(***************************************************************************)
EXTENDS Integers, FiniteSets

CONSTANTS
    Cidrs,     \* strings a caller may send as a subnet
    Valid,     \* those Add accepts: they parse, and name a network address
    Ips,       \* client addresses
    Covers     \* Covers[c]: the addresses inside the valid subnet c

ASSUME ValidAssumption == Valid \subseteq Cidrs
ASSUME CoversAssumption == Covers \in [Valid -> SUBSET Ips]

White == "whitelist"
Black == "blacklist"
Lists == {White, Black}

\* SubnetList.Add: the string parses as a CIDR and its address is the network's.
AcceptsAnything(c) == c \in Cidrs
Accepts(c) == c \in Valid

\* SubnetList.Contains: some subnet of the list covers the address.
Contains(nets, ip) == \E c \in nets \cap Valid : ip \in Covers[c]

\* SubnetPolicer.Check: the whitelist is asked first, and wins.
Decision(lists, ip) ==
    IF Contains(lists[White], ip) THEN "allow"
    ELSE IF Contains(lists[Black], ip) THEN "deny" ELSE "continue"

\* Both lists would load without an error.
Loadable(lists) == \A l \in Lists : lists[l] \subseteq Valid
=============================================================================
