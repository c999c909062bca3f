------------------------------ MODULE UserTable ------------------------------
(***************************************************************************)
(* Address allocation of package mgmt/store.  A user row holds an address  *)
(* and a traffic-control class, both made from a host number.  The first   *)
(* two octets of an address never vary, so an address is the pair of its   *)
(* third and its last octet.                                               *)
(***************************************************************************)
EXTENDS Integers, FiniteSetsExt

CONSTANTS Octet,       \* number of values of an address byte (256 in the code)
          SubnetSize,  \* 2^(32 - bits) addresses
          Base         \* the subnet's base address

ASSUME TableAssumption ==
    /\ Octet \in Nat \ {0}
    /\ SubnetSize \in Nat \ {0, 1}  \* not a /32, whose maxHosts wraps around
    /\ Base \in (0 .. Octet - 1) \X (0 .. Octet - 1)

\* ipToHost: the host number read back from a stored address, its last octet.
ipToHost(addr) == addr[2]

\* The address of a host number: the base with byte(host) as its last octet.
AddressOf(host) == <<Base[1], host % Octet>>

\* The hosts the allocation loop tries: not the network address, not the first
\* host (the server's default address), not the broadcast address.
PoolHosts == 2 .. SubnetSize - 2

\* Mutation: the loop starts one host too early.
AllocateEarly(used) ==
    LET free == {h \in 1 .. SubnetSize - 2 : h \notin {ipToHost(a) : a \in used}}
    IN  IF free = {} THEN -1 ELSE Min(free)

\* allocateIP: the least host of the pool that no stored address reads back to;
\* -1 stands for the error "no available IPs".
AllocateHost(used) ==
    LET free == {h \in PoolHosts : h \notin {ipToHost(a) : a \in used}}
    IN  IF free = {} THEN -1 ELSE Min(free)
=============================================================================
