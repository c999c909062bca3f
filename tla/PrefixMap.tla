------------------------------ MODULE PrefixMap ------------------------------
(***************************************************************************)
(* What the allowed IPs promise: a map from prefixes to peers, in which an *)
(* address is routed to the owner of the longest prefix that covers it.    *)
(***************************************************************************)
EXTENDS Integers, FiniteSetsExt, Functions, TLC

CONSTANTS Width,   \* bits of an address (32 or 128 in the code)
          Peers, NoPeer

VARIABLE owner     \* the peer of each prefix in the map

Address == [1 .. Width -> {0, 1}]

\* The leading n bits of an address, the others cleared.
Prefix(ip, n) ==
    [bits |-> [i \in 1 .. Width |-> IF i <= n THEN ip[i] ELSE 0], cidr |-> n]
Prefixes == {Prefix(ip, n) : ip \in Address, n \in 0 .. Width}

Init == owner = <<>>

Insert(x, p) == owner' = (x :> p) @@ owner

\* Only its owner can give a prefix up.
Remove(x, p) ==
    /\ owner[x] = p
    /\ owner' = Restrict(owner, DOMAIN owner \ {x})

RemoveByPeer(p) == owner' = RestrictValues(owner, LAMBDA q : q # p)

Next ==
    \E p \in Peers :
       \/ \E x \in Prefixes : Insert(x, p)
       \/ \E x \in DOMAIN owner : Remove(x, p)
       \/ RemoveByPeer(p)

Spec == Init /\ [][Next]_owner

\* The owner of the longest prefix that covers an address.
Route(ip) ==
    LET covering == {n \in 0 .. Width : Prefix(ip, n) \in DOMAIN owner}
    IN  IF covering = {} THEN NoPeer ELSE owner[Prefix(ip, Max(covering))]
=============================================================================
