----------------------------- MODULE AllowedIPs -----------------------------
(***************************************************************************)
(* The allowed IPs of device/allowedips.go: a path-compressed binary trie  *)
(* of prefixes.  IPv4 and IPv6 have a trie each and the same code; this is *)
(* one of them.  Every operation runs under the table's mutex, and is one  *)
(* action.                                                                 *)
(*                                                                         *)
(* A node is named by its prefix.  A slot is a place that holds a pointer  *)
(* to a node: the root, or a child of a node.  A node knows the slot it is *)
(* in (parentIndirection), and a peer lists its nodes (trieEntries).       *)
(***************************************************************************)
EXTENDS Integers, Sequences, FiniteSetsExt, Functions, TLC

LOCAL Seqs == INSTANCE SequencesExt

CONSTANTS Width, Peers, NoPeer, Nil,
          MaxEntries   \* bound: prefixes in the table

VARIABLE trie   \* [root, node, entries]

Address == [1 .. Width -> {0, 1}]

\* maskSelf: the leading n bits, the others cleared.
Mask(ip, n) == [i \in 1 .. Width |-> IF i <= n THEN ip[i] ELSE 0]
Prefix(ip, n) == [bits |-> Mask(ip, n), cidr |-> n]

\* commonBits: the length of the longest common prefix.
commonBits(a, b) ==
    IF a = b THEN Width ELSE Min({i \in 1 .. Width : a[i] # b[i]}) - 1

\* The child of a node on the way to ip.
choose(k, ip) == ip[k.cidr + 1]

RootSlot == <<Nil, 2>>
Slots(t) == {RootSlot} \cup ((DOMAIN t.node) \X {0, 1})
At(t, slot) == IF slot = RootSlot THEN t.root ELSE t.node[slot[1]].child[slot[2]]

\* Mutation: the node is not told which slot it is in now.
LinkUntold(t, slot, k) ==
    IF slot = RootSlot THEN [t EXCEPT !.root = k]
    ELSE [t EXCEPT !.node[slot[1]].child[slot[2]] = k]

\* Node k, or nothing, is put into a slot and told so.
Link(t, slot, k) ==
    LET held == IF slot = RootSlot THEN [t EXCEPT !.root = k]
                ELSE [t EXCEPT !.node[slot[1]].child[slot[2]] = k]
    IN  IF k = Nil THEN held ELSE [held EXCEPT !.node[k].parent = slot]

\* removeFromPeerEntries and addToPeerEntries.
Unlist(t, k) ==
    IF t.node[k].peer = NoPeer THEN t
    ELSE [t EXCEPT !.entries[t.node[k].peer] = SelectSeq(@, LAMBDA x : x # k)]
List(t, k, p) == [t EXCEPT !.node[k].peer = p, !.entries[p] = Append(@, k)]

\* A fresh node without a peer, and without its place in the trie.
New(t, k) ==
    [t EXCEPT !.node = (k :> [peer |-> NoPeer, child |-> (0 :> Nil @@ 1 :> Nil),
                              parent |-> RootSlot]) @@ @]

\* nodePlacement: the deepest node whose prefix covers the prefix of length cidr
\* of ip.
nodePlacement(t, ip, cidr) ==
    LET from[k \in DOMAIN t.node \cup {Nil}] ==
          IF k = Nil THEN Nil
          ELSE IF k.cidr > cidr \/ commonBits(k.bits, ip) < k.cidr THEN Nil
          ELSE IF k.cidr = cidr THEN k
          ELSE LET below == from[t.node[k].child[choose(k, ip)]]
               IN  IF below = Nil THEN k ELSE below
    IN  from[t.root]

\* insert: give the prefix to p, whoever had it.  A prefix that is not there yet
\* is put below the node that covers it: into an empty slot, above the node in
\* that slot, or beside it under a node of their common bits.
insert(t, ip, cidr, p) ==
    LET key  == Prefix(ip, cidr)
        node == nodePlacement(t, ip, cidr)
        slot == IF node = Nil THEN RootSlot ELSE <<node, choose(node, ip)>>
        down == At(t, slot)
        with == List(New(t, key), key, p)
    IN  IF node = key THEN List(Unlist(t, key), key, p)
        ELSE IF down = Nil THEN Link(with, slot, key)
        ELSE LET common == Min({commonBits(down.bits, ip), cidr})
                 glue   == Prefix(ip, common)
             IN  IF common = cidr
                 THEN Link(Link(with, <<key, choose(key, down.bits)>>, down), slot, key)
                 ELSE Link(Link(Link(New(with, glue),
                                     <<glue, choose(glue, down.bits)>>, down),
                                <<glue, choose(glue, key.bits)>>, key),
                           slot, glue)

\* The node's only child, or nothing, takes its place.
Splice(t, k) ==
    LET node == t.node[k]
        only == IF node.child[0] = Nil THEN node.child[1] ELSE node.child[0]
    IN  [Link(t, node.parent, only) EXCEPT !.node = Restrict(@, DOMAIN @ \ {k})]

HasTwo(node) == node.child[0] # Nil /\ node.child[1] # Nil

\* Mutation: a parent that is left with one child and no peer stays.
removeKeepsParent(t, k) ==
    LET bare == [Unlist(t, k) EXCEPT !.node[k].peer = NoPeer]
    IN  IF HasTwo(bare.node[k]) THEN bare ELSE Splice(bare, k)

\* remove: the node loses its peer and, unless it has two children, its place; if
\* it was a leaf, a parent left with one child and no peer goes too.
remove(t, k) ==
    LET bare == [Unlist(t, k) EXCEPT !.node[k].peer = NoPeer]
        node == bare.node[k]
        up   == node.parent[1]
        cut  == Splice(bare, k)
    IN  IF HasTwo(node) THEN bare
        ELSE IF node.child[0] # Nil \/ node.child[1] # Nil \/ up = Nil THEN cut
        ELSE IF cut.node[up].peer # NoPeer THEN cut
        ELSE Splice(cut, up)

\* Mutation: a node without a peer hides the nodes above it.
lookupAny(t, ip) ==
    LET from[k \in DOMAIN t.node] ==
          LET next == IF k.cidr = Width THEN Nil ELSE t.node[k].child[choose(k, ip)]
          IN  IF next = Nil THEN t.node[k].peer
              ELSE IF commonBits(next.bits, ip) < next.cidr THEN t.node[k].peer
              ELSE from[next]
    IN  IF t.root = Nil THEN NoPeer
        ELSE IF commonBits(t.root.bits, ip) < t.root.cidr THEN NoPeer
        ELSE from[t.root]

\* lookup: the peer of the deepest node with one on the way down.
lookup(t, ip) ==
    LET from[k \in DOMAIN t.node \cup {Nil}] ==
          IF k = Nil THEN NoPeer
          ELSE IF commonBits(k.bits, ip) < k.cidr THEN NoPeer
          ELSE LET found == IF k.cidr = Width THEN NoPeer
                            ELSE from[t.node[k].child[choose(k, ip)]]
               IN  IF found = NoPeer THEN t.node[k].peer ELSE found
    IN  from[t.root]

-----------------------------------------------------------------------------
(* The table's operations.                                                 *)

Init == trie = [root |-> Nil, node |-> <<>>, entries |-> [p \in Peers |-> <<>>]]

Insert(ip, cidr, p) ==
    /\ LET owned == {k \in DOMAIN trie.node : trie.node[k].peer # NoPeer}
       IN  Prefix(ip, cidr) \in owned \/ Cardinality(owned) < MaxEntries
    /\ trie' = insert(trie, ip, cidr, p)

\* Remove: nothing happens unless the prefix is there and is the peer's.
Remove(ip, cidr, p) ==
    LET k == nodePlacement(trie, ip, cidr)
    IN  /\ k # Nil /\ k = Prefix(ip, cidr)
        /\ trie.node[k].peer = p
        /\ trie' = remove(trie, k)

\* Mutation: the walk over the peer's list ends one node too early.
RemoveByPeerShort(p) ==
    trie' = Seqs!FoldLeft(remove, trie, SubSeq(trie.entries[p], 1, Len(trie.entries[p]) - 1))

RemoveByPeer(p) == trie' = Seqs!FoldLeft(remove, trie, trie.entries[p])

Next ==
    \E p \in Peers :
       \/ \E ip \in Address, cidr \in 0 .. Width : Insert(ip, cidr, p) \/ Remove(ip, cidr, p)
       \/ RemoveByPeer(p)

Spec == Init /\ [][Next]_trie

-----------------------------------------------------------------------------
(* Properties.                                                             *)

\* The map the trie stands for.
Owned == {k \in DOMAIN trie.node : trie.node[k].peer # NoPeer}
Owner == [k \in Owned |-> trie.node[k].peer]

Map == INSTANCE PrefixMap WITH owner <- Owner

\* The pointers are consistent: a node is in the slot it thinks it is in and on the
\* right side of a shorter prefix, and every peer lists exactly its nodes, once
\* each.  remove computes a parent's address from that slot and RemoveByPeer walks
\* that list.
Linked ==
    /\ \A k \in DOMAIN trie.node :
          LET slot == trie.node[k].parent
          IN  /\ slot \in Slots(trie)
              /\ At(trie, slot) = k
              /\ slot # RootSlot =>
                    /\ slot[1].cidr < k.cidr
                    /\ Mask(k.bits, slot[1].cidr) = slot[1].bits
                    /\ choose(slot[1], k.bits) = slot[2]
    /\ \A p \in Peers :
          /\ IsInjective(trie.entries[p])
          /\ Range(trie.entries[p]) = {k \in DOMAIN trie.node : trie.node[k].peer = p}

\* The trie does not grow beyond what its prefixes need: a node without a peer
\* separates two subtries.  Removals leave no other node behind.
Compact ==
    \A k \in DOMAIN trie.node : trie.node[k].peer = NoPeer => HasTwo(trie.node[k])

\* Every packet goes to the owner of the longest prefix that covers its address,
\* after any sequence of insertions and removals.
LongestPrefix ==
    \A ip \in Address : lookup(trie, ip) = Map!Route(ip)

\* An operation on one prefix leaves the owners of all others alone: the trie
\* implements the map of prefixes.
ImplementsMap == Map!Spec
=============================================================================
