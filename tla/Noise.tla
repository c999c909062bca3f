-------------------------------- MODULE Noise --------------------------------
(***************************************************************************)
(* Handshakes, the index table and keypairs of two devices that are each   *)
(* other's peer (device/noise-protocol.go, indextable.go, keypair.go).     *)
(* Each device has several handshake workers (RoutineHandshake), a timer   *)
(* or sender that creates initiations, a sequential receiver, and a timer  *)
(* that destroys all keys (ZeroAndFlushAll).  A step is what runs under    *)
(* one hold of the handshake's or the keypairs' lock.  Messages are never  *)
(* removed from the network: they may be lost, delayed, duplicated and     *)
(* reordered.                                                              *)
(*                                                                         *)
(* Cryptography is perfect: an ephemeral key is the pair of its maker and  *)
(* a number, the chaining key is the pair of the ephemeral keys mixed into *)
(* it, and a message opens only for who has the chaining key it was sealed *)
(* under.  An initiation's timestamp is its number.  The rate limits on    *)
(* initiations (RekeyTimeout, HandshakeInitationRate) only restrict when   *)
(* one is made or taken; here it may happen at any time.                   *)
(***************************************************************************)
EXTENDS Naturals, FiniteSets

CONSTANTS Nodes,
          Workers,         \* the handshake workers of each node
          Indices,         \* values of an index, 0 excepted
          Nil,             \* no keypair; index 0; no work
          MaxInitiations,  \* bound: initiations made by all nodes together
          MaxResponses,    \* bound: responses made by all nodes together
          MaxZeroings      \* bound: runs of ZeroAndFlushAll

VARIABLES hs,        \* the handshake
          current, previous, next,   \* the keypairs
          waiting,   \* index table: the indices of handshakes
          routed,    \* index table: the keypair of an index
          work,      \* what each handshake worker is about to do
          zeroing,   \* ZeroAndFlushAll has cleared the keypairs, not yet the handshake
          net,       \* every message ever sent
          made,      \* number of initiations, responses and zeroings so far
          derived    \* history: the keys each node made a keypair of

table == <<waiting, routed>>
keypairs == <<current, previous, next>>
vars == <<hs, keypairs, table, work, zeroing, net, made, derived>>

States == {"Zeroed", "InitiationCreated", "InitiationConsumed",
           "ResponseCreated", "ResponseConsumed"}
Ephemeral == Nodes \X Nat
Key == Ephemeral \X Ephemeral
MixedIn == Ephemeral \cup {Nil}
Index == Indices \cup {Nil}
Keypair == [key : Key, role : {"initiator", "responder"}, local : Index, remote : Index]

Initiation == [type : {"initiation"}, from : Nodes, eph : Ephemeral, sender : Indices]
Response == [type : {"response"}, from : Nodes, key : Key, sender : Indices,
             receiver : Index]
Transport == [type : {"transport"}, from : Nodes, key : Key, receiver : Index]

ASSUME NoiseAssumption ==
    /\ Nil \notin Indices
    /\ Nil \notin Keypair
    /\ Nil \notin Initiation \cup Response
    /\ {MaxInitiations, MaxResponses, MaxZeroings} \subseteq Nat

\* chain is both the chaining key and the hash; remoteEphemeral is its first part
\* when an initiation was consumed.
Handshake == [state : States, chain : MixedIn \X MixedIn,
              local : Index, remote : Index, timestamp : Nat]

\* A worker commits what it read, answers an initiation, or derives a keypair and
\* then sends a response.
Work == {Nil}
   \cup [pc : {"commitInitiation"}, msg : Initiation]
   \cup [pc : {"respond"}]
   \cup [pc : {"commitResponse"}, msg : Response]
   \cup [pc : {"begin"}, msg : Response \cup {Nil}]

TypeOK ==
    /\ hs \in [Nodes -> Handshake]
    /\ current \in [Nodes -> Keypair \cup {Nil}]
    /\ previous \in [Nodes -> Keypair \cup {Nil}]
    /\ next \in [Nodes -> Keypair \cup {Nil}]
    /\ waiting \in [Nodes -> SUBSET Indices]
    /\ routed \in [Nodes -> [Indices -> Keypair \cup {Nil}]]
    /\ work \in [Nodes -> [Workers -> Work]]
    /\ zeroing \subseteq Nodes
    /\ net \subseteq Initiation \cup Response \cup Transport
    /\ made \in [initiations : Nat, responses : Nat, zeroings : Nat]
    /\ derived \in [Nodes -> SUBSET Key]

-----------------------------------------------------------------------------
(* The index table.                                                        *)

InUse(n, i) == i \in waiting[n] \/ (i \in Indices /\ routed[n][i] # Nil)

\* Delete(hs.local), then NewIndexForHandshake takes an index that is not in use.
FreshIndices(n) == {j \in Indices : j = hs[n].local \/ ~ InUse(n, j)}
Reindex(n, j) ==
    /\ waiting' = [waiting EXCEPT ![n] = (@ \ {hs[n].local}) \cup {j}]
    /\ routed' = [routed EXCEPT ![n] = [i \in Indices |->
                    IF i = hs[n].local THEN Nil ELSE @[i]]]

\* The indices that DeleteKeypair takes out of the table.
IndicesOf(gone) == {kp.local : kp \in gone \ {Nil}}
Delete(n, indices) ==
    /\ waiting' = [waiting EXCEPT ![n] = @ \ indices]
    /\ routed' = [routed EXCEPT ![n] = [i \in Indices |->
                    IF i \in indices THEN Nil ELSE @[i]]]

-----------------------------------------------------------------------------
(* Initiations and responses.                                              *)

\* CreateMessageInitiation, called for a retry, for lack of a key or to renew it.
CreateInitiation(n) ==
    LET e == <<n, made.initiations + 1>>
    IN  /\ made.initiations < MaxInitiations
        /\ made' = [made EXCEPT !.initiations = @ + 1]
        /\ \E j \in FreshIndices(n) :
              /\ Reindex(n, j)
              /\ hs' = [hs EXCEPT ![n].state = "InitiationCreated",
                                  ![n].chain = <<e, Nil>>, ![n].local = j]
              /\ net' = net \cup
                    {[type |-> "initiation", from |-> n, eph |-> e, sender |-> j]}
        /\ UNCHANGED <<keypairs, work, zeroing, derived>>

\* ConsumeMessageInitiation up to the checks, under the read lock: the timestamp
\* is later than the latest accepted.
ReadInitiation(n, w, m) ==
    /\ work[n][w] = Nil
    /\ m.type = "initiation" /\ m.from # n
    /\ m.eph[2] > hs[n].timestamp
    /\ work' = [work EXCEPT ![n][w] = [pc |-> "commitInitiation", msg |-> m]]
    /\ UNCHANGED <<hs, keypairs, table, zeroing, net, made, derived>>

\* Mutation: the later of two timestamps is not kept.
CommitInitiationAny(n, w) ==
    /\ work[n][w] # Nil /\ work[n][w].pc = "commitInitiation"
    /\ LET m == work[n][w].msg
       IN  hs' = [hs EXCEPT ![n].state = "InitiationConsumed",
                            ![n].chain = <<m.eph, Nil>>, ![n].remote = m.sender,
                            ![n].timestamp = m.eph[2]]
    /\ work' = [work EXCEPT ![n][w] = [pc |-> "respond"]]
    /\ UNCHANGED <<keypairs, table, zeroing, net, made, derived>>

\* The rest of ConsumeMessageInitiation, under the write lock.
CommitInitiation(n, w) ==
    /\ work[n][w] # Nil /\ work[n][w].pc = "commitInitiation"
    /\ LET m == work[n][w].msg
       IN  hs' = [hs EXCEPT ![n].state = "InitiationConsumed",
                            ![n].chain = <<m.eph, Nil>>, ![n].remote = m.sender,
                            ![n].timestamp = IF m.eph[2] > @ THEN m.eph[2] ELSE @]
    /\ work' = [work EXCEPT ![n][w] = [pc |-> "respond"]]
    /\ UNCHANGED <<keypairs, table, zeroing, net, made, derived>>

\* CreateMessageResponse fails when the handshake has changed in the meantime.
CreateResponse(n, w) ==
    LET f == <<n, made.responses + 1>>
    IN  /\ work[n][w] # Nil /\ work[n][w].pc = "respond"
        /\ IF hs[n].state # "InitiationConsumed"
           THEN /\ work' = [work EXCEPT ![n][w] = Nil]
                /\ UNCHANGED <<hs, table, made>>
           ELSE /\ made.responses < MaxResponses
                /\ made' = [made EXCEPT !.responses = @ + 1]
                /\ \E j \in FreshIndices(n) :
                      /\ Reindex(n, j)
                      /\ hs' = [hs EXCEPT ![n].state = "ResponseCreated",
                                          ![n].chain = <<@[1], f>>, ![n].local = j]
                      /\ work' = [work EXCEPT ![n][w] =
                            [pc |-> "begin",
                             msg |-> [type |-> "response", from |-> n,
                                      key |-> <<hs[n].chain[1], f>>,
                                      sender |-> j, receiver |-> hs[n].remote]]]
        /\ UNCHANGED <<keypairs, zeroing, net, derived>>

\* ConsumeMessageResponse up to the authentication, under the read lock: the
\* receiver's index is a handshake's that waits for this response.  The index is
\* looked up before the lock is taken; an index replaced in between goes with
\* another chaining key, and the response does not open.
ReadResponse(n, w, m) ==
    /\ work[n][w] = Nil
    /\ m.type = "response" /\ m.from # n
    /\ m.receiver \in waiting[n]
    /\ hs[n].state = "InitiationCreated"
    /\ hs[n].chain = <<m.key[1], Nil>>
    /\ work' = [work EXCEPT ![n][w] = [pc |-> "commitResponse", msg |-> m]]
    /\ UNCHANGED <<hs, keypairs, table, zeroing, net, made, derived>>

\* Mutation: the responder's index is not taken from the response.
CommitResponseIndex(n, w) ==
    /\ work[n][w] # Nil /\ work[n][w].pc = "commitResponse"
    /\ hs' = [hs EXCEPT ![n].state = "ResponseConsumed",
                        ![n].chain = work[n][w].msg.key]
    /\ work' = [work EXCEPT ![n][w] = [pc |-> "begin", msg |-> Nil]]
    /\ UNCHANGED <<keypairs, table, zeroing, net, made, derived>>

\* The rest of it, under the write lock; the state is not looked at again.
CommitResponse(n, w) ==
    /\ work[n][w] # Nil /\ work[n][w].pc = "commitResponse"
    /\ LET m == work[n][w].msg
       IN  hs' = [hs EXCEPT ![n].state = "ResponseConsumed",
                            ![n].chain = m.key, ![n].remote = m.sender]
    /\ work' = [work EXCEPT ![n][w] = [pc |-> "begin", msg |-> Nil]]
    /\ UNCHANGED <<keypairs, table, zeroing, net, made, derived>>

-----------------------------------------------------------------------------
(* Keypairs.                                                               *)

\* SwapIndexForKeypair on the handshake's index, and DeleteKeypair for each that
\* the rotation drops.
SwapIndex(n, kp, dropped) ==
    LET swapped == IF InUse(n, hs[n].local) THEN {hs[n].local} ELSE {}
    IN  /\ waiting' = [waiting EXCEPT ![n] = @ \ (swapped \cup IndicesOf(dropped))]
        /\ routed' = [routed EXCEPT ![n] = [i \in Indices |->
                        IF i \in IndicesOf(dropped) THEN Nil
                        ELSE IF i \in swapped THEN kp ELSE @[i]]]

\* The initiator uses the new keypair at once.
RotateInitiator(n, kp) ==
    /\ current' = [current EXCEPT ![n] = kp]
    /\ IF next[n] # Nil
       THEN /\ previous' = [previous EXCEPT ![n] = next[n]]
            /\ next' = [next EXCEPT ![n] = Nil]
            /\ SwapIndex(n, kp, {current[n], previous[n]})
       ELSE /\ previous' = [previous EXCEPT ![n] = current[n]]
            /\ SwapIndex(n, kp, {previous[n]})
            /\ UNCHANGED next

\* Mutation: the keypair that was next stays in the index table.
RotateResponderLeaks(n, kp) ==
    /\ next' = [next EXCEPT ![n] = kp]
    /\ previous' = [previous EXCEPT ![n] = Nil]
    /\ SwapIndex(n, kp, {previous[n]})
    /\ UNCHANGED current

\* Mutation: the responder uses the new keypair at once.
RotateResponderEager(n, kp) ==
    /\ current' = [current EXCEPT ![n] = kp]
    /\ previous' = [previous EXCEPT ![n] = current[n]]
    /\ SwapIndex(n, kp, {previous[n]})
    /\ UNCHANGED next

\* The responder keeps the new keypair until a packet confirms it.
RotateResponder(n, kp) ==
    /\ next' = [next EXCEPT ![n] = kp]
    /\ previous' = [previous EXCEPT ![n] = Nil]
    /\ SwapIndex(n, kp, {next[n], previous[n]})
    /\ UNCHANGED current

\* Mutation: a response is taken for created as soon as the initiation is consumed.
DerivableEarly(n) == hs[n].state \notin {"Zeroed", "InitiationCreated"}

\* The handshake states a keypair can be derived in.
Derivable(n) == hs[n].state \in {"ResponseConsumed", "ResponseCreated"}

\* BeginSymmetricSession derives a keypair from whatever state the handshake is in
\* by now, or fails; then the response, if there is one, is sent.  An initiator
\* sends a keepalive, and it stands for every packet sent with the keypair from
\* now on; those a responder sends have no effect here.  The index is swapped
\* before the keypairs are locked: nobody else uses that index or that keypair, so
\* this is one step.
BeginSymmetricSession(n, w) ==
    LET msg  == work[n][w].msg
        role == IF hs[n].state = "ResponseConsumed" THEN "initiator" ELSE "responder"
        kp   == [key |-> hs[n].chain, role |-> role,
                 local |-> hs[n].local, remote |-> hs[n].remote]
    IN  /\ work[n][w] # Nil /\ work[n][w].pc = "begin"
        /\ work' = [work EXCEPT ![n][w] = Nil]
        /\ IF Derivable(n)
           THEN /\ IF role = "initiator" THEN RotateInitiator(n, kp)
                   ELSE RotateResponder(n, kp)
                /\ hs' = [hs EXCEPT ![n].state = "Zeroed", ![n].chain = <<Nil, Nil>>,
                                    ![n].local = Nil]
                /\ derived' = [derived EXCEPT ![n] = @ \cup {kp.key}]
                /\ net' = net \cup ({msg} \ {Nil}) \cup
                      IF role = "responder" THEN {}
                      ELSE {[type |-> "transport", from |-> n, key |-> kp.key,
                             receiver |-> kp.remote]}
           ELSE UNCHANGED <<hs, keypairs, table, derived, net>>
        /\ UNCHANGED <<zeroing, made>>

\* ReceivedWithKeypair: the first packet that opens with the next keypair makes it
\* current.
ReceivedWithKeypair(n, kp) ==
    /\ next[n] = kp
    /\ previous' = [previous EXCEPT ![n] = current[n]]
    /\ current' = [current EXCEPT ![n] = kp]
    /\ next' = [next EXCEPT ![n] = Nil]
    /\ Delete(n, IndicesOf({previous[n]}))

\* RoutineReceiveIncoming finds the keypair of a packet's index, the packet opens
\* with it and reaches the sequential receiver.  A packet that was delayed on the
\* way there does nothing unless its keypair is still the next one, and then the
\* table still leads to it: looking it up only now makes no difference.
Receive(n, m) ==
    /\ m.type = "transport" /\ m.from # n
    /\ m.receiver \in Indices
    /\ routed[n][m.receiver] # Nil
    /\ routed[n][m.receiver].key = m.key
    /\ ReceivedWithKeypair(n, routed[n][m.receiver])
    /\ UNCHANGED <<hs, work, zeroing, net, made, derived>>

\* ZeroAndFlushAll: the keypairs under their lock, then the handshake under its.
ZeroKeypairs(n) ==
    /\ n \notin zeroing
    /\ made.zeroings < MaxZeroings
    /\ made' = [made EXCEPT !.zeroings = @ + 1]
    /\ zeroing' = zeroing \cup {n}
    /\ Delete(n, IndicesOf({current[n], previous[n], next[n]}))
    /\ current' = [current EXCEPT ![n] = Nil]
    /\ previous' = [previous EXCEPT ![n] = Nil]
    /\ next' = [next EXCEPT ![n] = Nil]
    /\ UNCHANGED <<hs, work, net, derived>>

ZeroHandshake(n) ==
    /\ n \in zeroing
    /\ zeroing' = zeroing \ {n}
    /\ Delete(n, {hs[n].local})
    /\ hs' = [hs EXCEPT ![n].state = "Zeroed", ![n].chain = <<Nil, Nil>>, ![n].local = Nil]
    /\ UNCHANGED <<keypairs, work, net, made, derived>>

-----------------------------------------------------------------------------
Init ==
    /\ hs = [n \in Nodes |-> [state |-> "Zeroed", chain |-> <<Nil, Nil>>, local |-> Nil,
                              remote |-> Nil, timestamp |-> 0]]
    /\ current = [n \in Nodes |-> Nil]
    /\ previous = [n \in Nodes |-> Nil]
    /\ next = [n \in Nodes |-> Nil]
    /\ waiting = [n \in Nodes |-> {}]
    /\ routed = [n \in Nodes |-> [i \in Indices |-> Nil]]
    /\ work = [n \in Nodes |-> [w \in Workers |-> Nil]]
    /\ zeroing = {}
    /\ net = {}
    /\ made = [initiations |-> 0, responses |-> 0, zeroings |-> 0]
    /\ derived = [n \in Nodes |-> {}]

HandshakeStep(n, w) ==
    \/ \E m \in net : ReadInitiation(n, w, m) \/ ReadResponse(n, w, m)
    \/ CommitInitiation(n, w) \/ CreateResponse(n, w)
    \/ CommitResponse(n, w) \/ BeginSymmetricSession(n, w)

Next ==
    \E n \in Nodes :
       \/ CreateInitiation(n)
       \/ \E w \in Workers : HandshakeStep(n, w)
       \/ \E m \in net : Receive(n, m)
       \/ ZeroKeypairs(n) \/ ZeroHandshake(n)

Spec == Init /\ [][Next]_vars

-----------------------------------------------------------------------------
(* Properties.                                                             *)

Held(n) == {current[n], previous[n], next[n]} \ {Nil}

\* The index table is exact, however workers, timers and the receiver interleave:
\* it leads to the handshake by its index only; to a keypair that has an index
\* exactly when one of the three slots holds it; and no index of a replaced one is
\* left behind.  A keypair derived when the handshake had lost its index (local is
\* Nil, the code's 0) is in no table; index 0 itself is left out of the model.
IndexTableExact ==
    \A n \in Nodes :
       /\ waiting[n] = {hs[n].local} \ {Nil}
       /\ \A i \in Indices : routed[n][i] # Nil =>
             routed[n][i] \in Held(n) /\ routed[n][i].local = i
       /\ \A kp \in Held(n) : kp.local # Nil => routed[n][kp.local] = kp

\* A responder sends with a key only after the initiator has derived it too: the
\* first packet received with the next keypair is what makes it current.
KeyConfirmed ==
    \A n \in Nodes : current[n] # Nil /\ current[n].role = "responder" =>
       \E m \in Nodes \ {n} : current[n].key \in derived[m]

\* The two ends of a key: keypairs of one key have the same role exactly when they are
\* on the same node, and the index that the initiator puts in its packets is the
\* responder's.  So a key is never derived in both directions of one node, although
\* BeginSymmetricSession derives from whatever state the handshake is in by then.
\* Nothing is said of the index the responder sends to: CommitResponse does not look
\* at the state again, so an initiator may derive one key twice and keep it under an
\* index of a later handshake, or under none.
Paired ==
    \A n, m \in Nodes : \A a \in Held(n), b \in Held(m) : a.key = b.key =>
       /\ a.role = b.role <=> n = m
       /\ a.role = "initiator" /\ b.role = "responder" => a.remote = b.local

\* The latest accepted timestamp never goes back, though it is checked and set
\* under different holds of the lock.
TimestampsAdvance ==
    [][\A n \in Nodes : hs'[n].timestamp >= hs[n].timestamp]_vars
=============================================================================
