----------------------------- MODULE NoiseProofs -----------------------------
(***************************************************************************)
(* The index table of Noise is exact for any number of nodes, workers and  *)
(* indices, however their steps interleave.                                *)
(***************************************************************************)
EXTENDS Noise, TLAPS

\* What a handshake that has got so far has mixed into its chaining key.
ChainOK ==
    \A n \in Nodes :
       /\ Derivable(n) => hs[n].chain \in Key
       /\ hs[n].state = "InitiationConsumed" => hs[n].chain[1] \in Ephemeral

TypeInv == TypeOK /\ ChainOK

\* The type invariant, one part per component.
HandshakeType == hs \in [Nodes -> Handshake]
KeypairsType ==
    /\ current \in [Nodes -> Keypair \cup {Nil}]
    /\ previous \in [Nodes -> Keypair \cup {Nil}]
    /\ next \in [Nodes -> Keypair \cup {Nil}]
TableType ==
    /\ waiting \in [Nodes -> SUBSET Indices]
    /\ routed \in [Nodes -> [Indices -> Keypair \cup {Nil}]]
RestType ==
    /\ work \in [Nodes -> [Workers -> Work]]
    /\ zeroing \subseteq Nodes
    /\ net \subseteq Initiation \cup Response \cup Transport
    /\ made \in [initiations : Nat, responses : Nat, zeroings : Nat]
    /\ derived \in [Nodes -> SUBSET Key]

\* The type invariant is the conjunction of its parts.
LEMMA Parts == TypeOK <=> HandshakeType /\ KeypairsType /\ TableType /\ RestType
  BY DEF TypeOK, HandshakeType, KeypairsType, TableType, RestType

\* A new peer (NewPeer) has the right types.
LEMMA InitType == Init => TypeInv
  BY DEF Init, TypeInv, TypeOK, ChainOK, Derivable, Handshake, States, Index,
         Work, MixedIn

\* A handshake after an assignment to its fields is one.
LEMMA LocalUpdate ==
  ASSUME NEW h \in Handshake, NEW s \in States, NEW e \in MixedIn, NEW f \in MixedIn,
         NEW l \in Index
  PROVE  [h EXCEPT !.state = s, !.chain = <<e, f>>, !.local = l] \in Handshake
  <1>1. <<e, f>> \in MixedIn \X MixedIn
    OBVIOUS
  <1> QED BY <1>1, Zenon DEF Handshake

\* The same for ConsumeMessageResponse.
LEMMA RemoteUpdate ==
  ASSUME NEW h \in Handshake, NEW s \in States, NEW e \in MixedIn, NEW f \in MixedIn,
         NEW r \in Index
  PROVE  [h EXCEPT !.state = s, !.chain = <<e, f>>, !.remote = r] \in Handshake
  <1>1. <<e, f>> \in MixedIn \X MixedIn
    OBVIOUS
  <1> QED BY <1>1, Zenon DEF Handshake

\* The same for ConsumeMessageInitiation.
LEMMA TimestampUpdate ==
  ASSUME NEW h \in Handshake, NEW s \in States, NEW e \in MixedIn, NEW f \in MixedIn,
         NEW r \in Index, NEW t \in Nat
  PROVE  [h EXCEPT !.state = s, !.chain = <<e, f>>, !.remote = r, !.timestamp = t]
         \in Handshake
  <1>1. <<e, f>> \in MixedIn \X MixedIn
    OBVIOUS
  <1> QED BY <1>1, Zenon DEF Handshake

\* Index-table operations keep its type.
LEMMA TableUpdate ==
  ASSUME TableType, NEW n \in Nodes, NEW indices
  PROVE  /\ Delete(n, indices) => TableType'
         /\ \A j \in Indices : Reindex(n, j) => TableType'
         /\ \A kp \in Keypair : \A dropped : SwapIndex(n, kp, dropped) => TableType'
  <1>1. Delete(n, indices) => TableType'
    BY DEF TableType, Delete
  <1>2. ASSUME NEW j \in Indices, Reindex(n, j) PROVE TableType'
    BY <1>2 DEF TableType, Reindex
  <1>3. ASSUME NEW kp \in Keypair, NEW dropped, SwapIndex(n, kp, dropped) PROVE TableType'
    BY <1>3 DEF TableType, SwapIndex
  <1> QED BY <1>1, <1>2, <1>3

\* CreateMessageInitiation keeps the types.
LEMMA CreateInitiationType ==
  ASSUME TypeInv, NEW n \in Nodes, CreateInitiation(n) PROVE TypeInv'
  <1> DEFINE e == <<n, made.initiations + 1>>
  <1>1. e \in Ephemeral
    BY DEF TypeInv, TypeOK, Ephemeral
  <1>2. PICK j \in Indices : /\ Reindex(n, j)
              /\ hs' = [hs EXCEPT ![n].state = "InitiationCreated",
                                  ![n].chain = <<e, Nil>>, ![n].local = j]
              /\ net' = net \cup
                    {[type |-> "initiation", from |-> n, eph |-> e, sender |-> j]}
    BY Zenon DEF CreateInitiation, FreshIndices
  <1>3. made' \in [initiations : Nat, responses : Nat, zeroings : Nat]
    <2>1. made' = [made EXCEPT !.initiations = @ + 1]
      BY DEF CreateInitiation
    <2> QED BY <2>1 DEF TypeInv, TypeOK
  <1> HIDE DEF e
  <1>4. HandshakeType'
    <2>1. [hs[n] EXCEPT !.state = "InitiationCreated", !.chain = <<e, Nil>>, !.local = j]
          \in Handshake
      BY <1>1, LocalUpdate, Zenon DEF TypeInv, TypeOK, States, Index, MixedIn
    <2> QED BY <2>1, <1>2, SMTT(60) DEF TypeInv, TypeOK, HandshakeType
  <1>5. TableType'
    BY <1>2, TableUpdate, Parts DEF TypeInv
  <1>6. [type |-> "initiation", from |-> n, eph |-> e, sender |-> j] \in Initiation
    BY <1>1 DEF Initiation
  <1>7. UNCHANGED <<keypairs, work, zeroing, derived>>
    BY DEF CreateInitiation
  <1>8. RestType'
    BY <1>2, <1>3, <1>6, <1>7 DEF TypeInv, TypeOK, RestType
  <1>9. KeypairsType'
    BY <1>7, Parts DEF TypeInv, KeypairsType, keypairs
  <1>10. ChainOK'
    <2>1. hs'[n].state = "InitiationCreated"
      BY <1>2 DEF TypeInv, TypeOK, Handshake
    <2>2. \A x \in Nodes \ {n} : hs'[x] = hs[x]
      BY <1>2 DEF TypeInv, TypeOK
    <2> QED BY <2>1, <2>2 DEF TypeInv, ChainOK, Derivable
  <1> QED BY <1>4, <1>5, <1>8, <1>9, <1>10
          DEF TypeInv, TypeOK, HandshakeType, KeypairsType, TableType, RestType

\* A message has the type its tag says.
LEMMA Tagged ==
  ASSUME NEW m \in Initiation \cup Response \cup Transport
  PROVE  /\ m.type = "initiation" => m \in Initiation
         /\ m.type = "response" => m \in Response
  BY DEF Initiation, Response, Transport

\* What a worker has read is what it is going to commit.
LEMMA ReadType ==
  ASSUME TypeInv, NEW n \in Nodes, NEW w \in Workers, NEW m \in net,
         ReadInitiation(n, w, m) \/ ReadResponse(n, w, m)
  PROVE  TypeInv'
  <1>1. \/ m \in Initiation /\ work' = [work EXCEPT ![n][w] = [pc |-> "commitInitiation", msg |-> m]]
        \/ m \in Response /\ work' = [work EXCEPT ![n][w] = [pc |-> "commitResponse", msg |-> m]]
    BY Tagged DEF TypeInv, TypeOK, ReadInitiation, ReadResponse
  <1>2. \E x \in Work : work' = [work EXCEPT ![n][w] = x]
    BY <1>1 DEF Work
  <1>3. UNCHANGED <<hs, current, previous, next, waiting, routed, zeroing, net, made, derived>>
    BY DEF ReadInitiation, ReadResponse, keypairs, table
  <1> QED BY <1>2, <1>3 DEF TypeInv, TypeOK, ChainOK, Derivable

\* Where a worker is tells what message it holds.
LEMMA WorkMessage ==
  ASSUME NEW x \in Work, x # Nil
  PROVE  /\ x.pc = "commitInitiation" => x.msg \in Initiation
         /\ x.pc = "commitResponse" => x.msg \in Response
         /\ x.pc = "begin" => x.msg \in Response \cup {Nil}
  BY DEF Work

\* The second halves of ConsumeMessageInitiation and ConsumeMessageResponse keep
\* the types.
LEMMA CommitType ==
  ASSUME TypeInv, NEW n \in Nodes, NEW w \in Workers,
         CommitInitiation(n, w) \/ CommitResponse(n, w)
  PROVE  TypeInv'
  <1> DEFINE m == work[n][w].msg
  <1>1. CASE CommitInitiation(n, w)
    <2>1. m \in Initiation
      BY <1>1, WorkMessage DEF TypeInv, TypeOK, CommitInitiation
    <2>2. m.eph \in Ephemeral /\ m.eph[2] \in Nat /\ m.sender \in Index
      BY <2>1 DEF Initiation, Ephemeral, Index
    <2> DEFINE t == IF m.eph[2] > hs[n].timestamp THEN m.eph[2] ELSE hs[n].timestamp
    <2>3. t \in Nat
      BY <2>2 DEF TypeInv, TypeOK, Handshake
    <2>4. hs' = [hs EXCEPT ![n] = [hs[n] EXCEPT !.state = "InitiationConsumed",
                   !.chain = <<m.eph, Nil>>, !.remote = m.sender, !.timestamp = t]]
      BY <1>1, Zenon DEF CommitInitiation, TypeInv, TypeOK
    <2>5. [hs[n] EXCEPT !.state = "InitiationConsumed", !.chain = <<m.eph, Nil>>,
                        !.remote = m.sender, !.timestamp = t] \in Handshake
      <3> HIDE DEF m, t
      <3> QED BY <2>2, <2>3, TimestampUpdate, ZenonT(60) DEF TypeInv, TypeOK, States, MixedIn
    <2>6. HandshakeType'
      <3> HIDE DEF m, t
      <3> QED BY <2>4, <2>5 DEF TypeInv, TypeOK, HandshakeType
    <2>7. UNCHANGED <<current, previous, next, waiting, routed, zeroing, net, made, derived>>
      BY <1>1 DEF CommitInitiation, keypairs, table
    <2>8. work' \in [Nodes -> [Workers -> Work]]
      BY <1>1 DEF CommitInitiation, TypeInv, TypeOK, Work
    <2>9. TypeOK'
      BY <2>6, <2>7, <2>8 DEF TypeInv, TypeOK, HandshakeType
    <2>10. ChainOK'
      <3> HIDE DEF m, t
      <3>1. hs'[n].state = "InitiationConsumed" /\ hs'[n].chain = <<m.eph, Nil>>
        BY <2>4 DEF TypeInv, TypeOK, Handshake
      <3>2. \A x \in Nodes \ {n} : hs'[x] = hs[x]
        BY <2>4 DEF TypeInv, TypeOK
      <3> QED BY <2>2, <3>1, <3>2 DEF TypeInv, ChainOK, Derivable
    <2> QED BY <2>9, <2>10 DEF TypeInv
  <1>2. CASE CommitResponse(n, w)
    <2>1. m \in Response
      BY <1>2, WorkMessage DEF TypeInv, TypeOK, CommitResponse
    <2>2. m.key \in Key /\ m.sender \in Index
      BY <2>1 DEF Response, Index
    <2>3. PICK e \in Ephemeral, f \in Ephemeral : m.key = <<e, f>>
      BY <2>2 DEF Key
    <2>4. hs' = [hs EXCEPT ![n] = [hs[n] EXCEPT !.state = "ResponseConsumed",
                   !.chain = <<e, f>>, !.remote = m.sender]]
      <3>1. hs' = [hs EXCEPT ![n] = [hs[n] EXCEPT !.state = "ResponseConsumed",
                     !.chain = m.key, !.remote = m.sender]]
        BY <1>2, Zenon DEF CommitResponse, TypeInv, TypeOK
      <3> HIDE DEF m
      <3> QED BY <3>1, <2>3
    <2>5. [hs[n] EXCEPT !.state = "ResponseConsumed", !.chain = <<e, f>>,
                        !.remote = m.sender] \in Handshake
      <3> HIDE DEF m
      <3> QED BY <2>2, RemoteUpdate, Zenon DEF TypeInv, TypeOK, States, MixedIn
    <2>6. HandshakeType'
      <3> HIDE DEF m
      <3> QED BY <2>4, <2>5 DEF TypeInv, TypeOK, HandshakeType
    <2>7. UNCHANGED <<current, previous, next, waiting, routed, zeroing, net, made, derived>>
      BY <1>2 DEF CommitResponse, keypairs, table
    <2>8. work' \in [Nodes -> [Workers -> Work]]
      BY <1>2 DEF CommitResponse, TypeInv, TypeOK, Work
    <2>9. TypeOK'
      BY <2>6, <2>7, <2>8 DEF TypeInv, TypeOK, HandshakeType
    <2>10. ChainOK'
      <3> HIDE DEF m
      <3>1. hs'[n].state = "ResponseConsumed" /\ hs'[n].chain = <<e, f>>
        BY <2>4 DEF TypeInv, TypeOK, Handshake
      <3>2. \A x \in Nodes \ {n} : hs'[x] = hs[x]
        BY <2>4 DEF TypeInv, TypeOK
      <3> QED BY <3>1, <3>2 DEF TypeInv, ChainOK, Derivable, Key
    <2> QED BY <2>9, <2>10 DEF TypeInv
  <1> QED BY <1>1, <1>2

\* CreateMessageResponse keeps the types.
LEMMA CreateResponseType ==
  ASSUME TypeInv, NEW n \in Nodes, NEW w \in Workers, CreateResponse(n, w)
  PROVE  TypeInv'
  <1> DEFINE f == <<n, made.responses + 1>>
             e == hs[n].chain[1]
             msg(j) == [type |-> "response", from |-> n, key |-> <<e, f>>,
                        sender |-> j, receiver |-> hs[n].remote]
  <1>1. CASE hs[n].state # "InitiationConsumed"
    <2>1. UNCHANGED <<hs, waiting, routed, made, current, previous, next, zeroing, net, derived>>
      BY <1>1 DEF CreateResponse, keypairs, table
    <2>2. work' \in [Nodes -> [Workers -> Work]]
      <3>1. work' = [work EXCEPT ![n][w] = Nil]
        BY <1>1 DEF CreateResponse
      <3>2. Nil \in Work
        BY DEF Work
      <3> QED BY <3>1, <3>2 DEF TypeInv, TypeOK
    <2> QED BY <2>1, <2>2 DEF TypeInv, TypeOK, ChainOK, Derivable
  <1>2. CASE hs[n].state = "InitiationConsumed"
    <2>1. /\ f \in Ephemeral /\ e \in Ephemeral
          /\ <<e, f>> \in Key
          /\ hs[n].remote \in Index
      BY <1>2 DEF TypeInv, TypeOK, ChainOK, Ephemeral, Key, Handshake
    <2>2. PICK j \in Indices :
             /\ Reindex(n, j)
             /\ hs' = [hs EXCEPT ![n].state = "ResponseCreated",
                                 ![n].chain = <<e, f>>, ![n].local = j]
             /\ work' = [work EXCEPT ![n][w] = [pc |-> "begin", msg |-> msg(j)]]
      BY <1>2 DEF CreateResponse, FreshIndices
    <2>3. UNCHANGED <<current, previous, next, zeroing, net, derived>>
      BY <1>2 DEF CreateResponse, keypairs
    <2>a. made' = [made EXCEPT !.responses = @ + 1]
      BY <1>2 DEF CreateResponse
    <2> HIDE DEF f, e
    <2>4. made' \in [initiations : Nat, responses : Nat, zeroings : Nat]
      BY <2>a, SMTT(60) DEF TypeInv, TypeOK
    <2>5. HandshakeType'
      <3>1. [hs[n] EXCEPT !.state = "ResponseCreated", !.chain = <<e, f>>, !.local = j]
            \in Handshake
        BY <2>1, LocalUpdate, Zenon DEF TypeInv, TypeOK, States, Index, MixedIn
      <3> QED BY <3>1, <2>2 DEF TypeInv, TypeOK, HandshakeType
    <2>6. TableType'
      BY <2>2, TableUpdate, Parts DEF TypeInv
    <2>7. msg(j) \in Response
      BY <2>1 DEF Response
    <2> HIDE DEF msg
    <2>8. [pc |-> "begin", msg |-> msg(j)] \in Work
      BY <2>7 DEF Work
    <2>9. work' \in [Nodes -> [Workers -> Work]]
      BY <2>2, <2>8 DEF TypeInv, TypeOK
    <2>10. TypeOK'
      BY <2>3, <2>4, <2>5, <2>6, <2>9 DEF TypeInv, TypeOK, HandshakeType, TableType
    <2>11. ChainOK'
      <3>1. hs'[n].state = "ResponseCreated" /\ hs'[n].chain = <<e, f>>
        BY <2>2 DEF TypeInv, TypeOK, Handshake
      <3>2. \A x \in Nodes \ {n} : hs'[x] = hs[x]
        BY <2>2 DEF TypeInv, TypeOK
      <3> QED BY <2>1, <3>1, <3>2 DEF TypeInv, ChainOK, Derivable
    <2> QED BY <2>10, <2>11 DEF TypeInv
  <1> QED BY <1>1, <1>2

\* The keypair BeginSymmetricSession makes.
Derived(n) ==
    [key |-> hs[n].chain,
     role |-> IF hs[n].state = "ResponseConsumed" THEN "initiator" ELSE "responder",
     local |-> hs[n].local, remote |-> hs[n].remote]

\* A keypair derived in one of the right states has a complete key.
LEMMA DerivedType ==
  ASSUME TypeInv, NEW n \in Nodes, Derivable(n)
  PROVE  Derived(n) \in Keypair
  BY DEF TypeInv, TypeOK, ChainOK, Derived, Keypair, Handshake

\* A rotation keeps the types.
LEMMA RotateType ==
  ASSUME KeypairsType, TableType, NEW n \in Nodes, NEW kp \in Keypair,
         RotateInitiator(n, kp) \/ RotateResponder(n, kp)
  PROVE  KeypairsType' /\ TableType'
  <1>1. KeypairsType'
    BY DEF KeypairsType, RotateInitiator, RotateResponder
  <1>2. \E dropped : SwapIndex(n, kp, dropped)
    BY DEF RotateInitiator, RotateResponder
  <1> QED BY <1>1, <1>2, TableUpdate

\* The handshake is zeroed.
Cleared(n) == hs' = [hs EXCEPT ![n].state = "Zeroed", ![n].chain = <<Nil, Nil>>,
                               ![n].local = Nil]

\* So does clearing the handshake.
LEMMA ClearedType ==
  ASSUME TypeInv, NEW n \in Nodes, Cleared(n)
  PROVE  HandshakeType' /\ ChainOK'
  <1>1. [hs[n] EXCEPT !.state = "Zeroed", !.chain = <<Nil, Nil>>, !.local = Nil] \in Handshake
    BY LocalUpdate, Zenon DEF TypeInv, TypeOK, States, Index, MixedIn
  <1>2. HandshakeType'
    BY <1>1 DEF Cleared, TypeInv, TypeOK, HandshakeType
  <1>3. hs'[n].state = "Zeroed"
    BY DEF Cleared, TypeInv, TypeOK, Handshake
  <1>4. \A x \in Nodes \ {n} : hs'[x] = hs[x]
    BY DEF Cleared, TypeInv, TypeOK
  <1> QED BY <1>2, <1>3, <1>4, SMTT(60) DEF TypeInv, ChainOK, Derivable

\* BeginSymmetricSession keeps the types.
LEMMA BeginType ==
  ASSUME TypeInv, NEW n \in Nodes, NEW w \in Workers, BeginSymmetricSession(n, w)
  PROVE  TypeInv'
  <1> DEFINE msg == work[n][w].msg
  <1>1. work' \in [Nodes -> [Workers -> Work]]
    <2>1. work' = [work EXCEPT ![n][w] = Nil]
      BY DEF BeginSymmetricSession
    <2>2. Nil \in Work
      BY DEF Work
    <2> QED BY <2>1, <2>2 DEF TypeInv, TypeOK
  <1>2. UNCHANGED <<zeroing, made>>
    BY DEF BeginSymmetricSession
  <1>3. CASE ~ Derivable(n)
    <2>1. UNCHANGED <<hs, current, previous, next, waiting, routed, derived, net>>
      BY <1>3 DEF BeginSymmetricSession, keypairs, table
    <2> QED BY <1>1, <1>2, <2>1 DEF TypeInv, TypeOK, ChainOK, Derivable
  <1>4. CASE Derivable(n)
    <2> DEFINE kp == Derived(n)
    <2>1. kp \in Keypair
      BY <1>4, DerivedType
    <2>2. /\ RotateInitiator(n, kp) \/ RotateResponder(n, kp)
          /\ Cleared(n)
          /\ derived' = [derived EXCEPT ![n] = @ \cup {kp.key}]
      BY <1>4 DEF BeginSymmetricSession, Derived, Cleared
    <2>3. net' \subseteq net \cup ({msg} \ {Nil}) \cup
                {[type |-> "transport", from |-> n, key |-> kp.key, receiver |-> kp.remote]}
      BY <1>4 DEF BeginSymmetricSession, Derived
    <2>4. msg \in Response \cup {Nil}
      BY WorkMessage DEF TypeInv, TypeOK, BeginSymmetricSession
    <2> HIDE DEF kp, msg
    <2>5. [type |-> "transport", from |-> n, key |-> kp.key, receiver |-> kp.remote]
          \in Transport
      BY <2>1 DEF Transport, Keypair
    <2>6. net' \subseteq Initiation \cup Response \cup Transport
      BY <2>3, <2>4, <2>5, SMTT(60) DEF TypeInv, TypeOK
    <2>7. derived' \in [Nodes -> SUBSET Key]
      BY <2>1, <2>2 DEF TypeInv, TypeOK, Keypair
    <2>8. KeypairsType' /\ TableType'
      BY <2>1, <2>2, RotateType, Parts DEF TypeInv
    <2>9. HandshakeType' /\ ChainOK'
      BY <2>2, ClearedType
    <2> QED BY <1>1, <1>2, <2>6, <2>7, <2>8, <2>9
            DEF TypeInv, TypeOK, HandshakeType, KeypairsType, TableType
  <1> QED BY <1>3, <1>4

\* ReceivedWithKeypair keeps the types.
LEMMA ReceiveType ==
  ASSUME TypeInv, NEW n \in Nodes, NEW m \in net, Receive(n, m)
  PROVE  TypeInv'
  <1> DEFINE kp == routed[n][m.receiver]
  <1>1. kp \in Keypair /\ ReceivedWithKeypair(n, kp)
    BY DEF Receive, TypeInv, TypeOK
  <1>2. UNCHANGED <<hs, work, zeroing, net, made, derived>>
    BY DEF Receive
  <1> HIDE DEF kp
  <1>3. KeypairsType'
    BY <1>1, Parts DEF TypeInv, KeypairsType, ReceivedWithKeypair
  <1>4. TableType'
    BY <1>1, TableUpdate, Parts DEF TypeInv, ReceivedWithKeypair
  <1> QED BY <1>2, <1>3, <1>4 DEF TypeInv, TypeOK, ChainOK, Derivable, KeypairsType, TableType

\* Both halves of ZeroAndFlushAll keep the types.
LEMMA ZeroType ==
  ASSUME TypeInv, NEW n \in Nodes, ZeroKeypairs(n) \/ ZeroHandshake(n)
  PROVE  TypeInv'
  <1>1. TableType'
    BY TableUpdate, Parts DEF TypeInv, ZeroKeypairs, ZeroHandshake
  <1>2. CASE ZeroKeypairs(n)
    <2>1. UNCHANGED <<hs, work, net, derived>> /\ zeroing' \subseteq Nodes
      BY <1>2 DEF ZeroKeypairs, TypeInv, TypeOK
    <2>2. made' = [made EXCEPT !.zeroings = @ + 1]
      BY <1>2 DEF ZeroKeypairs
    <2>3. made' \in [initiations : Nat, responses : Nat, zeroings : Nat]
      BY <2>2 DEF TypeInv, TypeOK
    <2>4. KeypairsType'
      BY <1>2, Parts DEF TypeInv, ZeroKeypairs, KeypairsType
    <2> QED BY <1>1, <2>1, <2>3, <2>4
            DEF TypeInv, TypeOK, ChainOK, Derivable, KeypairsType, TableType
  <1>3. CASE ZeroHandshake(n)
    <2>1. /\ UNCHANGED <<current, previous, next, work, net, made, derived>>
          /\ zeroing' \subseteq Nodes
          /\ Cleared(n)
      BY <1>3 DEF ZeroHandshake, keypairs, Cleared, TypeInv, TypeOK
    <2>2. HandshakeType' /\ ChainOK'
      BY <2>1, ClearedType
    <2> QED BY <1>1, <2>1, <2>2 DEF TypeInv, TypeOK, HandshakeType, TableType
  <1> QED BY <1>2, <1>3

\* Every step keeps the types.
LEMMA TypeStep == TypeInv /\ [Next]_vars => TypeInv'
  <1> SUFFICES ASSUME TypeInv, [Next]_vars PROVE TypeInv'
    OBVIOUS
  <1>1. CASE UNCHANGED vars
    BY <1>1 DEF vars, keypairs, table, TypeInv, TypeOK, ChainOK, Derivable
  <1>2. CASE Next
    <2>1. PICK n \in Nodes :
             \/ CreateInitiation(n)
             \/ \E w \in Workers : HandshakeStep(n, w)
             \/ \E m \in net : Receive(n, m)
             \/ ZeroKeypairs(n) \/ ZeroHandshake(n)
      BY <1>2 DEF Next
    <2>2. CASE CreateInitiation(n)
      BY <2>2, CreateInitiationType
    <2>3. CASE \E w \in Workers : HandshakeStep(n, w)
      <3>1. PICK w \in Workers : HandshakeStep(n, w)
        BY <2>3
      <3> QED BY <3>1, ReadType, CommitType, CreateResponseType, BeginType
              DEF HandshakeStep
    <2>4. CASE \E m \in net : Receive(n, m)
      BY <2>4, ReceiveType
    <2>5. CASE ZeroKeypairs(n) \/ ZeroHandshake(n)
      BY <2>5, ZeroType
    <2> QED BY <2>1, <2>2, <2>3, <2>4, <2>5
  <1> QED BY <1>1, <1>2

\* Every variable keeps its type; in particular a keypair is derived only from a
\* chaining key that both ephemeral keys were mixed into (noise-protocol.go).
THEOREM NoiseType == Spec => []TypeOK
  <1>1. Init => TypeInv
    BY InitType
  <1>2. TypeInv /\ [Next]_vars => TypeInv'
    BY TypeStep
  <1>3. TypeInv => TypeOK
    BY DEF TypeInv
  <1> QED BY <1>1, <1>2, <1>3, PTL DEF Spec

-----------------------------------------------------------------------------
(* The index table.  The invariant of one node is stated about values, so  *)
(* that what each operation does to it is a lemma without states: l is the *)
(* handshake's index, W and R the table, c, p and x the three keypairs.    *)

Apart(a, b) == a # Nil /\ b # Nil /\ a.local # Nil => a.local # b.local

\* IndexTableExact for one node, and what makes it inductive: an index is never
\* shared, neither by two keypairs nor by a keypair and the handshake.
Exact(l, W, R, c, p, x) ==
    /\ W = {l} \ {Nil}
    /\ \A i \in Indices : R[i] # Nil => R[i] \in {c, p, x} /\ R[i].local = i
    /\ \A kp \in {c, p, x} \ {Nil} : kp.local # Nil => R[kp.local] = kp
    /\ l # Nil => R[l] = Nil
    /\ Apart(c, p) /\ Apart(c, x) /\ Apart(p, x)

Without(R, gone) == [i \in Indices |-> IF i \in gone THEN Nil ELSE R[i]]

\* Deleting the handshake's index and allocating another.
LEMMA ExactReindex ==
  ASSUME NEW l \in Index, NEW W, NEW R \in [Indices -> Keypair \cup {Nil}],
         NEW c \in Keypair \cup {Nil}, NEW p \in Keypair \cup {Nil},
         NEW x \in Keypair \cup {Nil}, Exact(l, W, R, c, p, x),
         NEW j \in Indices, j = l \/ R[j] = Nil
  PROVE  Exact(j, (W \ {l}) \cup {j}, Without(R, {l}), c, p, x)
  BY NoiseAssumption DEF Exact, Apart, Without, Index, Keypair

\* Deleting the handshake's index.
LEMMA ExactClear ==
  ASSUME NEW l \in Index, NEW W, NEW R \in [Indices -> Keypair \cup {Nil}],
         NEW c \in Keypair \cup {Nil}, NEW p \in Keypair \cup {Nil},
         NEW x \in Keypair \cup {Nil}, Exact(l, W, R, c, p, x)
  PROVE  Exact(Nil, W \ {l}, Without(R, {l}), c, p, x)
  BY NoiseAssumption DEF Exact, Apart, Without, Index, Keypair

\* Confirming the next keypair drops the previous one.
LEMMA ExactReceived ==
  ASSUME NEW l \in Index, NEW W, NEW R \in [Indices -> Keypair \cup {Nil}],
         NEW c \in Keypair \cup {Nil}, NEW p \in Keypair \cup {Nil},
         NEW x \in Keypair, Exact(l, W, R, c, p, x)
  PROVE  Exact(l, W \ IndicesOf({p}), Without(R, IndicesOf({p})), x, c, Nil)
  BY NoiseAssumption DEF Exact, Apart, Without, Index, Keypair, IndicesOf

\* Dropping all three keypairs.
LEMMA ExactZero ==
  ASSUME NEW l \in Index, NEW W, NEW R \in [Indices -> Keypair \cup {Nil}],
         NEW c \in Keypair \cup {Nil}, NEW p \in Keypair \cup {Nil},
         NEW x \in Keypair \cup {Nil}, Exact(l, W, R, c, p, x)
  PROVE  Exact(l, W \ IndicesOf({c, p, x}), Without(R, IndicesOf({c, p, x})),
               Nil, Nil, Nil)
  BY NoiseAssumption DEF Exact, Apart, Without, Index, Keypair, IndicesOf

\* SwapIndexForKeypair of the handshake's index, and the rotations.
Swapped(R, l, kp, gone) ==
    [i \in Indices |-> IF i \in gone THEN Nil ELSE IF i = l THEN kp ELSE R[i]]

\* The keypair takes over the handshake's index; the three ways to rotate.
LEMMA ExactSwap ==
  ASSUME NEW l \in Index, NEW W, NEW R \in [Indices -> Keypair \cup {Nil}],
         NEW c \in Keypair \cup {Nil}, NEW p \in Keypair \cup {Nil},
         NEW x \in Keypair \cup {Nil}, Exact(l, W, R, c, p, x),
         NEW kp \in Keypair, kp.local = l
  PROVE  /\ x # Nil => Exact(Nil, {}, Swapped(R, l, kp, IndicesOf({c, p})), kp, x, Nil)
         /\ x = Nil => Exact(Nil, {}, Swapped(R, l, kp, IndicesOf({p})), kp, c, Nil)
         /\ Exact(Nil, {}, Swapped(R, l, kp, IndicesOf({x, p})), c, Nil, kp)
  <1>1. l # Nil => /\ l \in Indices /\ R[l] = Nil
                   /\ \A k \in {c, p, x} \ {Nil} : k.local # l
    BY NoiseAssumption DEF Exact, Index
  <1>2. x # Nil => Exact(Nil, {}, Swapped(R, l, kp, IndicesOf({c, p})), kp, x, Nil)
    BY <1>1, NoiseAssumption, SMTT(60) DEF Exact, Apart, Swapped, Index, Keypair, IndicesOf
  <1>3. x = Nil => Exact(Nil, {}, Swapped(R, l, kp, IndicesOf({p})), kp, c, Nil)
    BY <1>1, NoiseAssumption, SMTT(60) DEF Exact, Apart, Swapped, Index, Keypair, IndicesOf
  <1>4. Exact(Nil, {}, Swapped(R, l, kp, IndicesOf({x, p})), c, Nil, kp)
    BY <1>1, NoiseAssumption DEF Exact, Apart, Swapped, Index, Keypair, IndicesOf
  <1> QED BY <1>2, <1>3, <1>4

-----------------------------------------------------------------------------
ExactAt(n) == Exact(hs[n].local, waiting[n], routed[n], current[n], previous[n], next[n])

TableInv == TypeInv /\ \A n \in Nodes : ExactAt(n)

\* The parts of the type invariant that the table is about.
LEMMA Typed == TypeInv => HandshakeType /\ KeypairsType /\ TableType
  BY Parts DEF TypeInv

\* The types of what belongs to one node.
LEMMA TypeAt ==
  ASSUME TypeInv, NEW n \in Nodes
  PROVE  /\ hs[n].local \in Index
         /\ routed[n] \in [Indices -> Keypair \cup {Nil}]
         /\ current[n] \in Keypair \cup {Nil}
         /\ previous[n] \in Keypair \cup {Nil}
         /\ next[n] \in Keypair \cup {Nil}
  BY Typed, SMTT(60) DEF HandshakeType, KeypairsType, TableType, Handshake

\* CreateMessageInitiation and CreateMessageResponse keep the table exact.
LEMMA ReindexStep ==
  ASSUME TableInv, NEW n \in Nodes, NEW j \in FreshIndices(n), Reindex(n, j),
         hs'[n].local = j, UNCHANGED keypairs
  PROVE  ExactAt(n)'
  <1>1. j \in Indices /\ (j = hs[n].local \/ routed[n][j] = Nil)
    BY DEF FreshIndices, InUse
  <1>2. /\ waiting'[n] = (waiting[n] \ {hs[n].local}) \cup {j}
        /\ routed'[n] = Without(routed[n], {hs[n].local})
    BY Typed, SMTT(60) DEF Reindex, TableInv, TableType, Without
  <1>3. Exact(j, (waiting[n] \ {hs[n].local}) \cup {j},
              Without(routed[n], {hs[n].local}), current[n], previous[n], next[n])
    BY <1>1, TypeAt, ExactReindex, SMTT(60) DEF TableInv, ExactAt
  <1> QED BY <1>2, <1>3 DEF ExactAt, keypairs

\* BeginSymmetricSession keeps the table exact.
LEMMA BeginStep ==
  ASSUME TableInv, NEW n \in Nodes, NEW kp \in Keypair, kp.local = hs[n].local,
         RotateInitiator(n, kp) \/ RotateResponder(n, kp), hs'[n].local = Nil
  PROVE  ExactAt(n)'
  <1> DEFINE l == hs[n].local
  <1>1. Exact(l, waiting[n], routed[n], current[n], previous[n], next[n])
    BY DEF TableInv, ExactAt
  <1>2. ASSUME NEW gone, SwapIndex(n, kp, gone)
        PROVE  waiting'[n] = {} /\ routed'[n] = Swapped(routed[n], l, kp, IndicesOf(gone))
    <2>1. InUse(n, l) <=> l # Nil
      BY <1>1, NoiseAssumption, TypeAt, SMTT(60) DEF InUse, Exact, TableInv, Index
    <2>2. waiting[n] = {l} \ {Nil}
      BY <1>1, SMTT(60) DEF Exact
    <2>3. waiting'[n] = {}
      BY <1>2, <2>1, <2>2, Typed, SMTT(60) DEF SwapIndex, TableInv, TableType
    <2>4. routed'[n] = [i \in Indices |-> IF i \in IndicesOf(gone) THEN Nil
                          ELSE IF i \in (IF InUse(n, l) THEN {l} ELSE {}) THEN kp
                          ELSE routed[n][i]]
      BY <1>2, Typed DEF SwapIndex, TableInv, TableType
    <2>5. \A i \in Indices : i \in (IF InUse(n, l) THEN {l} ELSE {}) <=> i = l
      BY <2>1, NoiseAssumption, SMTT(60)
    <2> QED BY <2>3, <2>4, <2>5, SMTT(60) DEF Swapped
  <1>3. /\ next[n] # Nil => Exact(Nil, {}, Swapped(routed[n], l, kp,
                IndicesOf({current[n], previous[n]})), kp, next[n], Nil)
        /\ next[n] = Nil => Exact(Nil, {}, Swapped(routed[n], l, kp,
                IndicesOf({previous[n]})), kp, current[n], Nil)
        /\ Exact(Nil, {}, Swapped(routed[n], l, kp, IndicesOf({next[n], previous[n]})),
                 current[n], Nil, kp)
    BY <1>1, TypeAt, ExactSwap, ZenonT(60) DEF TableInv
  <1> HIDE DEF l
  <1>4. CASE RotateInitiator(n, kp) /\ next[n] # Nil
    BY <1>2, <1>3, <1>4, Typed, Zenon DEF RotateInitiator, ExactAt, TableInv, KeypairsType
  <1>5. CASE RotateInitiator(n, kp) /\ next[n] = Nil
    BY <1>2, <1>3, <1>5, Typed, ZenonT(60) DEF RotateInitiator, ExactAt, TableInv, KeypairsType
  <1>6. CASE RotateResponder(n, kp)
    BY <1>2, <1>3, <1>6, Typed, ZenonT(60) DEF RotateResponder, ExactAt, TableInv, KeypairsType
  <1> QED BY <1>4, <1>5, <1>6

\* ReceivedWithKeypair keeps the table exact.
LEMMA ReceiveStep ==
  ASSUME TableInv, NEW n \in Nodes, NEW m \in net, Receive(n, m)
  PROVE  ExactAt(n)'
  <1>1. next[n] \in Keypair /\ ReceivedWithKeypair(n, next[n]) /\ UNCHANGED hs
    BY Typed, SMTT(60) DEF Receive, ReceivedWithKeypair, TableInv, KeypairsType
  <1>2. Exact(hs[n].local, waiting[n] \ IndicesOf({previous[n]}),
              Without(routed[n], IndicesOf({previous[n]})), next[n], current[n], Nil)
    BY <1>1, TypeAt, ExactReceived, SMTT(60) DEF TableInv, ExactAt
  <1>3. /\ waiting'[n] = waiting[n] \ IndicesOf({previous[n]})
        /\ routed'[n] = Without(routed[n], IndicesOf({previous[n]}))
    BY <1>1, Typed, SMTT(60) DEF ReceivedWithKeypair, Delete, Without, TableInv, TableType
  <1>4. current'[n] = next[n] /\ previous'[n] = current[n] /\ next'[n] = Nil
    BY <1>1, Typed DEF ReceivedWithKeypair, TableInv, KeypairsType
  <1> QED BY <1>1, <1>2, <1>3, <1>4, ZenonT(30) DEF ExactAt

\* Both halves of ZeroAndFlushAll keep the table exact.
LEMMA ZeroStep ==
  ASSUME TableInv, NEW n \in Nodes, ZeroKeypairs(n) \/ ZeroHandshake(n)
  PROVE  ExactAt(n)'
  <1> DEFINE gone == IndicesOf({current[n], previous[n], next[n]})
  <1>1. CASE ZeroKeypairs(n)
    <2>1. Exact(hs[n].local, waiting[n] \ gone, Without(routed[n], gone), Nil, Nil, Nil)
      BY TypeAt, ExactZero DEF TableInv, ExactAt
    <2> HIDE DEF gone
    <2>2. waiting'[n] = waiting[n] \ gone /\ routed'[n] = Without(routed[n], gone)
      BY <1>1, Typed DEF ZeroKeypairs, Delete, Without, TableInv, TableType, gone
    <2>3. current'[n] = Nil /\ previous'[n] = Nil /\ next'[n] = Nil /\ hs' = hs
      BY <1>1, Typed, SMTT(60) DEF ZeroKeypairs, TableInv, KeypairsType
    <2> QED BY <2>1, <2>2, <2>3, ZenonT(30) DEF ExactAt
  <1>2. CASE ZeroHandshake(n)
    <2>1. Exact(Nil, waiting[n] \ {hs[n].local}, Without(routed[n], {hs[n].local}),
                current[n], previous[n], next[n])
      BY TypeAt, ExactClear DEF TableInv, ExactAt
    <2>2. /\ waiting'[n] = waiting[n] \ {hs[n].local}
          /\ routed'[n] = Without(routed[n], {hs[n].local})
      BY <1>2, Typed DEF ZeroHandshake, Delete, Without, TableInv, TableType
    <2>3. hs'[n].local = Nil
      BY <1>2, Typed DEF ZeroHandshake, TableInv, HandshakeType, Handshake
    <2>4. UNCHANGED keypairs
      BY <1>2, Zenon DEF ZeroHandshake
    <2> QED BY <2>1, <2>2, <2>3, <2>4, ZenonT(30) DEF ExactAt, keypairs
  <1> QED BY <1>1, <1>2, SMTT(60)

\* A step of n leaves the other nodes' part of the state alone.
LEMMA Frame ==
  ASSUME TypeInv, NEW n \in Nodes, NEW x \in Nodes \ {n},
         \/ CreateInitiation(n)
         \/ \E w \in Workers : HandshakeStep(n, w)
         \/ \E m \in net : Receive(n, m)
         \/ ZeroKeypairs(n) \/ ZeroHandshake(n)
  PROVE  /\ hs'[x] = hs[x] /\ waiting'[x] = waiting[x] /\ routed'[x] = routed[x]
         /\ current'[x] = current[x] /\ previous'[x] = previous[x] /\ next'[x] = next[x]
  <1>1. CASE CreateInitiation(n)
    BY <1>1, Typed, ZenonT(60) DEF CreateInitiation, Reindex, keypairs, HandshakeType, TableType
  <1>2. ASSUME NEW w \in Workers, HandshakeStep(n, w)
        PROVE  /\ hs'[x] = hs[x] /\ waiting'[x] = waiting[x] /\ routed'[x] = routed[x]
               /\ current'[x] = current[x] /\ previous'[x] = previous[x]
               /\ next'[x] = next[x]
    <2>1. CASE \E m \in net : ReadInitiation(n, w, m) \/ ReadResponse(n, w, m)
      BY <2>1, ZenonT(30) DEF ReadInitiation, ReadResponse, keypairs, table
    <2>2. CASE CommitInitiation(n, w) \/ CommitResponse(n, w)
      BY <2>2, Typed DEF CommitInitiation, CommitResponse, keypairs, table, HandshakeType
    <2>3. CASE CreateResponse(n, w)
      BY <2>3, Typed DEF CreateResponse, Reindex, keypairs, table, HandshakeType, TableType
    <2>4. CASE BeginSymmetricSession(n, w)
      BY <2>4, Typed, SMTT(60) DEF BeginSymmetricSession, RotateInitiator, RotateResponder, SwapIndex,
                  keypairs, table, HandshakeType, KeypairsType, TableType
    <2> QED BY <1>2, <2>1, <2>2, <2>3, <2>4, ZenonT(30) DEF HandshakeStep
  <1>3. CASE \E m \in net : Receive(n, m)
    BY <1>3, Typed, ZenonT(60) DEF Receive, ReceivedWithKeypair, Delete, KeypairsType, TableType
  <1>4. CASE ZeroKeypairs(n) \/ ZeroHandshake(n)
    BY <1>4, Typed DEF ZeroKeypairs, ZeroHandshake, Delete, keypairs,
            HandshakeType, KeypairsType, TableType
  <1> QED BY <1>1, <1>2, <1>3, <1>4, SMTT(60)

\* Every step of a handshake worker keeps the table exact.
LEMMA HandshakeStepExact ==
  ASSUME TableInv, NEW n \in Nodes, NEW w \in Workers, HandshakeStep(n, w)
  PROVE  ExactAt(n)'
  <1>1. CASE \E m \in net : ReadInitiation(n, w, m) \/ ReadResponse(n, w, m)
    BY <1>1, SMTT(60) DEF ReadInitiation, ReadResponse, keypairs, table, TableInv, ExactAt
  <1>2. CASE CommitInitiation(n, w) \/ CommitResponse(n, w)
    <2>1. hs'[n].local = hs[n].local /\ UNCHANGED <<keypairs, table>>
      BY <1>2, Typed DEF CommitInitiation, CommitResponse, TableInv, HandshakeType, Handshake
    <2> QED BY <2>1, ZenonT(30) DEF keypairs, table, TableInv, ExactAt
  <1>3. CASE CreateResponse(n, w)
    <2>1. CASE hs[n].state # "InitiationConsumed"
      BY <1>3, <2>1 DEF CreateResponse, keypairs, table, TableInv, ExactAt
    <2>2. CASE hs[n].state = "InitiationConsumed"
      <3>1. PICK j \in FreshIndices(n) :
               /\ Reindex(n, j)
               /\ hs' = [hs EXCEPT ![n].state = "ResponseCreated",
                           ![n].chain = <<@[1], <<n, made.responses + 1>>>>, ![n].local = j]
        BY <1>3, <2>2 DEF CreateResponse
      <3>2. hs'[n].local = j
        BY <3>1, Typed DEF TableInv, HandshakeType, Handshake
      <3>3. UNCHANGED keypairs
        BY <1>3 DEF CreateResponse
      <3> QED BY <3>1, <3>2, <3>3, ReindexStep, Zenon
    <2> QED BY <2>1, <2>2
  <1>4. CASE BeginSymmetricSession(n, w)
    <2>1. CASE ~ Derivable(n)
      BY <1>4, <2>1 DEF BeginSymmetricSession, keypairs, table, TableInv, ExactAt
    <2>2. CASE Derivable(n)
      <3>1. /\ RotateInitiator(n, Derived(n)) \/ RotateResponder(n, Derived(n))
            /\ Cleared(n)
        BY <1>4, <2>2 DEF BeginSymmetricSession, Derived, Cleared
      <3>2. hs'[n].local = Nil
        BY <3>1, Typed DEF Cleared, TableInv, HandshakeType, Handshake
      <3>3. Derived(n) \in Keypair /\ Derived(n).local = hs[n].local
        BY <2>2, DerivedType DEF TableInv, Derived
      <3> QED BY <3>1, <3>2, <3>3, BeginStep
    <2> QED BY <2>1, <2>2
  <1> QED BY <1>1, <1>2, <1>3, <1>4, ZenonT(30) DEF HandshakeStep

\* The invariant is inductive.
LEMMA TableStep == TableInv /\ [Next]_vars => TableInv'
  <1> SUFFICES ASSUME TableInv, [Next]_vars PROVE TableInv'
    OBVIOUS
  <1>1. TypeInv'
    BY TypeStep, ZenonT(30) DEF TableInv
  <1>2. CASE UNCHANGED vars
    BY <1>1, <1>2 DEF vars, keypairs, table, TableInv, ExactAt
  <1>3. CASE Next
    <2>1. PICK n \in Nodes :
             \/ CreateInitiation(n)
             \/ \E w \in Workers : HandshakeStep(n, w)
             \/ \E m \in net : Receive(n, m)
             \/ ZeroKeypairs(n) \/ ZeroHandshake(n)
      BY <1>3 DEF Next
    <2>2. ASSUME NEW x \in Nodes \ {n} PROVE ExactAt(x)'
      BY <2>1, Frame DEF TableInv, ExactAt
    <2>3. ExactAt(n)'
      <3>1. CASE CreateInitiation(n)
        <4>1. PICK j \in FreshIndices(n) :
                 /\ Reindex(n, j)
                 /\ hs' = [hs EXCEPT ![n].state = "InitiationCreated",
                        ![n].chain = <<<<n, made.initiations + 1>>, Nil>>, ![n].local = j]
          BY <3>1, Zenon DEF CreateInitiation
        <4>2. hs'[n].local = j /\ UNCHANGED keypairs
          BY <3>1, <4>1, Typed DEF CreateInitiation, TableInv, HandshakeType, Handshake
        <4> QED BY <4>1, <4>2, ReindexStep, Zenon
      <3>2. CASE \E w \in Workers : HandshakeStep(n, w)
        BY <3>2, HandshakeStepExact
      <3>3. CASE \E m \in net : Receive(n, m)
        BY <3>3, ReceiveStep
      <3>4. CASE ZeroKeypairs(n) \/ ZeroHandshake(n)
        BY <3>4, ZeroStep, ZenonT(30)
      <3> QED BY <2>1, <3>1, <3>2, <3>3, <3>4
    <2> QED BY <1>1, <2>2, <2>3, ZenonT(30) DEF TableInv
  <1> QED BY <1>2, <1>3

\* It holds of new peers, whose tables are empty.
LEMMA TableInit == Init => TableInv
  BY InitType DEF Init, TableInv, ExactAt, Exact, Apart

\* The index table leads to the handshake's index and to the keypairs held, and to
\* nothing else, for any number of handshake workers, timers and receivers between
\* whose steps indices are allocated, swapped and deleted (indextable.go,
\* BeginSymmetricSession, ReceivedWithKeypair, ZeroAndFlushAll).
THEOREM IndexTable == Spec => []IndexTableExact
  <1>1. Init => TableInv
    BY TableInit
  <1>2. TableInv /\ [Next]_vars => TableInv'
    BY TableStep
  <1>3. TableInv => IndexTableExact
    BY DEF TableInv, ExactAt, Exact, IndexTableExact, Held
  <1> QED BY <1>1, <1>2, <1>3, PTL DEF Spec

\* The latest timestamp accepted from the peer never goes back: the write under
\* the second hold of the lock compares again (ConsumeMessageInitiation).
THEOREM Timestamps == Spec => TimestampsAdvance
  <1> DEFINE Advance == \A n \in Nodes : hs'[n].timestamp >= hs[n].timestamp
  <1>1. TypeInv /\ [Next]_vars => [Advance]_vars
    <2> SUFFICES ASSUME TypeInv, Next PROVE Advance
      OBVIOUS
    <2>1. PICK n \in Nodes :
             \/ CreateInitiation(n)
             \/ \E w \in Workers : HandshakeStep(n, w)
             \/ \E m \in net : Receive(n, m)
             \/ ZeroKeypairs(n) \/ ZeroHandshake(n)
      BY DEF Next
    <2>2. \A x \in Nodes : hs[x].timestamp \in Nat
      BY SMTT(60) DEF TypeInv, TypeOK, Handshake
    <2>3. ASSUME NEW x \in Nodes \ {n} PROVE hs'[x].timestamp >= hs[x].timestamp
      BY <2>1, <2>2, Frame, SMTT(60)
    <2>4. hs'[n].timestamp >= hs[n].timestamp
      <3>1. CASE CreateInitiation(n) \/ ZeroHandshake(n)
        <4>1. hs'[n].timestamp = hs[n].timestamp
          BY <3>1 DEF CreateInitiation, ZeroHandshake, TypeInv, TypeOK, Handshake
        <4> QED BY <2>2, <4>1
      <3>2. CASE ZeroKeypairs(n) \/ \E m \in net : Receive(n, m)
        BY <2>2, <3>2 DEF ZeroKeypairs, Receive
      <3>3. ASSUME NEW w \in Workers, HandshakeStep(n, w)
            PROVE  hs'[n].timestamp >= hs[n].timestamp
        <4>1. CASE CommitInitiation(n, w)
          <5>1. work[n][w].msg \in Initiation
            BY <4>1, WorkMessage DEF CommitInitiation, TypeInv, TypeOK
          <5>2. work[n][w].msg.eph[2] \in Nat
            BY <5>1 DEF Initiation, Ephemeral
          <5> QED BY <2>2, <4>1, <5>2 DEF CommitInitiation, TypeInv, TypeOK, Handshake
        <4>2. CASE CommitResponse(n, w) \/ CreateResponse(n, w) \/ BeginSymmetricSession(n, w)
          <5>1. hs'[n].timestamp = hs[n].timestamp
            BY <4>2 DEF CommitResponse, CreateResponse, BeginSymmetricSession,
                        TypeInv, TypeOK, Handshake
          <5> QED BY <2>2, <5>1, SMTT(60)
        <4>3. CASE \E m \in net : ReadInitiation(n, w, m) \/ ReadResponse(n, w, m)
          BY <2>2, <4>3 DEF ReadInitiation, ReadResponse
        <4> QED BY <3>3, <4>1, <4>2, <4>3 DEF HandshakeStep
      <3> QED BY <2>1, <3>1, <3>2, <3>3
    <2> QED BY <2>3, <2>4
  <1>2. TypeInv /\ [Next]_vars => TypeInv'
    BY TypeStep
  <1>3. Init => TypeInv
    BY InitType
  <1> QED BY <1>1, <1>2, <1>3, PTL DEF Spec, TimestampsAdvance
=============================================================================
