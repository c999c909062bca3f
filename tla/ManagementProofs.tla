-------------------------- MODULE ManagementProofs --------------------------
(***************************************************************************)
(* Type correctness of the management plane; and, when the requests about  *)
(* one user come one after the other, that it leaves no stray peer behind  *)
(* and that addresses lead to the peers of their users: for any numbers of *)
(* users and requests, any subnet, and whatever calls fail or crash.       *)
(***************************************************************************)
EXTENDS Management, FiniteSetTheorems, WellFoundedInduction, TLAPS

-----------------------------------------------------------------------------
(* Address allocation.                                                     *)

\* A non-empty set of numbers has a least element, which is what Min chooses.
LEMMA MinIn ==
    ASSUME NEW S \in SUBSET Nat, S # {}
    PROVE  Min(S) \in S
<1> DEFINE R == {ss \in Nat \X Nat : ss[1] < ss[2]}
<1>1. IsWellFoundedOn(R, Nat)
  <2>1. OpToRel(<, Nat) = R
    BY Zenon DEF OpToRel
  <2>2. QED
    BY <2>1, NatLessThanWellFounded, Zenon
<1> HIDE DEF R
<1>2. PICK x \in S : \A y \in S : <<y, x>> \notin R
  BY <1>1, WFMin, Zenon
<1>3. ASSUME NEW y \in S PROVE x =< y
  <2>1. x \in Nat /\ y \in Nat /\ <<y, x>> \notin R
    BY <1>2
  <2>2. QED
    BY <2>1 DEF R
<1>4. QED
  BY <1>3, Zenon DEF Min

\* allocateIP gives out a host of the pool, or fails.
LEMMA AllocateInPool ==
    ASSUME NEW used
    PROVE  AllocateHost(used) \in PoolHosts \cup {-1}
<1> DEFINE free == {h \in PoolHosts : h \notin {ipToHost(a) : a \in used}}
<1>1. free \in SUBSET Nat /\ free \subseteq PoolHosts
  BY TableAssumption DEF PoolHosts
<1>2. CASE free = {}
  BY <1>2 DEF AllocateHost
<1>3. CASE free # {}
  <2>1. Min(free) \in free
    BY <1>1, <1>3, MinIn
  <2>2. AllocateHost(used) = Min(free)
    BY <1>3 DEF AllocateHost
  <2>3. QED
    BY <2>1, <2>2, <1>1
<1>4. QED
  BY <1>2, <1>3
-----------------------------------------------------------------------------
(* Typing.                                                                 *)

\* The outcomes of the limiter's operations are outcomes.
LEMMA LimiterOutcomes ==
    ASSUME NEW old \in Rules, NEW bw \in Rates \cup {0}
    PROVE  /\ Apply(old, bw) \subseteq BOOLEAN \X Rules
           /\ Remove(old) \subseteq BOOLEAN \X Rules
           /\ Update(old, bw) \subseteq BOOLEAN \X Rules
<1> DEFINE O == BOOLEAN \X Rules
<1>a. \A r \in Rules : <<TRUE, r>> \in O /\ <<FALSE, r>> \in O
  BY Zenon
<1>b. bw \in Rules /\ 0 \in Rules /\ Partial \in Rules
  BY DEF Rules
<1>c. \A S : Failing(S) \subseteq S
  BY DEF Failing
<1> HIDE DEF O
<1>1. \A r \in Rules : Apply(r, bw) \subseteq O
  <2> TAKE r \in Rules
  <2> DEFINE F == BOOLEAN \X Mixed(r, bw)
  <2>1. <<TRUE, r>> \in O /\ <<TRUE, bw>> \in O
    BY <1>a, <1>b, Zenon
  <2>2. F \subseteq O
    <3>1. Mixed(r, bw) \subseteq Rules
      BY <1>b DEF Mixed, Rules
    <3>2. QED
      BY <3>1 DEF O
  <2>3. Apply(r, bw) \subseteq {<<TRUE, r>>} \cup {<<TRUE, bw>>} \cup Failing(F)
    BY Zenon DEF Apply
  <2> HIDE DEF F
  <2>4. QED
    BY <2>1, <2>2, <2>3, <1>c, Zenon
<1>2. Remove(old) \subseteq O
  <2> DEFINE F == {<<TRUE, old>>, <<TRUE, Partial>>}
  <2>1. F \subseteq O /\ <<TRUE, 0>> \in O
    BY <1>a, <1>b, Zenon
  <2>2. Failing(F) \subseteq O
    BY <2>1, <1>c, Zenon
  <2> HIDE DEF F
  <2>3. Remove(old) = {<<TRUE, 0>>} \cup Failing(F)
    BY Zenon DEF Remove, F
  <2>4. QED
    BY <2>1, <2>2, <2>3, Zenon
<1>3. Update(old, bw) \subseteq O
  <2>1. \A r \in O : r[2] \in Rules
    BY DEF O
  <2>2. QED
    BY <1>1, <1>2, <2>1, Zenon DEF Update
<1>4. QED
  BY <1>1, <1>2, <1>3 DEF O

\* Moving a request on keeps it a request; ending it makes it idle.
LEMMA Moves ==
    ASSUME TypeOK, NEW p \in Procs, req[p].pc \in Calls, NEW next \in Calls
    PROVE  /\ req[p] \in Request
           /\ Goto(p, next) => req' \in [Procs -> Request \cup {Idle}]
           /\ Respond(p) => req' \in [Procs -> Request \cup {Idle}]
<1>1. req[p] \in Request
  <2>1. req[p] \in Request \cup {Idle}
    BY DEF TypeOK
  <2>2. Idle.pc \notin Calls
    BY DEF Idle, Calls
  <2>3. QED
    BY <2>1, <2>2
<1>2. [req[p] EXCEPT !.pc = next] \in Request
  BY <1>1 DEF Request
<1>3. QED
  BY <1>1, <1>2 DEF Goto, Respond, TypeOK

\* Requests arrive well-formed.
LEMMA BeginType ==
    ASSUME TypeOK, NEW p \in Procs, Begin(p)
    PROVE  TypeOK'
<1>1. ASSUME NEW u \in Ids, NEW bw \in Rates \cup {0}, BeginCreate(p, u, bw)
      PROVE  TypeOK'
  <2> DEFINE host == AllocateHost(Used)
             r == [addr |-> AddressOf(host), class |-> host, bw |-> bw, on |-> TRUE]
  <2>1. host \in PoolHosts
    BY <1>1, AllocateInPool DEF BeginCreate
  <2>2. r \in Row
    BY <2>1 DEF Row, Addrs, Classes
  <2>3. [pc |-> "INSERT", op |-> "create", id |-> u, bw |-> bw, on |-> TRUE,
         row |-> r] \in Request
    BY <2>2 DEF Request, Calls
  <2>4. QED
    BY <1>1, <2>3 DEF BeginCreate, TypeOK, table, device, tick
<1>2. ASSUME NEW u \in Ids, NEW bw \in Rates \cup {0, Absent},
             NEW on \in BOOLEAN \cup {Absent}, BeginUpdate(p, u, bw, on)
      PROVE  TypeOK'
  <2> DEFINE r == [db[u] EXCEPT !.bw = IF bw = Absent THEN @ ELSE bw,
                                !.on = IF on = Absent THEN @ ELSE on]
  <2>1. db[u] \in Row
    BY <1>2 DEF BeginUpdate, TypeOK
  <2>2. r \in Row
    BY <2>1, Zenon DEF Row
  <2>3. [pc |-> "UPDATE", op |-> "update", id |-> u, bw |-> bw, on |-> on,
         row |-> r] \in Request
    BY <2>2 DEF Request, Calls
  <2>4. QED
    BY <1>2, <2>3 DEF BeginUpdate, TypeOK, table, device, tick
<1>3. ASSUME NEW u \in Ids, BeginDelete(p, u)
      PROVE  TypeOK'
  <2>1. db[u] \in Row
    BY <1>3 DEF BeginDelete, TypeOK
  <2>2. [pc |-> "DELETE", op |-> "delete", id |-> u, bw |-> Absent, on |-> Absent,
         row |-> db[u]] \in Request
    BY <2>1 DEF Request, Calls
  <2>3. QED
    BY <1>3, <2>2 DEF BeginDelete, TypeOK, table, device, tick
<1>4. QED
  BY <1>1, <1>2, <1>3 DEF Begin

\* The operations on the device keep its types.
LEMMA DeviceType ==
    ASSUME TypeOK, NEW u \in Ids, NEW a \in Addrs
    PROVE  AddPeer(u, a) \/ RemovePeer(u) =>
             /\ peers' \subseteq Ids
             /\ route' \in [Addrs -> Ids \cup {NoId}]
             /\ behind' \subseteq Ids
BY ZenonT(60) DEF TypeOK, AddPeer, RemovePeer, Without

\* A handler's step moves its request on or ends it.
LEMMA StepMoves ==
    ASSUME NEW p \in Procs, Step(p)
    PROVE  /\ req[p].pc \in Calls
           /\ Respond(p) \/ \E next \in Calls : Goto(p, next)
<1>1. CASE Insert(p)
  BY <1>1, ZenonT(60) DEF Insert, Calls
<1>2. CASE UndoPeer(p)
  BY <1>2, ZenonT(60) DEF UndoPeer, Calls
<1>3. CASE UndoRow(p)
  BY <1>3, ZenonT(60) DEF UndoRow, Calls
<1>4. CASE CallAddPeer(p)
  BY <1>4, ZenonT(60) DEF CallAddPeer, Calls
<1>5. CASE CallApply(p)
  BY <1>5, ZenonT(60) DEF CallApply, Calls
<1>6. CASE UpdateRow(p)
  BY <1>6, ZenonT(60) DEF UpdateRow, Enabling, Calls
<1>7. CASE CallUpdate(p)
  BY <1>7, ZenonT(60) DEF CallUpdate, Enabling, Calls
<1>8. CASE DeleteRow(p)
  BY <1>8, ZenonT(60) DEF DeleteRow, Calls
<1>9. CASE CallClearUser(p)
  BY <1>9, ZenonT(60) DEF CallClearUser, Calls
<1>10. CASE CallRemove(p)
  BY <1>10, ZenonT(60) DEF CallRemove, Calls
<1>11. CASE CallRemovePeer(p)
  BY <1>11, ZenonT(60) DEF CallRemovePeer, Calls
<1>12. QED
  BY <1>1, <1>2, <1>3, <1>4, <1>5, <1>6, <1>7, <1>8, <1>9, <1>10, <1>11, Zenon DEF Step

\* A handler's calls keep the types.
LEMMA StepType ==
    ASSUME TypeOK, NEW p \in Procs, Step(p)
    PROVE  TypeOK'
<1> USE DEF table, device, tick
<1>1. req[p].pc \in Calls
  BY StepMoves
<1>2. /\ req[p] \in Request
      /\ \A next \in Calls : Goto(p, next) => req' \in [Procs -> Request \cup {Idle}]
      /\ Respond(p) => req' \in [Procs -> Request \cup {Idle}]
  BY <1>1, Moves
<1>3. /\ req[p].id \in Ids /\ req[p].row \in Row
      /\ req[p].row.addr \in Addrs /\ req[p].row.class \in Classes
      /\ req[p].row.bw \in Rates \cup {0}
  BY <1>2 DEF Request, Row
<1>5. Enabling(p) => req' \in [Procs -> Request \cup {Idle}]
  BY <1>2 DEF Enabling, Calls
<1>6. rules[req[p].row.class] \in Rules
  BY <1>3 DEF TypeOK
<1>7. \A out \in BOOLEAN \X Rules :
         [rules EXCEPT ![req[p].row.class] = out[2]] \in [Classes -> Rules]
  BY ZenonT(60) DEF TypeOK
<1>8. CASE Insert(p)
  BY <1>2, <1>3, <1>8 DEF Insert, TypeOK, Calls
<1>9. CASE UndoPeer(p)
  BY <1>2, <1>3, <1>9, DeviceType DEF UndoPeer, TypeOK, Calls
<1>10. CASE UndoRow(p)
  BY <1>2, <1>3, <1>10 DEF UndoRow, LeftBehind, TypeOK, Calls
<1>11. CASE CallAddPeer(p)
  <2>1. req' \in [Procs -> Request \cup {Idle}]
    BY <1>2, <1>11 DEF CallAddPeer, Calls
  <2>2. /\ peers' \subseteq Ids
        /\ route' \in [Addrs -> Ids \cup {NoId}]
        /\ behind' \subseteq Ids
    BY <1>3, <1>11, DeviceType DEF CallAddPeer, LeftBehind, TypeOK
  <2>3. QED
    BY <1>11, <2>1, <2>2 DEF CallAddPeer, TypeOK
<1>12. CASE CallApply(p)
  <2>1. PICK out \in BOOLEAN \X Rules :
          /\ rules' = [rules EXCEPT ![req[p].row.class] = out[2]]
          /\ Goto(p, "undoPeer") \/ Respond(p)
    BY <1>3, <1>6, <1>12, LimiterOutcomes, Zenon DEF CallApply
  <2>2. QED
    BY <2>1, <1>2, <1>7, <1>12 DEF CallApply, TypeOK, Calls
<1>13. CASE UpdateRow(p)
  BY <1>2, <1>3, <1>5, <1>13 DEF UpdateRow, TypeOK, Calls
<1>14. CASE CallUpdate(p)
  <2>1. PICK out \in BOOLEAN \X Rules :
          /\ rules' = [rules EXCEPT ![req[p].row.class] = out[2]]
          /\ Enabling(p) \/ Respond(p)
          /\ behind' \in {behind, behind \cup {req[p].id}}
    BY <1>3, <1>6, <1>14, LimiterOutcomes, ZenonT(60) DEF CallUpdate, GiveUp, LeftBehind
  <2>2. QED
    BY <2>1, <1>2, <1>3, <1>5, <1>7, <1>14 DEF CallUpdate, TypeOK
<1>15. CASE DeleteRow(p)
  BY <1>2, <1>3, <1>15 DEF DeleteRow, TypeOK, Calls
<1>16. CASE CallClearUser(p)
  BY <1>2, <1>16 DEF CallClearUser, TypeOK, Calls
<1>17. CASE CallRemove(p)
  <2>1. PICK out \in BOOLEAN \X Rules :
          rules' = [rules EXCEPT ![req[p].row.class] = out[2]]
    BY <1>3, <1>6, <1>17, LimiterOutcomes, Zenon DEF CallRemove
  <2>2. QED
    BY <2>1, <1>2, <1>7, <1>17 DEF CallRemove, TypeOK, Calls
<1>18. CASE CallRemovePeer(p)
  BY <1>2, <1>3, <1>18, DeviceType DEF CallRemovePeer, TypeOK
<1>19. QED
  BY <1>8, <1>9, <1>10, <1>11, <1>12, <1>13, <1>14, <1>15, <1>16, <1>17, <1>18 DEF Step
\* Every step keeps the types.
LEMMA TypeStep == ASSUME TypeOK, [Next]_vars PROVE TypeOK'
<1> USE DEF table, device, tick
<1>1. ASSUME NEW p \in Procs, Begin(p) \/ Step(p) PROVE TypeOK'
  BY <1>1, BeginType, StepType
<1>2. CASE MonitorList
  BY <1>2 DEF MonitorList, TypeOK, Rows
<1>3. CASE MonitorPeers
  BY <1>3, Zenon DEF MonitorPeers, TypeOK
<1>4. ASSUME NEW u \in Ids, MonitorHandle(u) PROVE TypeOK'
  BY <1>4 DEF MonitorHandle, TypeOK
<1>5. CASE Crash
  BY <1>5, ZenonT(60) DEF Crash, TypeOK, Rules
<1>6. CASE Start
  <2>1. PICK restored \in SUBSET Rows :
          /\ peers' = restored
          /\ route' = [a \in Addrs |->
                IF \E u \in restored : db[u].addr = a
                THEN CHOOSE u \in restored : db[u].addr = a ELSE NoId]
          /\ rules' \in [Classes -> Rules]
          /\ behind' \subseteq Rows
    BY <1>6, Zenon DEF Start
  <2>2. \A a \in Addrs : (\E u \in restored : db[u].addr = a)
            => (CHOOSE u \in restored : db[u].addr = a) \in Ids
    BY <2>1 DEF Rows
  <2>3. QED
    BY <1>6, <2>1, <2>2 DEF Start, TypeOK, Rows
<1>7. CASE UNCHANGED vars
  BY <1>7 DEF vars, TypeOK
<1>8. QED
  BY <1>1, <1>2, <1>3, <1>4, <1>5, <1>6, <1>7 DEF Next, Monitor

\* Type correctness of the management plane (mgmt/api, mgmt/session, mgmt.go).
THEOREM ManagementType == Spec => []TypeOK
<1>1. Init => TypeOK
  BY Zenon DEF Init, TypeOK, Rules
<1>2. TypeOK /\ [Next]_vars => TypeOK'
  BY TypeStep
<1>3. QED
  BY <1>1, <1>2, PTL DEF Spec

-----------------------------------------------------------------------------
(* No stray peer, when requests about one user do not overlap.             *)

Removing == {"ClearUser", "Remove", "RemovePeer"}

\* Each user has at most one request.
OneRequest ==
    \A p, q \in Procs :
       req[p] # Idle /\ req[q] # Idle /\ req[p].id = req[q].id => p = q

\* Rows and peers belong to ids that were issued.
Known == (\A u \in Ids : db[u] # NoRow => u \in issued) /\ peers \subseteq issued

\* What a handler may rely on between two of its calls: the row it made or read is
\* still there, or the peer it is about to forget is gone.
Places ==
    \A p \in Procs : req[p] # Idle =>
       /\ req[p].pc = "INSERT" <=> req[p].id \notin issued
       /\ req[p].pc \notin Removing \cup {"INSERT", "undoRow"} => db[req[p].id] # NoRow
       /\ req[p].pc = "undoRow" => req[p].id \notin peers

\* A peer without a row is about to be removed by the request that deleted the row.
Accounted ==
    \A u \in peers : db[u] = NoRow =>
       \E p \in Procs : req[p] # Idle /\ req[p].id = u /\ req[p].pc \in Removing

Down == ~ up => peers = {} /\ \A p \in Procs : req[p] = Idle

PeerInv == TypeOK /\ OneRequest /\ Known /\ Places /\ Accounted /\ Down
\* A request that moves on stays the only one about its user; one that ends leaves
\* no trace.  The other requests do not move.
LEMMA OthersStay ==
    ASSUME TypeOK, OneRequest, NEW p \in Procs, req[p].pc \in Calls,
           NEW next \in Calls, Goto(p, next) \/ Respond(p)
    PROVE  /\ \A q \in Procs : q # p => req'[q] = req[q]
           /\ \A q \in Procs : q # p /\ req[q] # Idle => req[q].id # req[p].id
           /\ Goto(p, next) =>
                req'[p] # Idle /\ req'[p].id = req[p].id /\ req'[p].pc = next
           /\ Respond(p) => req'[p] = Idle
           /\ req[p] # Idle /\ req[p].id \in Ids
           /\ OneRequest'
<1>1. req[p] \in Request
  BY Moves
<1>2. req[p] # Idle /\ req[p].id \in Ids
  BY <1>1 DEF Idle, Request, Calls
<1>3. \A q \in Procs : q # p => req'[q] = req[q]
  BY DEF Goto, Respond, TypeOK
<1>4. \A q \in Procs : q # p /\ req[q] # Idle => req[q].id # req[p].id
  BY <1>2 DEF OneRequest
<1>5. ASSUME Goto(p, next)
      PROVE  req'[p] # Idle /\ req'[p].id = req[p].id /\ req'[p].pc = next
  <2>1. req'[p] = [req[p] EXCEPT !.pc = next]
    BY <1>5 DEF Goto, TypeOK
  <2>2. req'[p].id = req[p].id /\ req'[p].pc = next
    BY <1>1, <2>1 DEF Request
  <2>3. QED
    BY <2>2 DEF Idle, Calls
<1>6. Respond(p) => req'[p] = Idle
  BY DEF Respond, TypeOK
<1>7. OneRequest'
  BY <1>3, <1>4, <1>5, <1>6 DEF OneRequest
<1>8. QED
  BY <1>2, <1>3, <1>4, <1>5, <1>6, <1>7

\* A new request is about a user nobody else works on.
LEMMA BeginPeer ==
    ASSUME PeerInv, MaxPerUser = 1, NEW p \in Procs, Begin(p)
    PROVE  PeerInv'
<1> USE DEF table, device, tick
<1>1. TypeOK'
  BY BeginType DEF PeerInv
<1>2. PICK u \in Ids, pc \in {"INSERT", "UPDATE", "DELETE"} :
        /\ up /\ req[p] = Idle /\ Busy(u) = {}
        /\ pc = "INSERT" <=> u \notin issued
        /\ pc # "INSERT" => db[u] # NoRow
        /\ req'[p].id = u /\ req'[p].pc = pc
        /\ \A q \in Procs : q # p => req'[q] = req[q]
        /\ UNCHANGED <<up, db, issued, peers>>
  <2>1. ASSUME NEW u \in Ids, Cardinality(Busy(u)) < MaxPerUser
        PROVE  Busy(u) = {}
    <3>1. IsFiniteSet(Busy(u))
      BY FS_Subset, ManagementAssumption DEF Busy
    <3>2. Cardinality(Busy(u)) \in Nat
      BY <3>1, FS_CardinalityType
    <3>3. Cardinality(Busy(u)) = 0
      BY <2>1, <3>2, MaxPerUser = 1
    <3>4. QED
      BY <3>1, <3>3, FS_EmptySet
  <2>2. ASSUME NEW u \in Ids, NEW bw \in Rates \cup {0}, BeginCreate(p, u, bw)
        PROVE  /\ up /\ req[p] = Idle /\ Busy(u) = {} /\ u \notin issued
               /\ req'[p].id = u /\ req'[p].pc = "INSERT"
               /\ \A q \in Procs : q # p => req'[q] = req[q]
               /\ UNCHANGED <<up, db, issued, peers>>
    BY <2>2 DEF BeginCreate, PeerInv, TypeOK
  <2>3. ASSUME NEW u \in Ids, NEW bw \in Rates \cup {0, Absent},
               NEW on \in BOOLEAN \cup {Absent}, BeginUpdate(p, u, bw, on)
        PROVE  /\ up /\ req[p] = Idle /\ Busy(u) = {} /\ db[u] # NoRow
               /\ req'[p].id = u /\ req'[p].pc = "UPDATE"
               /\ \A q \in Procs : q # p => req'[q] = req[q]
               /\ UNCHANGED <<up, db, issued, peers>>
    BY <2>1, <2>3 DEF BeginUpdate, PeerInv, TypeOK
  <2>4. ASSUME NEW u \in Ids, BeginDelete(p, u)
        PROVE  /\ up /\ req[p] = Idle /\ Busy(u) = {} /\ db[u] # NoRow
               /\ req'[p].id = u /\ req'[p].pc = "DELETE"
               /\ \A q \in Procs : q # p => req'[q] = req[q]
               /\ UNCHANGED <<up, db, issued, peers>>
    BY <2>1, <2>4 DEF BeginDelete, PeerInv, TypeOK
  <2>5. QED
    BY <2>2, <2>3, <2>4 DEF Begin, PeerInv, Known
<1>3. \A q \in Procs : q # p /\ req[q] # Idle => req[q].id # u
  BY <1>2 DEF Busy
<1>4. OneRequest'
  BY <1>2, <1>3 DEF OneRequest, PeerInv
<1>5. Places'
  BY <1>2 DEF Places, PeerInv, Removing
<1>6. Accounted'
  BY <1>2 DEF Accounted, PeerInv
<1>7. Known' /\ Down'
  BY <1>2, SMTT(60) DEF Known, Down, PeerInv
<1>8. QED
  BY <1>1, <1>4, <1>5, <1>6, <1>7 DEF PeerInv
\* A handler's call: what it does to the table and the peers is accounted for.
LEMMA StepPeer ==
    ASSUME PeerInv, NEW p \in Procs, Step(p)
    PROVE  PeerInv'
<1> USE DEF table, device, tick
<1> DEFINE u == req[p].id
<1>1. TypeOK'
  BY StepType, SMTT(60) DEF PeerInv
<1>2. req[p].pc \in Calls
  BY StepMoves
<1>3. Respond(p) \/ \E next \in Calls : Goto(p, next)
  BY StepMoves
<1>4. /\ \A q \in Procs : q # p => req'[q] = req[q]
      /\ \A q \in Procs : q # p /\ req[q] # Idle => req[q].id # u
      /\ req[p] # Idle /\ u \in Ids
      /\ OneRequest'
      /\ Respond(p) => req'[p] = Idle
  <2>1. "INSERT" \in Calls
    BY DEF Calls
  <2>2. QED
    BY <1>2, <1>3, <2>1, OthersStay, Zenon DEF PeerInv
<1>5. \A next \in Calls : Goto(p, next) =>
         req'[p] # Idle /\ req'[p].id = u /\ req'[p].pc = next
  BY <1>2, OthersStay DEF PeerInv
<1>6. up
  BY <1>4 DEF PeerInv, Down
<1>7. /\ \A v \in Ids : db[v] # NoRow => v \in issued
      /\ peers \subseteq issued /\ peers \subseteq Ids
      /\ req[p].pc = "INSERT" <=> u \notin issued
      /\ req[p].pc \notin Removing \cup {"INSERT", "undoRow"} => db[u] # NoRow
      /\ req[p].pc = "undoRow" => u \notin peers
      /\ db \in [Ids -> Row \cup {NoRow}] /\ req[p].row \in Row
  <2>1. req[p].row \in Row
    BY <1>2, Moves DEF PeerInv, Request, Calls
  <2>2. QED
    BY <1>4, <2>1 DEF PeerInv, Known, Places, TypeOK
<1> HIDE DEF u
\* What has to be shown of each call.
<1> DEFINE Good == /\ UNCHANGED up
                   /\ issued \subseteq issued' /\ issued' \subseteq issued \cup {u}
                   /\ \A v \in Ids : v # u => db'[v] = db[v] /\ (v \in peers' <=> v \in peers)
                   /\ db'[u] # NoRow => u \in issued'
                   /\ u \in peers' => u \in issued'
                   /\ u \in peers' /\ db'[u] = NoRow =>
                        req'[p] # Idle /\ req'[p].id = u /\ req'[p].pc \in Removing
                   /\ req'[p] # Idle =>
                        /\ req'[p].id = u
                        /\ req'[p].pc = "INSERT" <=> u \notin issued'
                        /\ req'[p].pc \notin Removing \cup {"INSERT", "undoRow"} => db'[u] # NoRow
                        /\ req'[p].pc = "undoRow" => u \notin peers'
<1>8. ASSUME Good PROVE PeerInv'
  <2>1. Known'
    BY <1>7, <1>8, <1>1, SMTT(60) DEF Known, TypeOK
  <2>2. Places'
    BY <1>4, <1>8, SMTT(60) DEF Places, PeerInv, TypeOK
  <2>3. Accounted'
    <3> SUFFICES ASSUME NEW v \in peers', db'[v] = NoRow
                 PROVE  \E q \in Procs : req'[q] # Idle /\ req'[q].id = v /\ req'[q].pc \in Removing
      BY DEF Accounted
    <3>1. CASE v = u
      BY <3>1, <1>8
    <3>2. CASE v # u
      <4>1. v \in peers /\ db[v] = NoRow
        BY <3>2, <1>1, <1>8 DEF TypeOK
      <4>2. PICK q \in Procs : req[q] # Idle /\ req[q].id = v /\ req[q].pc \in Removing
        BY <4>1 DEF PeerInv, Accounted
      <4>3. q # p
        BY <4>2, <3>2 DEF u
      <4>4. QED
        BY <4>2, <4>3, <1>4
    <3>3. QED
      BY <3>1, <3>2
  <2>4. Down'
    BY <1>6, <1>8 DEF Down
  <2>5. OneRequest'
    BY <1>4
  <2>6. QED
    BY <1>1, <2>5, <2>1, <2>2, <2>3, <2>4 DEF PeerInv
<1> SUFFICES Good
  BY <1>8
<1>9. NoRow \notin Row
  BY ManagementAssumption
<1>10. u \in peers /\ db[u] = NoRow => req[p].pc \in Removing
  <2> SUFFICES ASSUME u \in peers, db[u] = NoRow PROVE req[p].pc \in Removing
    OBVIOUS
  <2>1. PICK q \in Procs : req[q] # Idle /\ req[q].id = u /\ req[q].pc \in Removing
    BY DEF PeerInv, Accounted
  <2>2. QED
    BY <2>1, <1>4
<1>11. CASE Insert(p)
  BY <1>4, <1>5, <1>7, <1>9, <1>11, SMTT(60) DEF Insert, Calls, Removing, u
<1>12. CASE UndoPeer(p)
  BY <1>4, <1>5, <1>7, <1>12, SMTT(60) DEF UndoPeer, RemovePeer, Calls, Removing, u
<1>13. CASE UndoRow(p)
  BY <1>4, <1>7, <1>13, SMTT(60) DEF UndoRow, Removing, u
<1>14. CASE CallAddPeer(p)
  BY <1>4, <1>5, <1>7, <1>14, SMTT(60) DEF CallAddPeer, AddPeer, Calls, Removing, u
<1>15. CASE CallApply(p)
  BY <1>4, <1>5, <1>7, <1>15, SMTT(60) DEF CallApply, Calls, Removing, u
<1>16. CASE UpdateRow(p)
  BY <1>4, <1>5, <1>7, <1>9, <1>16, SMTT(60) DEF UpdateRow, Enabling, Calls, Removing, u
<1>17. CASE CallUpdate(p)
  BY <1>4, <1>5, <1>7, <1>17, SMTT(60) DEF CallUpdate, Enabling, Calls, Removing, u
<1>18. CASE DeleteRow(p)
  BY <1>4, <1>5, <1>7, <1>18, ZenonT(60) DEF DeleteRow, Calls, Removing, u
<1>19. CASE CallClearUser(p)
  BY <1>4, <1>5, <1>7, <1>19, SMTT(60) DEF CallClearUser, Calls, Removing, u
<1>20. CASE CallRemove(p)
  BY <1>4, <1>5, <1>7, <1>20, ZenonT(60) DEF CallRemove, Calls, Removing, u
<1>21. CASE CallRemovePeer(p)
  BY <1>4, <1>7, <1>21, ZenonT(60) DEF CallRemovePeer, RemovePeer, Removing, u
<1>22. QED
  BY <1>11, <1>12, <1>13, <1>14, <1>15, <1>16, <1>17, <1>18, <1>19, <1>20, <1>21, ZenonT(60) DEF Step

\* Nothing runs and nothing exists at first.
LEMMA PeerInit == ASSUME Init PROVE PeerInv
<1>1. TypeOK
  BY ZenonT(60) DEF Init, TypeOK, Rules
<1>2. QED
  BY <1>1 DEF Init, PeerInv, OneRequest, Known, Places, Accounted, Down

\* Every step keeps the invariant.
LEMMA PeerStep == ASSUME MaxPerUser = 1, PeerInv, [Next]_vars PROVE PeerInv'
<1> USE DEF table, device, tick
<1>1. ASSUME NEW p \in Procs, Begin(p) \/ Step(p) PROVE PeerInv'
  BY <1>1, BeginPeer, StepPeer
<1>2. TypeOK'
  BY TypeStep DEF PeerInv
<1>3. CASE Monitor \/ UNCHANGED vars
  <2>1. UNCHANGED <<up, db, issued, peers, req>>
    BY <1>3 DEF Monitor, MonitorList, MonitorPeers, MonitorHandle, vars
  <2>2. QED
    BY <1>2, <2>1 DEF PeerInv, OneRequest, Known, Places, Accounted, Down
<1>4. CASE Crash
  BY <1>2, <1>4 DEF Crash, PeerInv, OneRequest, Known, Places, Accounted, Down
<1>5. CASE Start
  <2>1. peers' \subseteq Rows /\ UNCHANGED <<db, issued, req>> /\ up'
    BY <1>5 DEF Start
  <2>2. \A p \in Procs : req[p] = Idle
    BY <1>5 DEF Start, PeerInv, Down
  <2>3. QED
    BY <1>2, <2>1, <2>2 DEF PeerInv, OneRequest, Known, Places, Accounted, Down, Rows
<1>6. QED
  BY <1>1, <1>3, <1>4, <1>5 DEF Next

\* No stray peer (createUser, updateUser, deleteUser, mgmt.go Start): a settled user has
\* no request left that could account for a peer without a row.
THEOREM NoStrayPeers == MaxPerUser = 1 => (Spec => []NoOrphanPeer)
<1> SUFFICES ASSUME MaxPerUser = 1 PROVE Spec => []NoOrphanPeer
  OBVIOUS
<1>1. Init => PeerInv
  BY PeerInit
<1>2. PeerInv /\ [Next]_vars => PeerInv'
  BY PeerStep
<1>3. PeerInv => NoOrphanPeer
  BY DEF PeerInv, Accounted, NoOrphanPeer, Settled, Busy
<1>4. QED
  BY <1>1, <1>2, <1>3, PTL DEF Spec
-----------------------------------------------------------------------------
(* Addresses lead home, when requests about one user do not overlap.       *)

\* The UNIQUE constraint on assigned_ip.
Unique == \A u, v \in Rows : db[u].addr = db[v].addr => u = v

\* The address a handler works with is the one in the table.
Current ==
    \A p \in Procs : req[p] # Idle /\ req[p].pc # "INSERT" /\ db[req[p].id] # NoRow =>
       req[p].row.addr = db[req[p].id].addr

AddressInv == PeerInv /\ Unique /\ Current /\ AddressesLeadHome

\* A new request reads the address it will use, or is about to insert it.
LEMMA BeginAddress ==
    ASSUME AddressInv, MaxPerUser = 1, NEW p \in Procs, Begin(p)
    PROVE  AddressInv'
<1> USE DEF table, device, tick
<1>1. PeerInv'
  BY BeginPeer, SMTT(60) DEF AddressInv
<1>2. UNCHANGED <<db, peers, route>>
  BY Zenon DEF Begin, BeginCreate, BeginUpdate, BeginDelete
<1>3. Unique' /\ AddressesLeadHome'
  BY <1>2 DEF AddressInv, Unique, Rows, AddressesLeadHome
<1>4. /\ \A q \in Procs : q # p => req'[q] = req[q]
      /\ req'[p].pc = "INSERT" \/ req'[p].row.addr = db[req'[p].id].addr
  <2>1. req \in [Procs -> Request \cup {Idle}] /\ db \in [Ids -> Row \cup {NoRow}]
    BY DEF AddressInv, PeerInv, TypeOK
  <2>2. ASSUME NEW u \in Ids, NEW bw \in Rates \cup {0}, BeginCreate(p, u, bw)
        PROVE  <1>4!:
    BY <2>1, <2>2 DEF BeginCreate
  <2>3. ASSUME NEW u \in Ids, NEW bw \in Rates \cup {0, Absent},
               NEW on \in BOOLEAN \cup {Absent}, BeginUpdate(p, u, bw, on)
        PROVE  <1>4!:
    <3>1. db[u] \in Row
      BY <2>1, <2>3 DEF BeginUpdate
    <3>2. QED
      BY <2>1, <2>3, <3>1 DEF BeginUpdate, Row
  <2>4. ASSUME NEW u \in Ids, BeginDelete(p, u)
        PROVE  <1>4!:
    BY <2>1, <2>4, SMTT(60) DEF BeginDelete
  <2>5. QED
    BY <2>2, <2>3, <2>4 DEF Begin
<1>5. Current'
  BY <1>2, <1>4, SMTT(60) DEF AddressInv, Current
<1>6. QED
  BY <1>1, <1>3, <1>5 DEF AddressInv

\* What the steps of a handler have in common: they move or end the request, which
\* keeps its user and its row, and leave the rows and peers of the other users alone.
LEMMA StepFrame ==
    ASSUME PeerInv, NEW p \in Procs, Step(p)
    PROVE  /\ req[p] # Idle /\ req[p].id \in Ids /\ req[p].row \in Row
           /\ \A q \in Procs : q # p => req'[q] = req[q]
           /\ \A q \in Procs : q # p /\ req[q] # Idle => req[q].id # req[p].id
           /\ req'[p] # Idle => /\ req'[p].id = req[p].id
                                /\ req'[p].row = req[p].row
           /\ \A v \in Ids : v # req[p].id =>
                 db'[v] = db[v] /\ (v \in peers' <=> v \in peers)
<1> USE DEF table, device, tick
<1>1. req[p].pc \in Calls
  BY StepMoves
<1>2. Respond(p) \/ \E next \in Calls : Goto(p, next)
  BY StepMoves
<1>3. req[p] \in Request
  BY <1>1, Moves, ZenonT(60) DEF PeerInv
<1>4. /\ \A q \in Procs : q # p => req'[q] = req[q]
      /\ \A q \in Procs : q # p /\ req[q] # Idle => req[q].id # req[p].id
      /\ req[p] # Idle /\ req[p].id \in Ids
  <2>1. "INSERT" \in Calls
    BY DEF Calls
  <2>2. QED
    BY <1>1, <1>2, <2>1, OthersStay DEF PeerInv
<1>5. req'[p] # Idle => req'[p].id = req[p].id /\ req'[p].row = req[p].row
  <2>1. req \in [Procs -> Request \cup {Idle}]
    BY DEF PeerInv, TypeOK
  <2>2. CASE Respond(p)
    BY <2>1, <2>2 DEF Respond
  <2>3. ASSUME NEW next \in Calls, Goto(p, next) PROVE <1>5!2
    BY <2>1, <2>3, <1>3 DEF Goto, Request
  <2>4. QED
    BY <1>2, <2>2, <2>3
<1>6. \A v \in Ids : v # req[p].id => db'[v] = db[v] /\ (v \in peers' <=> v \in peers)
  <2>1. db \in [Ids -> Row \cup {NoRow}]
    BY SMTT(60) DEF PeerInv, TypeOK
  <2>2. UNCHANGED db \/ \E r : db' = [db EXCEPT ![req[p].id] = r]
    BY ZenonT(60) DEF Step, Insert, UndoPeer, UndoRow, CallAddPeer, CallApply, UpdateRow, CallUpdate,
           DeleteRow, CallClearUser, CallRemove, CallRemovePeer
  <2>3. peers' = peers \/ peers' = peers \cup {req[p].id} \/ peers' = peers \ {req[p].id}
    BY Zenon DEF Step, Insert, UndoPeer, UndoRow, CallAddPeer, CallApply, UpdateRow, CallUpdate,
           DeleteRow, CallClearUser, CallRemove, CallRemovePeer, AddPeer, RemovePeer
  <2>4. QED
    BY <2>1, <2>2, <2>3
<1>7. req[p].row \in Row
  BY <1>3, SMTT(60) DEF Request
<1>8. QED
  BY <1>4, <1>5, <1>6, <1>7, ZenonT(60)

\* What a handler's call does to the row: a new one takes an address nobody has; one
\* that stays keeps its address, which is the request's.
LEMMA StepRow ==
    ASSUME AddressInv, NEW p \in Procs, Step(p), db'[req[p].id] # NoRow
    PROVE  /\ \/ /\ req[p].pc = "INSERT" /\ req[p].row.addr \notin Used
                 /\ db'[req[p].id].addr = req[p].row.addr
              \/ db[req[p].id] # NoRow /\ db'[req[p].id].addr = db[req[p].id].addr
           /\ db'[req[p].id].addr = req[p].row.addr \/ req'[p] = Idle
<1> USE DEF table, device, tick
<1> DEFINE u == req[p].id
<1>1. /\ req[p] # Idle /\ u \in Ids /\ db \in [Ids -> Row \cup {NoRow}]
      /\ req \in [Procs -> Request \cup {Idle}]
  BY StepFrame, ZenonT(60) DEF AddressInv, PeerInv, TypeOK
<1>2. req[p].pc # "INSERT" /\ db[u] # NoRow => req[p].row.addr = db[u].addr
  BY <1>1 DEF AddressInv, Current
<1>3. req[p].pc = "INSERT" => db[u] = NoRow
  BY <1>1 DEF AddressInv, PeerInv, Known, Places
<1>4. CASE Insert(p)
  <2>1. req[p].pc = "INSERT" /\ db[u] = NoRow
    BY <1>3, <1>4 DEF Insert
  <2>2. db' # db
    BY <2>1, SMTT(60)
  <2>3. req[p].row.addr \notin Used /\ db' = [db EXCEPT ![u] = req[p].row]
    BY <1>4, <2>2, ZenonT(60) DEF Insert
  <2>4. QED
    BY <1>1, <2>1, <2>3, SMTT(60)
<1>5. CASE UpdateRow(p)
  <2>1. req[p].pc = "UPDATE" /\ db[u] # NoRow
    BY <1>1, <1>5 DEF UpdateRow
  <2>2. db'[u] = req[p].row \/ db' = db
    BY <1>1, <1>5, <2>1 DEF UpdateRow
  <2>3. req[p].row.addr = db[u].addr
    BY <1>2, <2>1
  <2>4. QED
    BY <2>1, <2>2, <2>3
<1>6. CASE ~ Insert(p) /\ ~ UpdateRow(p)
  <2>1. req[p].pc # "INSERT" /\ (db' = db \/ db' = [db EXCEPT ![u] = NoRow])
    BY <1>6, Zenon DEF Step, UndoPeer, UndoRow, CallAddPeer, CallApply, CallUpdate,
                DeleteRow, CallClearUser, CallRemove, CallRemovePeer
  <2>2. db' = db
    BY <1>1, <2>1
  <2>3. QED
    BY <1>2, <2>1, <2>2, SMTT(60)
<1>7. QED
  BY <1>4, <1>5, <1>6, ZenonT(60)

\* What it does to the allowed IPs: it adds the peer with its user's own address, or
\* takes away no other peer's.
LEMMA StepRoute ==
    ASSUME AddressInv, NEW p \in Procs, Step(p)
    PROVE  \/ peers' = peers /\ route' = route
           \/ db[req[p].id] # NoRow /\ db' = db /\ AddPeer(req[p].id, db[req[p].id].addr)
           \/ RemovePeer(req[p].id)
<1> USE DEF table, device, tick
<1>1. req[p] # Idle
  BY StepFrame, SMTT(60) DEF AddressInv
<1>2. CASE CallAddPeer(p)
  <2>1. req[p].pc = "AddPeer"
    BY <1>2 DEF CallAddPeer
  <2>2. db[req[p].id] # NoRow
    BY <1>1, <2>1 DEF AddressInv, PeerInv, Places, Removing
  <2>3. req[p].row.addr = db[req[p].id].addr
    BY <1>1, <2>1, <2>2, SMTT(60) DEF AddressInv, Current
  <2>4. QED
    BY <1>2, <2>2, <2>3 DEF CallAddPeer
<1>3. CASE ~ CallAddPeer(p)
  BY <1>3, Zenon DEF Step, Insert, UndoPeer, UndoRow, CallApply, UpdateRow, CallUpdate,
              DeleteRow, CallClearUser, CallRemove, CallRemovePeer
<1>4. QED
  BY <1>2, <1>3

\* A handler's call keeps addresses unique, current and leading home.
LEMMA StepAddress ==
    ASSUME AddressInv, NEW p \in Procs, Step(p)
    PROVE  AddressInv'
<1> DEFINE u == req[p].id
<1>1. PeerInv'
  BY StepPeer, SMTT(60) DEF AddressInv
<1>2. /\ req[p] # Idle /\ u \in Ids /\ req[p].row \in Row
      /\ \A q \in Procs : q # p => req'[q] = req[q]
      /\ \A q \in Procs : q # p /\ req[q] # Idle => req[q].id # u
      /\ req'[p] # Idle => req'[p].id = u /\ req'[p].row = req[p].row
      /\ \A v \in Ids : v # u => db'[v] = db[v] /\ (v \in peers' <=> v \in peers)
  BY StepFrame, ZenonT(60) DEF AddressInv
<1>3. db'[u] # NoRow =>
        /\ \/ /\ req[p].pc = "INSERT" /\ req[p].row.addr \notin Used
              /\ db'[u].addr = req[p].row.addr
           \/ db[u] # NoRow /\ db'[u].addr = db[u].addr
        /\ db'[u].addr = req[p].row.addr \/ req'[p] = Idle
  BY StepRow, ZenonT(60)
<1>4. Unique'
  <2>1. ASSUME NEW v \in Ids, v # u, db'[v] # NoRow, db'[u] # NoRow
        PROVE  db'[v].addr # db'[u].addr
    <3>1. v \in Rows /\ db'[v] = db[v] /\ db[v].addr \in Used
      BY <1>2, <2>1, ZenonT(60) DEF Rows, Used
    <3>2. CASE db[u] # NoRow /\ db'[u].addr = db[u].addr
      <4>1. u \in Rows
        BY <1>2, <3>2 DEF Rows
      <4>2. QED
        BY <2>1, <3>1, <3>2, <4>1, SMTT(60) DEF AddressInv, Unique
    <3>3. CASE req[p].row.addr \notin Used /\ db'[u].addr = req[p].row.addr
      BY <3>1, <3>3, Zenon
    <3>4. QED
      BY <1>3, <2>1, <3>2, <3>3, ZenonT(60)
  <2>2. ASSUME NEW v \in Ids, NEW w \in Ids, v # u, w # u, db'[v] # NoRow, db'[w] # NoRow,
               db'[v].addr = db'[w].addr
        PROVE  v = w
    BY <1>2, <2>2 DEF AddressInv, Unique, Rows
  <2>3. QED
    BY <2>1, <2>2, ZenonT(60) DEF Unique, Rows
<1>5. Current'
  <2> SUFFICES ASSUME NEW q \in Procs, req'[q] # Idle, req'[q].pc # "INSERT",
                      db'[req'[q].id] # NoRow
               PROVE  req'[q].row.addr = db'[req'[q].id].addr
    BY DEF Current
  <2>1. CASE q = p
    BY <1>2, <1>3, <2>1, SMTT(60)
  <2>2. CASE q # p
    <3>1. req'[q] = req[q] /\ req[q] # Idle /\ req[q].id # u
      BY <1>2, <2>2
    <3>2. req[q].id \in Ids
      <4>1. req[q] \in Request
        BY <3>1 DEF AddressInv, PeerInv, TypeOK
      <4>2. QED
        BY <4>1 DEF Request
    <3>3. db'[req[q].id] = db[req[q].id]
      BY <1>2, <3>1, <3>2
    <3>4. QED
      BY <3>1, <3>3, SMTT(60) DEF AddressInv, Current
  <2>3. QED
    BY <2>1, <2>2
<1>6. AddressesLeadHome'
  <2> SUFFICES ASSUME NEW v \in peers', db'[v] # NoRow PROVE route'[db'[v].addr] = v
    BY DEF AddressesLeadHome
  <2>1. v \in Ids /\ db'[v] \in Row /\ db'[v].addr \in Addrs
    BY <1>1 DEF PeerInv, TypeOK, Row
  <2>2. route \in [Addrs -> Ids \cup {NoId}]
    BY DEF AddressInv, PeerInv, TypeOK
  <2>3. v \in peers => db[v] # NoRow /\ db'[v].addr = db[v].addr
    <3>1. v \in peers /\ v = u => req[p].pc # "INSERT"
      BY <1>2 DEF AddressInv, PeerInv, Known, Places
    <3>2. QED
      BY <1>2, <1>3, <2>1, <3>1
  <2>4. v \in peers => route[db'[v].addr] = v
    BY <2>3 DEF AddressInv, AddressesLeadHome
  <2>5. CASE peers' = peers /\ route' = route
    BY <2>4, <2>5
  <2>6. CASE RemovePeer(u)
    <3>1. v # u /\ v \in peers
      BY <2>6 DEF RemovePeer
    <3>2. QED
      BY <2>1, <2>2, <2>4, <2>6, <3>1 DEF RemovePeer, Without
  <2>7. CASE db[u] # NoRow /\ db' = db /\ AddPeer(u, db[u].addr)
    <3>1. CASE v = u
      BY <2>1, <2>7, <3>1 DEF AddPeer, Without
    <3>2. CASE v # u
      <4>1. v \in peers /\ db[v].addr # db[u].addr
        BY <1>2, <2>1, <2>7, <3>2, ZenonT(60) DEF AddressInv, Unique, Rows
      <4>2. QED
        BY <2>1, <2>2, <2>4, <2>7, <3>2, <4>1, SMTT(60) DEF AddPeer, Without
    <3>3. QED
      BY <3>1, <3>2, SMTT(60)
  <2>8. QED
    BY <2>5, <2>6, <2>7, StepRoute
<1>7. QED
  BY <1>1, <1>4, <1>5, <1>6 DEF AddressInv

\* The address of a user who has a peer leads to that peer, whatever fails and however
\* requests about different users overlap (deleteUser, allocateIP, mgmt/peers AddPeer
\* and RemovePeer, mgmt.go Start).
THEOREM AddressesLead == MaxPerUser = 1 => (Spec => []AddressesLeadHome)
<1> SUFFICES ASSUME MaxPerUser = 1 PROVE Spec => []AddressesLeadHome
  OBVIOUS
<1>1. Init => AddressInv
  <2> SUFFICES ASSUME Init PROVE AddressInv
    OBVIOUS
  <2>1. PeerInv
    BY PeerInit
  <2>2. QED
    BY <2>1 DEF Init, AddressInv, Unique, Rows, Current, AddressesLeadHome
<1>2. AddressInv /\ [Next]_vars => AddressInv'
  <2> SUFFICES ASSUME AddressInv, [Next]_vars PROVE AddressInv'
    OBVIOUS
  <2> USE DEF table, device, tick
  <2>1. ASSUME NEW p \in Procs, Begin(p) \/ Step(p) PROVE AddressInv'
    BY <2>1, BeginAddress, StepAddress
  <2>2. PeerInv'
    BY PeerStep, SMTT(60) DEF AddressInv
  <2>3. CASE Monitor \/ UNCHANGED vars
    <3>1. UNCHANGED <<db, peers, route, req>>
      BY <2>3 DEF Monitor, MonitorList, MonitorPeers, MonitorHandle, vars
    <3>2. QED
      BY <2>2, <3>1 DEF AddressInv, Unique, Rows, Current, AddressesLeadHome
  <2>4. CASE Crash
    BY <2>2, <2>4 DEF Crash, AddressInv, Unique, Rows, Current, AddressesLeadHome
  <2>5. CASE Start
    <3>1. PICK restored \in SUBSET Rows :
            /\ peers' = restored
            /\ route' = [a \in Addrs |->
                  IF \E u \in restored : db[u].addr = a
                  THEN CHOOSE u \in restored : db[u].addr = a ELSE NoId]
      BY <2>5, ZenonT(60) DEF Start
    <3>2. UNCHANGED <<db, req>>
      BY <2>5 DEF Start
    <3>3. ASSUME NEW v \in restored PROVE route'[db[v].addr] = v
      <4>1. v \in Rows /\ db[v].addr \in Addrs
        BY DEF Rows, AddressInv, PeerInv, TypeOK, Row
      <4>2. \A w \in restored : db[w].addr = db[v].addr => w = v
        BY <4>1 DEF AddressInv, Unique
      <4>3. QED
        BY <3>1, <4>1, <4>2
    <3>4. AddressesLeadHome'
      BY <3>1, <3>2, <3>3 DEF AddressesLeadHome
    <3>5. QED
      BY <2>2, <3>2, <3>4 DEF AddressInv, Unique, Rows, Current
  <2>6. QED
    BY <2>1, <2>3, <2>4, <2>5 DEF Next
<1>3. AddressInv => AddressesLeadHome
  BY DEF AddressInv
<1>4. QED
  BY <1>1, <1>2, <1>3, PTL DEF Spec
=============================================================================
