---------------------------- MODULE SessionProofs ----------------------------
(***************************************************************************)
(* A session leaves its endpoint only when it is idle: for any number of   *)
(* clients and any idle timeout, however late the monitor acts on what it  *)
(* has read.                                                               *)
(***************************************************************************)
EXTENDS Session, TLAPS

\* The registry's entry is the one the monitor has read, or was cleared since: only
\* the monitor makes entries.  Both age alike.
Seen == mon.at = "got" => lock = None \/ lock = mon.lock

\* A handshake judged recent has a time; the time read does not change after that.
Judged == mon.recent => mon.at \in {"judged", "got"} /\ mon.hs # None

\* Growing older keeps an age an age, and a lock at its endpoint.
LEMMA Aging ==
    /\ \A x \in Ages \cup {None} : Older(x) \in Ages \cup {None}
    /\ \A x \in Ages : Older(x) \in Ages
    /\ None \notin Ages
    /\ \A l \in Lock : OlderLock(l) \in Lock /\ OlderLock(l).ep = l.ep
    /\ OlderLock(None) = None
<1>1. \A x \in Ages : Older(x) \in Ages
  BY SessionAssumption DEF Ages, Older
<1>2. Older(None) = None
  BY DEF Older
<1>3. ASSUME NEW l \in Lock PROVE OlderLock(l) \in Lock /\ OlderLock(l).ep = l.ep
  <2>1. l.ep \in Clients /\ l.age \in Ages
    BY DEF Lock
  <2>2. CASE l = None
    BY <2>2 DEF OlderLock
  <2>3. CASE l # None
    <3>1. OlderLock(l) = [l EXCEPT !.age = Older(l.age)]
      BY <2>3 DEF OlderLock
    <3>2. Older(l.age) \in Ages
      BY <2>1, <1>1
    <3>3. QED
      BY <3>1, <3>2 DEF Lock
  <2>4. QED
    BY <2>2, <2>3
<1>4. OlderLock(None) = None
  BY DEF OlderLock
<1>5. None \notin Ages
  BY SessionAssumption DEF Ages
<1>6. QED
  BY <1>1, <1>2, <1>3, <1>4, <1>5

\* What handleUser does to the lock, for the lock it has read.
LEMMA Decision ==
    ASSUME TypeOK, Judged, Decide
    PROVE  /\ \/ lock' = lock
              \/ lock' = None /\ ~ LockActive
              \/ /\ lock' \in Lock
                 /\ ~ LockActive \/ (mon.lock # None /\ lock'.ep = mon.lock.ep)
           /\ ep' \in Endpoints
<1>1. ASSUME NEW c \in Clients, mon.recent, Set(c)
      PROVE  lock' \in Lock /\ lock'.ep = c /\ ep' \in Endpoints
  <2>1. mon.hs \in Ages
    BY <1>1 DEF Judged, TypeOK, Monitor
  <2>2. QED
    BY <1>1, <2>1 DEF Set, Lock, TypeOK
<1>2. /\ mon.ep \in Endpoints
      /\ mon.lock # None => mon.lock.ep \in Clients
      /\ ep \in Endpoints
  BY DEF TypeOK, Monitor, Lock
<1>3. Clear \/ Leave => ep' \in Endpoints
  BY <1>2 DEF Clear, Leave
<1>4. mon.lock # None /\ SetPeerEndpoint(mon.lock.ep) => ep' \in Endpoints /\ lock' = lock
  BY <1>2 DEF SetPeerEndpoint, Endpoints
<1>5. CASE mon.lock = None
  <2>1. ~ LockActive
    BY <1>5 DEF LockActive
  <2>2. (mon.recent /\ mon.ep \in Clients /\ Set(mon.ep)) \/ Leave
    BY <1>2, <1>5 DEF Decide, Endpoints
  <2>3. QED
    BY <1>1, <1>3, <2>1, <2>2 DEF Leave
<1>6. CASE mon.lock # None /\ mon.ep = mon.lock.ep
  <2>1. SameEndpoint
    BY <1>6 DEF Decide
  <2>2. (mon.recent /\ Set(mon.lock.ep)) \/ Leave \/ (~ LockActive /\ Clear)
    BY <2>1 DEF SameEndpoint
  <2>3. QED
    BY <1>1, <1>2, <1>3, <1>6, <2>2 DEF Leave, Clear
<1>7. CASE mon.lock # None /\ mon.ep # mon.lock.ep
  <2>1. OtherEndpoint
    BY <1>7 DEF Decide
  <2>2. \/ SetPeerEndpoint(mon.lock.ep)
        \/ ~ LockActive /\ mon.recent /\ mon.ep \in Clients /\ Set(mon.ep)
        \/ Leave
        \/ ~ LockActive /\ Clear
    BY <1>2, <2>1 DEF OtherEndpoint, Endpoints
  <2>3. QED
    BY <1>1, <1>3, <1>4, <1>7, <2>2 DEF Leave, Clear
<1>8. QED
  BY <1>5, <1>6, <1>7

\* Every step keeps the types.
LEMMA TypeStep == ASSUME TypeOK, Judged, [Next]_vars PROVE TypeOK'
<1> USE DEF user, keys, wg
<1>1. ASSUME NEW c \in Clients, Traffic(c) PROVE TypeOK'
  <2>1. ep' = c /\ calm' = 0 /\ UNCHANGED <<user, peer, lock, mon>>
    BY <1>1 DEF Traffic, Initiation, FirstPacket, Response, Data, SetEndpointFromPacket
  <2>2. hs' \in {0, hs} /\ next' \in {c, next, None}
    BY <1>1 DEF Traffic, Initiation, FirstPacket, Response, Data, timersHandshakeComplete
  <2>3. derive' \in BOOLEAN
    BY <1>1, Zenon DEF Traffic, Initiation, FirstPacket, Response, Data, TypeOK
  <2>4. QED
    BY <2>1, <2>2, <2>3, SessionAssumption DEF TypeOK, Endpoints, Ages
<1>d. CASE Derive
  <2>1. derive' \in BOOLEAN
    BY <1>d, Zenon DEF Derive
  <2>2. hs' \in {0, hs} /\ next' \in {next, None} /\ UNCHANGED <<user, peer, ep, lock, mon, calm>>
    BY <1>d DEF Derive, timersHandshakeComplete
  <2>3. QED
    BY <2>1, <2>2, SessionAssumption DEF TypeOK, Endpoints, Ages
<1>2. CASE Time
  <2>1. /\ hs' \in Ages \cup {None} /\ lock' \in Lock \cup {None}
        /\ Older(mon.hs) \in Ages \cup {None} /\ OlderLock(mon.lock) \in Lock \cup {None}
    BY <1>2, Aging DEF Time, TypeOK, Monitor
  <2>2. mon' \in Monitor
    BY <1>2, <2>1, Zenon DEF Time, TypeOK, Monitor
  <2>3. QED
    BY <1>2, <2>1, <2>2 DEF Time, TypeOK
<1>3. CASE Request
  <2>1. CASE Enable \/ Disable
    <3>1. on' \in BOOLEAN
      BY <2>1, Zenon DEF Enable, Disable
    <3>2. calm' = 0 /\ call' \in {"AddPeer", "ClearUser"} /\ UNCHANGED <<wg, lock, mon>>
      BY <2>1, Zenon DEF Enable, Disable
    <3>3. QED
      BY <3>1, <3>2 DEF TypeOK
  <2>2. CASE AddPeer \/ RemovePeer
    <3>1. peer' \in BOOLEAN
      BY <2>2, Zenon DEF AddPeer, RemovePeer
    <3>2. /\ calm' = 0 /\ call' = "none" /\ UNCHANGED <<on, lock, mon>>
          /\ ep' \in {ep, None} /\ hs' \in {hs, None} /\ next' \in {next, None}
      BY <2>2, Zenon DEF AddPeer, RemovePeer
    <3>3. derive' \in BOOLEAN
      BY <2>2, Zenon DEF AddPeer, RemovePeer, TypeOK
    <3>4. QED
      BY <3>1, <3>2, <3>3 DEF TypeOK, Endpoints
  <2>3. CASE ClearUser
    BY <2>3 DEF ClearUser, TypeOK
  <2>4. QED
    BY <1>3, <2>1, <2>2, <2>3 DEF Request
<1>4. Waiting \in Monitor
  BY DEF Waiting, Monitor, Endpoints
<1>5. CASE List \/ ReadEndpoint \/ ReadHandshake \/ HasRecentHS \/ Get
  <2>1. mon' \in Monitor
    <3>1. (mon.hs # None /\ mon.hs <= Idle) \in BOOLEAN
      OBVIOUS
    <3>2. QED
      BY <1>4, <1>5, <3>1, ZenonT(60) DEF List, ReadEndpoint, ReadHandshake, HasRecentHS, Get, TypeOK, Monitor
  <2>2. UNCHANGED <<user, wg, lock, calm>>
    BY <1>5, Zenon DEF List, ReadEndpoint, ReadHandshake, HasRecentHS, Get
  <2>3. QED
    BY <2>1, <2>2 DEF TypeOK
<1>6. CASE Decide
  <2>1. lock' \in Lock \cup {None} /\ ep' \in Endpoints
    BY <1>6, Decision DEF TypeOK
  <2>2. QED
    BY <1>4, <1>6, <2>1 DEF Decide, TypeOK
<1>7. CASE UNCHANGED vars
  BY <1>7 DEF vars, TypeOK
<1>8. QED
  BY <1>1, <1>d, <1>2, <1>3, <1>5, <1>6, <1>7 DEF Next, Tick

\* Only the monitor judges, and it starts afresh at each tick.
LEMMA JudgedStep == ASSUME TypeOK, Judged, [Next]_vars PROVE Judged'
<1> USE DEF user, keys, wg
<1>1. ASSUME UNCHANGED mon PROVE Judged'
  BY <1>1 DEF Judged
<1>2. CASE Time
  <2>1. mon'.at = mon.at /\ mon'.recent = mon.recent /\ mon'.hs = Older(mon.hs)
    BY <1>2 DEF Time, TypeOK, Monitor
  <2>2. mon.hs # None => Older(mon.hs) # None
    BY Aging DEF TypeOK, Monitor
  <2>3. QED
    BY <2>1, <2>2 DEF Judged
<1>3. CASE Tick
  <2>1. ~ Waiting.recent
    BY DEF Waiting
  <2>2. CASE List \/ ReadEndpoint \/ ReadHandshake \/ Decide
    <3>1. mon' = Waiting \/ (mon'.recent = mon.recent /\ mon.at \notin {"judged", "got"})
      BY <2>2, Zenon DEF List, ReadEndpoint, ReadHandshake, Decide, TypeOK, Monitor
    <3>2. QED
      BY <2>1, <3>1, Zenon DEF Judged
  <2>3. CASE HasRecentHS
    BY <2>3 DEF HasRecentHS, Judged, TypeOK, Monitor
  <2>4. CASE Get
    BY <2>4 DEF Get, Judged, TypeOK, Monitor
  <2>5. QED
    BY <1>3, <2>2, <2>3, <2>4 DEF Tick
<1>4. QED
  BY <1>1, <1>2, <1>3 DEF Next, vars, Traffic, Initiation, FirstPacket, Response, Data, Derive,
                          Request, Enable, AddPeer, Disable, ClearUser, RemovePeer

\* What the monitor has read of the registry stays right.
LEMMA SeenStep == ASSUME TypeOK, Seen, [Next]_vars PROVE Seen'
<1> USE DEF user, keys, wg
<1>1. ASSUME NEW c \in Clients, Traffic(c) PROVE Seen'
  BY <1>1 DEF Traffic, Initiation, FirstPacket, Response, Data, Seen
<1>d. CASE Derive
  BY <1>d DEF Derive, Seen
<1>2. CASE Time
  <2>1. mon'.at = mon.at /\ mon'.lock = OlderLock(mon.lock) /\ lock' = OlderLock(lock)
    BY <1>2 DEF Time, TypeOK, Monitor
  <2>2. QED
    BY <2>1, Aging DEF Seen
<1>3. CASE Request
  BY <1>3 DEF Request, Enable, AddPeer, Disable, ClearUser, RemovePeer, Seen
<1>4. CASE Tick
  <2>1. CASE List \/ ReadEndpoint \/ ReadHandshake \/ HasRecentHS \/ Decide
    <3>1. Waiting.at # "got"
      BY DEF Waiting
    <3>2. mon' = Waiting \/ mon'.at \in {"listed", "endpoint", "read", "judged"}
      BY <2>1, Zenon DEF List, ReadEndpoint, ReadHandshake, HasRecentHS, Decide, TypeOK, Monitor
    <3>3. QED
      BY <3>1, <3>2 DEF Seen
  <2>2. CASE Get
    <3>1. mon'.lock = lock /\ lock' = lock
      BY <2>2 DEF Get, TypeOK, Monitor
    <3>2. QED
      BY <3>1 DEF Seen
  <2>3. QED
    BY <1>4, <2>1, <2>2 DEF Tick
<1>5. CASE UNCHANGED vars
  BY <1>5 DEF vars, Seen
<1>6. QED
  BY <1>1, <1>d, <1>2, <1>3, <1>4, <1>5 DEF Next

\* The lock leaves an endpoint only after the idle timeout, or when the user is
\* disabled (mgmt/session handleUser and ClearUser).
THEOREM SessionMovesOnlyWhenIdle == Spec => MovesOnlyWhenIdle
<1> USE DEF user, keys, wg
<1>1. Init => TypeOK /\ Judged /\ Seen
  <2> SUFFICES ASSUME Init PROVE TypeOK /\ Judged /\ Seen
    OBVIOUS
  <2>1. on \in BOOLEAN /\ peer \in BOOLEAN /\ derive \in BOOLEAN
    BY Zenon DEF Init
  <2>2. mon \in Monitor /\ ~ mon.recent /\ mon.at = "wait"
    BY DEF Init, Waiting, Monitor, Endpoints
  <2>3. TypeOK
    BY <2>1, <2>2 DEF Init, TypeOK, Endpoints
  <2>4. QED
    BY <2>2, <2>3 DEF Judged, Seen
<1>2. TypeOK /\ Judged /\ Seen /\ [Next]_vars => TypeOK' /\ Judged' /\ Seen'
  BY TypeStep, JudgedStep, SeenStep
<1>3. TypeOK /\ Judged /\ Seen /\ [Next]_vars =>
        [lock # None /\ (lock' = None \/ lock'.ep # lock.ep)
         => lock.age > Idle \/ ClearUser]_vars
  <2> SUFFICES ASSUME TypeOK, Judged, Seen, Next, lock # None,
                      lock' = None \/ lock'.ep # lock.ep, ~ ClearUser
               PROVE  lock.age > Idle
    OBVIOUS
  <2>1. lock \in Lock /\ lock.age \in Nat
    BY SessionAssumption DEF TypeOK, Lock, Ages
  <2>2. lock' # lock
    BY <2>1
  <2>3. ~ Time
    <3>1. OlderLock(lock) \in Lock /\ OlderLock(lock).ep = lock.ep
      BY <2>1, Aging
    <3>2. OlderLock(lock) # None
      BY <3>1, SessionAssumption
    <3>3. QED
      BY <3>1, <3>2 DEF Time
  <2>4. Decide
    BY <2>2, <2>3 DEF Next, Traffic, Initiation, FirstPacket, Response, Data, Derive, Request,
                      Enable, AddPeer, Disable, RemovePeer, Tick, List, ReadEndpoint,
                      ReadHandshake, HasRecentHS, Get
  <2>5. lock = mon.lock
    BY <2>4 DEF Seen, Decide
  <2>6. ~ LockActive
    <3>1. \/ lock' = lock
          \/ ~ LockActive
          \/ lock' \in Lock /\ lock'.ep = mon.lock.ep
      BY <2>4, Decision
    <3>2. None \notin Lock
      BY SessionAssumption
    <3>3. QED
      BY <2>2, <2>5, <3>1, <3>2
  <2>7. QED
    BY <2>1, <2>5, <2>6, SessionAssumption DEF LockActive
<1>4. QED
  BY <1>1, <1>2, <1>3, PTL DEF Spec, MovesOnlyWhenIdle
=============================================================================
