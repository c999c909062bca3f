------------------------------- MODULE Session -------------------------------
(***************************************************************************)
(* Single-device sessions (mgmt/session) for one user.  The WireGuard      *)
(* device lets a peer's endpoint roam to wherever its latest authentic     *)
(* packet came from.  The monitor polls: it reads the table, the peer's    *)
(* endpoint, its handshake time and the registry one after the other, and  *)
(* then locks the session to an endpoint, frees it, or puts the peer's     *)
(* endpoint back to the locked one.  Packets, time and requests that       *)
(* enable or disable the user go on in between.                            *)
(*                                                                         *)
(* Times are kept as ages, in units of which Idle make the idle timeout;   *)
(* every age above Idle is alike.                                          *)
(***************************************************************************)
EXTENDS Integers

CONSTANTS Clients,  \* the devices that share the user's key, one endpoint each
          Idle,     \* session_idle_seconds
          None      \* no endpoint, no lock, no time

VARIABLES on,      \* the user's row is enabled
          call,    \* the call a running enabling or disabling request makes next
          peer,    \* the WireGuard device has the peer
          ep,      \* its endpoint
          hs,      \* age of its last handshake
          next,    \* the client whose initiation was answered and not yet confirmed
          derive,  \* a handshake worker has taken a response and derives the keys
          lock,    \* the user's entry in the registry
          mon,     \* the monitor: where it is, what it has read
          calm     \* history: ticks ended since the last packet or request, up to 2

vars == <<on, call, peer, ep, hs, next, derive, lock, mon, calm>>
user == <<on, call>>
keys == <<next, derive>>
wg == <<peer, ep, hs, keys>>

Ages == 0 .. Idle + 1
Endpoints == Clients \cup {None}
Lock == [ep : Clients, age : Ages]

ASSUME SessionAssumption == Idle \in Nat /\ None \notin Clients \cup Nat \cup Lock

Monitor == [at : {"wait", "listed", "endpoint", "read", "judged", "got"},
            ep : Endpoints, hs : Ages \cup {None}, recent : BOOLEAN,
            lock : Lock \cup {None}]

TypeOK ==
    /\ on \in BOOLEAN
    /\ call \in {"none", "AddPeer", "ClearUser", "RemovePeer"}
    /\ peer \in BOOLEAN
    /\ ep \in Endpoints
    /\ hs \in Ages \cup {None}
    /\ next \in Endpoints
    /\ derive \in BOOLEAN
    /\ lock \in Lock \cup {None}
    /\ mon \in Monitor
    /\ calm \in 0 .. 2

Waiting == [at |-> "wait", ep |-> None, hs |-> None, recent |-> FALSE, lock |-> None]

Init ==
    /\ on = TRUE /\ call = "none"
    /\ peer = TRUE /\ ep = None /\ hs = None
    /\ next = None /\ derive = FALSE
    /\ lock = None
    /\ mon = Waiting
    /\ calm = 0

-----------------------------------------------------------------------------
(* The clients and time.                                                   *)

SetEndpointFromPacket(c) == ep' = c
timersHandshakeComplete == hs' = 0

\* A client begins a handshake: its initiation makes the endpoint roam, long before
\* anything is confirmed.  The answer makes the keypair that awaits confirmation,
\* unless deriving it fails.
Initiation(c) ==
    /\ peer
    /\ SetEndpointFromPacket(c)
    /\ next' \in {c, next}
    /\ calm' = 0
    /\ UNCHANGED <<user, peer, hs, derive, lock, mon>>

\* The first packet with that keypair confirms the handshake.
FirstPacket(c) ==
    /\ peer /\ next = c
    /\ SetEndpointFromPacket(c)
    /\ timersHandshakeComplete
    /\ next' = None
    /\ calm' = 0
    /\ UNCHANGED <<user, peer, derive, lock, mon>>

\* A client answers a handshake that the server began.  The worker sets the endpoint
\* first, then derives the keys, which may fail, and then stores the time; a keypair
\* that awaited confirmation becomes the previous one.
Response(c) ==
    /\ peer /\ ~ derive
    /\ SetEndpointFromPacket(c)
    /\ derive' = TRUE
    /\ calm' = 0
    /\ UNCHANGED <<user, peer, hs, next, lock, mon>>

Derive ==
    /\ derive
    /\ derive' = FALSE
    /\ \/ timersHandshakeComplete /\ next' = None
       \/ UNCHANGED <<hs, next>>
    /\ UNCHANGED <<user, peer, ep, lock, mon, calm>>

\* Any other authentic packet; sessions outlive the handshake that made them.
Data(c) ==
    /\ peer /\ hs # None
    /\ SetEndpointFromPacket(c)
    /\ calm' = 0
    /\ UNCHANGED <<user, peer, hs, keys, lock, mon>>

Older(age) == IF age = None \/ age = Idle + 1 THEN age ELSE age + 1
OlderLock(l) == IF l = None THEN None ELSE [l EXCEPT !.age = Older(@)]

Time ==
    /\ hs' = Older(hs)
    /\ lock' = OlderLock(lock)
    /\ mon' = [mon EXCEPT !.hs = Older(@), !.lock = OlderLock(@)]
    /\ UNCHANGED <<user, peer, ep, keys, calm>>

-----------------------------------------------------------------------------
(* updateUser with "enabled", call by call.  IpcGet and IpcSet exclude     *)
(* each other (ipcMutex), so AddPeer and RemovePeer do not come between    *)
(* the two reads of ListPeers.                                             *)

Enable ==
    /\ call = "none" /\ ~ on
    /\ on' = TRUE /\ call' = "AddPeer"
    /\ calm' = 0
    /\ UNCHANGED <<wg, lock, mon>>

AddPeer ==
    /\ call = "AddPeer" /\ mon.at # "endpoint"
    /\ peer' = TRUE /\ call' = "none"
    /\ calm' = 0
    /\ UNCHANGED <<on, ep, hs, keys, lock, mon>>

Disable ==
    /\ call = "none" /\ on
    /\ on' = FALSE /\ call' = "ClearUser"
    /\ calm' = 0
    /\ UNCHANGED <<wg, lock, mon>>

ClearUser ==
    /\ call = "ClearUser"
    /\ lock' = None /\ call' = "RemovePeer"
    /\ calm' = 0
    /\ UNCHANGED <<on, wg, mon>>

RemovePeer ==
    /\ call = "RemovePeer" /\ mon.at # "endpoint"
    /\ peer' = FALSE /\ ep' = None /\ hs' = None /\ call' = "none"
    /\ next' = None /\ derive' = FALSE
    /\ calm' = 0
    /\ UNCHANGED <<on, lock, mon>>

-----------------------------------------------------------------------------
(* The monitor's tick.                                                     *)

\* st.List: a disabled user is passed over.
List ==
    /\ mon.at = "wait" /\ on
    /\ mon' = [mon EXCEPT !.at = "listed"]
    /\ UNCHANGED <<user, wg, lock, calm>>

\* pm.ListPeers: so is one without a peer.  IpcGet reads the endpoint, then the time
\* of the last handshake; packets may come in between.
ReadEndpoint ==
    /\ mon.at = "listed"
    /\ mon' = IF peer THEN [mon EXCEPT !.at = "endpoint", !.ep = ep] ELSE Waiting
    /\ UNCHANGED <<user, wg, lock, calm>>

ReadHandshake ==
    /\ mon.at = "endpoint"
    /\ mon' = [mon EXCEPT !.at = "read", !.hs = hs]
    /\ UNCHANGED <<user, wg, lock, calm>>

\* handleUser: HasRecentHandshake, then registry.Get.
HasRecentHS ==
    /\ mon.at = "read"
    /\ mon' = [mon EXCEPT !.at = "judged", !.recent = mon.hs # None /\ mon.hs <= Idle]
    /\ UNCHANGED <<user, wg, lock, calm>>

Get ==
    /\ mon.at = "judged"
    /\ mon' = [mon EXCEPT !.at = "got", !.lock = lock]
    /\ UNCHANGED <<user, wg, lock, calm>>

\* lockActive.
LockActive == mon.lock # None /\ mon.lock.age <= Idle

\* The ways handleUser ends.
Set(c) == lock' = [ep |-> c, age |-> mon.hs] /\ UNCHANGED ep
Clear == lock' = None /\ UNCHANGED ep
Leave == UNCHANGED <<lock, ep>>

\* Mutation: the monitor reports a second device and does nothing about it.
SetPeerEndpointNot(c) == UNCHANGED <<ep, lock>>

SetPeerEndpoint(c) ==
    /\ ep' = IF peer THEN c ELSE ep
    /\ UNCHANGED lock

\* Mutation: a lock nobody uses any more is kept.
SameEndpointKeeps ==
    IF mon.recent /\ mon.hs < mon.lock.age THEN Set(mon.lock.ep) ELSE Leave

SameEndpoint ==
    IF mon.recent
    THEN IF mon.hs < mon.lock.age THEN Set(mon.lock.ep) ELSE Leave
    ELSE IF LockActive THEN Leave ELSE Clear

\* Mutation: the session moves at the first recent handshake.
OtherEndpointMoves ==
    IF mon.recent /\ mon.ep # None THEN Set(mon.ep)
    ELSE IF LockActive /\ mon.ep # None THEN SetPeerEndpoint(mon.lock.ep)
    ELSE IF LockActive THEN Leave ELSE Clear

OtherEndpoint ==
    IF LockActive /\ mon.ep # None THEN SetPeerEndpoint(mon.lock.ep)
    ELSE IF mon.recent /\ mon.ep # None THEN Set(mon.ep)
    ELSE IF LockActive THEN Leave ELSE Clear

\* Mutation: a session is locked without asking for a recent handshake.
DecideAny ==
    /\ mon.at = "got"
    /\ IF mon.lock = None
       THEN IF mon.ep # None THEN Set(mon.ep) ELSE Leave
       ELSE IF mon.ep = mon.lock.ep THEN SameEndpoint ELSE OtherEndpoint
    /\ mon' = Waiting
    /\ calm' = IF calm < 2 THEN calm + 1 ELSE calm
    /\ UNCHANGED <<user, peer, hs, keys>>

\* The rest of handleUser.
Decide ==
    /\ mon.at = "got"
    /\ IF mon.lock = None
       THEN IF mon.recent /\ mon.ep # None THEN Set(mon.ep) ELSE Leave
       ELSE IF mon.ep = mon.lock.ep THEN SameEndpoint ELSE OtherEndpoint
    /\ mon' = Waiting
    /\ calm' = IF calm < 2 THEN calm + 1 ELSE calm
    /\ UNCHANGED <<user, peer, hs, keys>>

Tick == List \/ ReadEndpoint \/ ReadHandshake \/ HasRecentHS \/ Get \/ Decide
Traffic(c) == Initiation(c) \/ FirstPacket(c) \/ Response(c) \/ Data(c)
Request == Enable \/ AddPeer \/ Disable \/ ClearUser \/ RemovePeer

Next == (\E c \in Clients : Traffic(c)) \/ Derive \/ Time \/ Request \/ Tick

\* The ticker goes on for ever and so does time.  Nobody else need do anything.
Spec == Init /\ [][Next]_vars /\ WF_vars(Time) /\ WF_vars(Tick)

-----------------------------------------------------------------------------
(* Properties.                                                             *)

\* A session moves only when it is idle: whatever the monitor reads late, the lock
\* leaves an endpoint only after the idle timeout, or when the user is disabled.
MovesOnlyWhenIdle ==
    [][lock # None /\ (lock' = None \/ lock'.ep # lock.ep)
       => lock.age > Idle \/ ClearUser]_vars

\* A second device is put back: two ticks after the last packet the peer's endpoint
\* is that of the session, if that session has not become idle.  (The first tick may
\* have read the peer before that packet.)
SecondDeviceBlocked ==
    calm = 2 /\ peer /\ ep # None /\ lock # None /\ lock.age <= Idle => ep = lock.ep

\* A silent user's session is freed: if no more packets come and the user stays
\* enabled, the registry forgets the user.
SilentIsFreed ==
    <>[](on /\ peer) /\ <>[][\A c \in Clients : ~ Traffic(c)]_vars
    => <>[](lock = None)

\* Idle time moves a session: if a client is never heard of again while another keeps
\* completing handshakes, the lock does not stay with the first for ever.
IdleSessionMoves ==
    \A c \in Clients :
       <>[](on /\ peer) /\ <>[][~ Traffic(c)]_vars
       /\ []<><<\E d \in Clients \ {c} : FirstPacket(d)>>_vars
       => []<>(lock = None \/ lock.ep # c)
=============================================================================
