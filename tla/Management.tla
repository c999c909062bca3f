----------------------------- MODULE Management -----------------------------
(***************************************************************************)
(* The management plane: HTTP handlers of mgmt/api running concurrently,   *)
(* one goroutine per request, over the SQLite table of mgmt/store, the     *)
(* peers of the WireGuard device (mgmt/peers), the bandwidth limiter       *)
(* (mgmt/ratelimit) and the session registry (mgmt/session).  A handler is *)
(* a sequence of calls; each call is atomic (one SQL statement, one IpcSet *)
(* under ipcMutex, one limiter call under its mutex, one registry call),   *)
(* and nothing is held between two calls.  The process may crash between   *)
(* any two calls; only the table survives.                                 *)
(*                                                                         *)
(* A user's id and key pair are both generated afresh for each request and *)
(* stand for each other.  Names, keys' contents, times and the responses'  *)
(* bodies are left out; a name conflict is one of the ways a statement can *)
(* fail ("db" in Faults).                                                  *)
(***************************************************************************)
EXTENDS UserTable, Limiter, FiniteSets

CONSTANTS Ids,         \* user ids (and public keys)
          Procs,       \* request goroutines
          NoRow, NoId, \* the absent row, the absent user
          Absent,      \* a field a PATCH does not give
          MaxPerUser,  \* bound: requests about one user running at a time
          Faults       \* calls that may fail, a subset of {"db", "ipc"}

VARIABLES up,      \* the process runs and serves requests
          db,      \* the users table
          issued,  \* history: ids that were ever inserted
          peers,   \* the device's peers
          route,   \* the device's allowed IPs: which peer an address belongs to
          rules,   \* the traffic-control rules of each class
          locks,   \* the users the session registry has an entry for
          req,     \* the request each goroutine works on
          listed,  \* the session monitor has read the table, not yet the peers
          todo,    \* the users its tick has yet to handle
          behind   \* history: users whose peer a failure that nothing took back left
                   \* as it was, while the table says otherwise

vars == <<up, db, issued, peers, route, rules, locks, req, listed, todo, behind>>
table == <<db, issued>>
device == <<peers, route, behind>>
tick == <<listed, todo>>

Classes == PoolHosts
Addrs   == {AddressOf(h) : h \in PoolHosts}
Row     == [addr : Addrs, class : Classes, bw : Rates \cup {0}, on : BOOLEAN]

ASSUME ManagementAssumption ==
    /\ NoRow \notin Row
    /\ NoId \notin Ids
    /\ Absent \notin Nat \cup BOOLEAN
    /\ MaxPerUser \in Nat
    /\ IsFiniteSet(Procs)

\* Where a handler stands: the call it makes next.
Calls == {"INSERT", "UPDATE", "DELETE", "AddPeer", "Apply", "Update",
          "ClearUser", "Remove", "RemovePeer", "undoPeer", "undoRow"}

Idle == [pc |-> "idle"]
Request == [pc : Calls, op : {"create", "update", "delete"}, id : Ids, row : Row,
            bw : Rates \cup {0, Absent}, on : BOOLEAN \cup {Absent}]

TypeOK ==
    /\ up \in BOOLEAN
    /\ db \in [Ids -> Row \cup {NoRow}]
    /\ issued \subseteq Ids
    /\ peers \subseteq Ids
    /\ route \in [Addrs -> Ids \cup {NoId}]
    /\ rules \in [Classes -> Rules]
    /\ locks \subseteq Ids
    /\ req \in [Procs -> Request \cup {Idle}]
    /\ listed \in BOOLEAN
    /\ todo \subseteq Ids
    /\ behind \subseteq Ids

-----------------------------------------------------------------------------
(* The components' operations.                                             *)

Rows == {u \in Ids : db[u] # NoRow}
Used == {db[u].addr : u \in Rows}
Busy(u) == {p \in Procs : req[p] # Idle /\ req[p].id = u}

\* The allowed IPs without those of peer u.
Without(u) == [a \in Addrs |-> IF route[a] = u THEN NoId ELSE route[a]]

\* AddPeer: create the peer if need be and make the address its only allowed IP,
\* whoever had it before.
AddPeer(u, a) ==
    /\ peers' = peers \cup {u}
    /\ route' = [Without(u) EXCEPT ![a] = u]
    /\ behind' = behind \ {u}

\* RemovePeer: a peer that does not exist is created and removed again.
RemovePeer(u) ==
    /\ peers' = peers \ {u}
    /\ route' = Without(u)
    /\ behind' = behind \ {u}

\* Request p makes call next.
Goto(p, next) == req' = [req EXCEPT ![p].pc = next]
Respond(p) == req' = [req EXCEPT ![p] = Idle]

\* The user of request p has a row that the device does not follow.
LeftBehind(p) == behind' = behind \cup {req[p].id}

-----------------------------------------------------------------------------
(* createUser.                                                             *)

\* The request is valid, a key pair is generated and allocateIP reads the table.
BeginCreate(p, u, bw) ==
    LET host == AllocateHost(Used)
    IN  /\ up /\ req[p] = Idle
        /\ u \notin issued /\ Busy(u) = {}
        /\ host # -1
        /\ req' = [req EXCEPT ![p] =
               [pc |-> "INSERT", op |-> "create", id |-> u, bw |-> bw, on |-> TRUE,
                row |-> [addr |-> AddressOf(host), class |-> host,
                         bw |-> bw, on |-> TRUE]]]
        /\ UNCHANGED <<up, table, device, rules, locks, tick>>

\* INSERT: an address that was taken since allocateIP read the table breaks the
\* UNIQUE constraint (409).
Insert(p) ==
    /\ req[p].pc = "INSERT"
    /\ \/ /\ req[p].row.addr \notin Used
          /\ db' = [db EXCEPT ![req[p].id] = req[p].row]
          /\ issued' = issued \cup {req[p].id}
          /\ Goto(p, "AddPeer")
       \/ /\ req[p].row.addr \in Used \/ "db" \in Faults
          /\ Respond(p)
          /\ UNCHANGED table
    /\ UNCHANGED <<up, device, rules, locks, tick>>

\* The limiter failed: the rollback removes the peer, then the row; a failure of
\* either is ignored.
UndoPeer(p) ==
    /\ req[p].pc = "undoPeer"
    /\ RemovePeer(req[p].id)
    /\ Goto(p, "undoRow")
    /\ UNCHANGED <<up, table, rules, locks, tick>>

UndoRow(p) ==
    /\ req[p].pc = "undoRow"
    /\ \/ db' = [db EXCEPT ![req[p].id] = NoRow] /\ UNCHANGED behind
       \/ "db" \in Faults /\ LeftBehind(p) /\ UNCHANGED db
    /\ Respond(p)
    /\ UNCHANGED <<up, issued, peers, route, rules, locks, tick>>

-----------------------------------------------------------------------------
(* Calls that createUser and an enabling updateUser share.                 *)

\* AddPeer fails when the device refuses a new peer; createUser then deletes the
\* row again, updateUser does not take back its UPDATE.
CallAddPeer(p) ==
    /\ req[p].pc = "AddPeer"
    /\ \/ /\ AddPeer(req[p].id, req[p].row.addr)
          /\ Goto(p, "Apply")
       \/ /\ "ipc" \in Faults /\ req[p].id \notin peers
          /\ IF req[p].op = "create" THEN Goto(p, "undoRow") /\ UNCHANGED behind
                                     ELSE Respond(p) /\ LeftBehind(p)
          /\ UNCHANGED <<peers, route>>
    /\ UNCHANGED <<up, table, rules, locks, tick>>

\* Mutation: createUser's rollback forgets the peer.
CallApplyForgets(p) ==
    /\ req[p].pc = "Apply"
    /\ \E out \in Apply(rules[req[p].row.class], req[p].row.bw) :
          /\ rules' = [rules EXCEPT ![req[p].row.class] = out[2]]
          /\ IF ~ out[1] /\ req[p].op = "create" THEN Goto(p, "undoRow") ELSE Respond(p)
    /\ UNCHANGED <<up, table, device, locks, tick>>

\* limiter.Apply: when it fails createUser rolls back, without removing the rules
\* that were made; updateUser ends.
CallApply(p) ==
    /\ req[p].pc = "Apply"
    /\ \E out \in Apply(rules[req[p].row.class], req[p].row.bw) :
          /\ rules' = [rules EXCEPT ![req[p].row.class] = out[2]]
          /\ IF ~ out[1] /\ req[p].op = "create" THEN Goto(p, "undoPeer") ELSE Respond(p)
    /\ UNCHANGED <<up, table, device, locks, tick>>

-----------------------------------------------------------------------------
(* updateUser.                                                             *)

\* Get: the row as it is now, with the fields of the request put in.
BeginUpdate(p, u, bw, on) ==
    /\ up /\ req[p] = Idle
    /\ db[u] # NoRow
    /\ Cardinality(Busy(u)) < MaxPerUser
    /\ req' = [req EXCEPT ![p] =
           [pc |-> "UPDATE", op |-> "update", id |-> u, bw |-> bw, on |-> on,
            row |-> [db[u] EXCEPT !.bw = IF bw = Absent THEN @ ELSE bw,
                                  !.on = IF on = Absent THEN @ ELSE on]]]
    /\ UNCHANGED <<up, table, device, rules, locks, tick>>

\* Mutation: a PATCH that disables the user only marks the row.
EnablingOnly(p) ==
    IF req[p].on \in {Absent, FALSE} THEN Respond(p) ELSE Goto(p, "AddPeer")

\* What is left to do once the limit is right: enable or disable the peer.
Enabling(p) ==
    IF req[p].on = Absent THEN Respond(p)
    ELSE Goto(p, IF req[p].on THEN "AddPeer" ELSE "ClearUser")

\* The handler ends before it does so.
GiveUp(p) == IF req[p].on = Absent THEN UNCHANGED behind ELSE LeftBehind(p)

\* UPDATE writes every mutable column of the row that was read; a row deleted in
\* the meantime stays deleted, and that is no error.
UpdateRow(p) ==
    /\ req[p].pc = "UPDATE"
    /\ \/ /\ db' = [db EXCEPT ![req[p].id] = IF @ = NoRow THEN NoRow ELSE req[p].row]
          /\ IF req[p].bw = Absent THEN Enabling(p) ELSE Goto(p, "Update")
       \/ /\ "db" \in Faults
          /\ Respond(p)
          /\ UNCHANGED db
    /\ UNCHANGED <<up, issued, device, rules, locks, tick>>

\* Mutation: a new limit is applied over the old rules, which are not removed.
CallUpdateNoRemove(p) ==
    /\ req[p].pc = "Update"
    /\ \E out \in Apply(rules[req[p].row.class], req[p].row.bw) :
          /\ rules' = [rules EXCEPT ![req[p].row.class] = out[2]]
          /\ IF out[1] THEN Enabling(p) /\ UNCHANGED behind ELSE Respond(p) /\ GiveUp(p)
    /\ UNCHANGED <<up, table, peers, route, locks, tick>>

\* limiter.Update: when it fails the handler ends, even if the request also asked
\* to enable or disable the user.
CallUpdate(p) ==
    /\ req[p].pc = "Update"
    /\ \E out \in Update(rules[req[p].row.class], req[p].row.bw) :
          /\ rules' = [rules EXCEPT ![req[p].row.class] = out[2]]
          /\ IF out[1] THEN Enabling(p) /\ UNCHANGED behind ELSE Respond(p) /\ GiveUp(p)
    /\ UNCHANGED <<up, table, peers, route, locks, tick>>

-----------------------------------------------------------------------------
(* deleteUser, and the calls it shares with a disabling updateUser.        *)

BeginDelete(p, u) ==
    /\ up /\ req[p] = Idle
    /\ db[u] # NoRow
    /\ Cardinality(Busy(u)) < MaxPerUser
    /\ req' = [req EXCEPT ![p] = [pc |-> "DELETE", op |-> "delete", id |-> u,
                                  bw |-> Absent, on |-> Absent, row |-> db[u]]]
    /\ UNCHANGED <<up, table, device, rules, locks, tick>>

DeleteRow(p) ==
    /\ req[p].pc = "DELETE"
    /\ \/ /\ db' = [db EXCEPT ![req[p].id] = NoRow]
          /\ Goto(p, "ClearUser")
       \/ /\ "db" \in Faults
          /\ Respond(p)
          /\ UNCHANGED db
    /\ UNCHANGED <<up, issued, device, rules, locks, tick>>

CallClearUser(p) ==
    /\ req[p].pc = "ClearUser"
    /\ locks' = locks \ {req[p].id}
    /\ Goto(p, "Remove")
    /\ UNCHANGED <<up, table, device, rules, tick>>

CallRemove(p) ==
    /\ req[p].pc = "Remove"
    /\ \E out \in Remove(rules[req[p].row.class]) :
          rules' = [rules EXCEPT ![req[p].row.class] = out[2]]
    /\ Goto(p, "RemovePeer")
    /\ UNCHANGED <<up, table, device, locks, tick>>

\* Mutation: the address is taken off the device, whoever has it by now.
CallRemovePeerAddress(p) ==
    /\ req[p].pc = "RemovePeer"
    /\ peers' = peers \ {req[p].id}
    /\ route' = [route EXCEPT ![req[p].row.addr] = NoId]
    /\ behind' = behind \ {req[p].id}
    /\ Respond(p)
    /\ UNCHANGED <<up, table, rules, locks, tick>>

CallRemovePeer(p) ==
    /\ req[p].pc = "RemovePeer"
    /\ RemovePeer(req[p].id)
    /\ Respond(p)
    /\ UNCHANGED <<up, table, rules, locks, tick>>

-----------------------------------------------------------------------------
(* The session monitor's tick: two snapshots, then a decision per user.    *)

MonitorList ==
    /\ up /\ ~ listed /\ todo = {}
    /\ listed' = TRUE
    /\ todo' = {u \in Rows : db[u].on}
    /\ UNCHANGED <<up, table, device, rules, locks, req>>

MonitorPeers ==
    /\ listed
    /\ listed' = FALSE
    /\ todo' = todo \cap peers
    /\ UNCHANGED <<up, table, device, rules, locks, req>>

\* handleUser locks the session to an endpoint, frees it, or puts the peer's
\* endpoint back (SetPeerEndpoint is update_only: a peer that is gone stays gone).
\* Session says which; here each is possible, the snapshots being old.
MonitorHandle(u) ==
    /\ ~ listed /\ u \in todo
    /\ todo' = todo \ {u}
    /\ locks' \in {locks, locks \cup {u}, locks \ {u}}
    /\ UNCHANGED <<up, table, device, rules, req, listed>>

-----------------------------------------------------------------------------
(* The process.                                                            *)

\* Killed: everything but the table is gone, the network interface and its
\* traffic-control rules included; what stays on ifb0 has no effect without them
\* (Summary in TrafficControl).
Crash ==
    /\ up
    /\ up' = FALSE
    /\ peers' = {}
    /\ route' = [a \in Addrs |-> NoId]
    /\ rules' = [c \in Classes |-> 0]
    /\ locks' = {}
    /\ req' = [p \in Procs |-> Idle]
    /\ listed' = FALSE
    /\ todo' = {}
    /\ behind' = {}
    /\ UNCHANGED table

\* Start: peers and limits of the enabled users are restored before requests are
\* served; a user whose peer cannot be added is skipped, a limit that cannot be
\* applied is logged.
Start ==
    /\ ~ up
    /\ up' = TRUE
    /\ LET enabled == {u \in Rows : db[u].on}
       IN \E restored \in SUBSET enabled :
          /\ restored = enabled \/ "ipc" \in Faults
          /\ peers' = restored
          /\ behind' = enabled \ restored
          /\ route' = [a \in Addrs |->
                IF \E u \in restored : db[u].addr = a
                THEN CHOOSE u \in restored : db[u].addr = a ELSE NoId]
          /\ rules' \in [Classes -> Rules]
          /\ \A c \in Classes :
                IF \E u \in restored : db[u].class = c
                THEN \E u \in restored, ok \in BOOLEAN :
                        db[u].class = c /\ <<ok, rules'[c]>> \in Apply(0, db[u].bw)
                ELSE rules'[c] = 0
    /\ UNCHANGED <<table, locks, req, tick>>

Init ==
    /\ up = FALSE
    /\ db = [u \in Ids |-> NoRow]
    /\ issued = {}
    /\ peers = {}
    /\ route = [a \in Addrs |-> NoId]
    /\ rules = [c \in Classes |-> 0]
    /\ locks = {}
    /\ req = [p \in Procs |-> Idle]
    /\ listed = FALSE
    /\ todo = {}
    /\ behind = {}

\* A request arrives.
Begin(p) ==
    \E u \in Ids :
       \/ \E bw \in Rates \cup {0} : BeginCreate(p, u, bw)
       \/ \E bw \in Rates \cup {0, Absent}, on \in BOOLEAN \cup {Absent} :
             BeginUpdate(p, u, bw, on)
       \/ BeginDelete(p, u)

\* A handler makes its next call.
Step(p) ==
    \/ Insert(p) \/ UndoPeer(p) \/ UndoRow(p)
    \/ CallAddPeer(p) \/ CallApply(p)
    \/ UpdateRow(p) \/ CallUpdate(p)
    \/ DeleteRow(p) \/ CallClearUser(p) \/ CallRemove(p) \/ CallRemovePeer(p)

Monitor == MonitorList \/ MonitorPeers \/ \E u \in Ids : MonitorHandle(u)

Next ==
    \/ \E p \in Procs : Begin(p) \/ Step(p)
    \/ Monitor
    \/ Crash \/ Start

Spec == Init /\ [][Next]_vars

-----------------------------------------------------------------------------
(* Properties.                                                             *)

\* The process serves requests and none about u is running.
Settled(u) == up /\ Busy(u) = {}

\* No stray peer: once the requests about a user are over, a peer on the device
\* has a row in the table.  Rollbacks, failures, crashes and the monitor's stale
\* snapshots never leave a peer behind that no row accounts for.
NoOrphanPeer ==
    \A u \in Ids : Settled(u) /\ u \in peers => db[u] # NoRow

\* Addresses lead home: the address of a user who has a peer leads to that peer, at
\* every moment.  Addresses of deleted users are given out again while their
\* deletion is still under way (deleteUser frees the row first and removes the peer
\* last), and neither the late removal nor a rollback takes the address from the
\* user who has it by then.
AddressesLeadHome ==
    \A u \in peers : db[u] # NoRow => route[db[u].addr] = u

\* Table and device agree: once the requests about a user are over, the device has
\* the peer exactly when the user is enabled.  The exceptions are the failures that
\* the handlers do not take back (a rollback whose DELETE fails, an enabling PATCH
\* whose AddPeer fails, a PATCH that ends at the limiter before it enables or
\* disables, a peer that Start skips), and those last only until the next request
\* that reaches the device for that user, or the next start.
PeersMatchTable ==
    \A u \in Ids : Settled(u) /\ u \notin behind =>
       (u \in peers <=> db[u] # NoRow /\ db[u].on)

\* Table and traffic control agree: an enabled user has the rules of its
\* bandwidth, a disabled one has none or those a PATCH of the bandwidth made, and
\* a class nobody has was cleaned up.
RulesMatchTable ==
    /\ \A u \in Rows : Settled(u) =>
          rules[db[u].class] \in {db[u].bw} \cup (IF db[u].on THEN {} ELSE {0})
    /\ \A c \in Classes :
          up /\ (\A p \in Procs : req[p] = Idle) /\ (\A u \in Rows : db[u].class # c)
          => rules[c] = 0

\* Creating a user applies its limit: a user that is enabled and has a limit has
\* the rules for it.
LimitApplied ==
    \A u \in Rows : Settled(u) /\ db[u].on /\ db[u].bw # 0 =>
       rules[db[u].class] = db[u].bw

\* Every address given out lies in the configured subnet and is neither its
\* network address, its first host nor its broadcast address (allocateIP).
InSubnet ==
    Used \subseteq {LET v == Base[1] * Octet + Base[2] + n
                    IN  <<v \div Octet, v % Octet>> : n \in 2 .. SubnetSize - 2}

\* An update is partial: the UPDATE of a PATCH changes only the columns that the
\* request gives a value for (updateUser; "Partial update.", docs/API.md).
PartialUpdate ==
    [][\A p \in Procs :
          req[p].pc = "UPDATE" /\ req'[p] # req[p] /\ db[req[p].id] # NoRow
          => /\ req[p].bw = Absent => db'[req[p].id].bw = db[req[p].id].bw
             /\ req[p].on = Absent => db'[req[p].id].on = db[req[p].id].on]_vars
=============================================================================
