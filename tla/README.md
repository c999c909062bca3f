# A TLA+ model of wgservermgr

This directory holds TLA+ models of wgservermgr, a fork of wireguard-go with a
built-in management plane; TLC configurations that check them on small
instances; and TLAPS proofs of what matters most, for every value of the
constants. `PROJECT.json` lists, for every definition, the source lines it
translates, and for every property a mutation of the model that breaks it.

## The system

**Data plane** (`device/`, with `replay/`, `ratelimiter/`, `tai64n/`, `conn/`,
`tun/`, `ipc/`). A device has peers. A peer has a Noise handshake, three keypairs
(current, previous, next), allowed IPs, timers and queues. Packets read from the
TUN device find their peer by longest prefix, are encrypted by parallel workers
and sent in order; packets received find their keypair by an index in the index
table, are decrypted by parallel workers, pass the replay filter in order and
are written to the TUN device. Handshake messages go to handshake workers.

**Management plane** (`mgmt/`). An HTTP server creates, changes and deletes
users. A user is a row in SQLite, a peer of the device, an address, and possibly
a bandwidth limit made of traffic-control rules. A handler makes its calls to
these one after another and holds nothing in between. A monitor polls table and
peers every few seconds and keeps each user's session at one endpoint. At start
everything is rebuilt from the table.

The two planes meet at the device's configuration protocol: the management
plane adds, removes and redirects peers (`IpcSet`), and reads endpoints and
handshake times (`IpcGet`), while packets go on moving endpoints.

### Inventory

| Part | Source | Module | Status |
|---|---|---|---|
| Replay filter | `replay/` | ReplayFilter, ReplayWindow | modelled, proved |
| Allowed IPs | `device/allowedips.go` | AllowedIPs, PrefixMap | modelled |
| Handshake, index table, keypairs | `device/noise-protocol.go`, `indextable.go`, `keypair.go`, parts of `peer.go`, `receive.go` | Noise | partly, proved |
| User store | `mgmt/store/` | UserTable, Management | partly |
| API handlers, start-up | `mgmt/api/`, `mgmt/mgmt.go` | Management | modelled, proved |
| Peer manager | `mgmt/peers/` | Management, Session | modelled |
| Bandwidth limiter | `mgmt/ratelimit/` | Limiter, TrafficControl | modelled |
| Session monitor | `mgmt/session/` | Session, Management | modelled, proved |
| Device and peer lifecycle, locks | `device/device.go`, `peer.go`, `tun.go` | | planned |
| Timers | `device/timers.go` | Session (time of the last handshake) | planned |
| Send and receive paths, queues, pools | `device/send.go`, `receive.go`, `channels.go`, `pools.go` | Session, Noise (what a packet does to its peer's endpoint and keypairs) | planned |
| Cookies, rate limiter, load | `device/cookie.go`, `ratelimiter/` | | planned |
| Configuration protocol | `device/uapi.go` | Session (the two reads of a get operation); a set operation is one step | planned |
| Configuration, set-up | `mgmt/config/`, `mgmt/setup/` | | planned |
| Sockets, TUN, offload, UAPI sockets, main | `conn/`, `tun/`, `ipc/`, `rwcancel/`, `main*.go` | | mostly system calls; not modelled |

## The modules

**ReplayFilter** keeps the ring of bitmap blocks of `replay.go`. `Reset` and
`ValidateCounter` are its actions; a block is the set of its 1 bits. `accepted`
(the counters accepted since the last reset) and `ret` (the answer of the latest
call) are there for the properties. **ReplayWindow** is what it promises: a
sliding window over the set of accepted counters. `ImplementsWindow` states the
refinement; both modules share their variables' names, and the ring is the only
one the window does not have.

**AllowedIPs** is the path-compressed trie. A node is named by its prefix; a
*slot* is a place that holds a pointer (the root or a child of a node), which is
what `parentIndirection` is in the code; each peer has the list of its nodes.
`insert`, `remove`, `nodePlacement` and `lookup` are operators on a trie that
follow the code case by case; `Insert`, `Remove` and `RemoveByPeer` are the
actions (each holds the table's mutex). **PrefixMap** is what it promises: a map
from prefixes to peers, and routing to the owner of the longest covering prefix.

**Noise** has two devices that are each other's peer. Each has several handshake
workers; an action is what happens under one hold of the handshake's lock or the
keypairs' lock, so `ConsumeMessageInitiation` and `ConsumeMessageResponse` are
two actions each (`Read...`, `Commit...`), answering an initiation is two more
(`CreateResponse`, `BeginSymmetricSession`), and `ZeroAndFlushAll` is two
(`ZeroKeypairs`, `ZeroHandshake`). Sent messages stay in `net` for ever: they may
be lost, delayed, duplicated and reordered. The index table is two variables,
`waiting` (indices of handshakes) and `routed` (indices of keypairs).
Cryptography is perfect: the chaining key is the pair of ephemeral keys mixed
into it. The code's rate limits on initiations only say *when*; the model lets
initiations be made and taken at any time. A received packet is taken whatever the
age of its keypair and however often it arrived, so the model has more behaviours
than the code there. With perfect cryptography `CreateMessageResponse` does not fail
after it has taken its index; the code's error returns at that point are left out.
Index 0, which means "none" to the code, is never allocated in the model (see
*Hazards*).

**UserTable** is `allocateIP` with its conversions between host numbers and
addresses: a host number is cut to a byte and replaces the last octet, and only
the last octet is read back. **Limiter** is the contract of the bandwidth
limiter: for each operation the set of its outcomes, an error or not together
with what is left of a class's rules (`Mixed`: a failing `Apply` may leave old and
new rules in any mixture, but takes none away and makes up no rate). **Management**
composes them with the
device's peers and allowed IPs and the session registry. Each request goroutine
is a process whose program counter names the call it makes next; each call (a
SQL statement, an `IpcSet`, a limiter call, a registry call) is an action. The
monitor reads the table, then the peers, then handles each user. `Crash` may come
between any two calls and leaves only the table; `Start` restores the rest. The
history variable `behind` has the users whose peer a failure left as it was without
anything taking the failure back; it says where `PeersMatchTable` makes an exception.
**MCServing** runs Management in three environments: any call may fail and all users
compete for one address; no call fails, and the session monitor polls; no call fails
and requests come one at a time.

**TrafficControl** is the limiter command by command, each of which may fail, with
the process killed and started again at any point. It checks that the outcomes are
among those that Limiter promises, so that Management may use them.

**Session** is the monitor for one user at full detail. An initiation moves the
peer's endpoint at once and its handshake counts only with the first packet that
confirms the keypair (`Initiation`, `FirstPacket`); for a handshake the server began,
the endpoint moves with the response and the time is stored after the keys were
derived (`Response`, `Derive`). Other packets only move the endpoint (`Data`). The
monitor's tick reads the table, the endpoint, the handshake time and the registry in
four steps, judges the handshake before the last of them, and then decides. `AddPeer` and
`RemovePeer` do not come between the two reads of one `IpcGet`, which holds the
same mutex; packets do. Times are ages, and all ages above the timeout are alike.

`MC*` modules and `.cfg` files give the constants values. `*Proofs` modules hold
theorems.

## What the runs check

Passing runs:

| Run | Instance | Properties |
|---|---|---|
| `replay_filter` | 4 blocks of 2 bits, counters past the limit 17 | `RingExact`: the ring holds exactly the accepted counters of the window, whatever older blocks left in it. `ImplementsWindow`: answers are those of a sliding window. |
| `allowed_ips` | addresses of 3 bits, 2 peers, 3 prefixes | `Linked`: every node is in the slot it believes it is in, and on its peer's list. `Compact`: no node without a purpose is left. `LongestPrefix`: routing follows the longest prefix. `ImplementsMap`: an operation on one prefix leaves all others alone. |
| `noise` | 2 devices, 2 workers each, 3 indices, 2 initiations, 2 responses, 1 zeroing | `IndexTableExact`: the table leads to the pending handshake and to the keypairs held that have an index, and to nothing else. `KeyConfirmed`: a responder sends with a key only after the initiator has it. `Paired`: keypairs of one key have the same role exactly when they are on the same node, and the initiator sends to the index of the responder. `TimestampsAdvance`: the accepted timestamp never goes back. |
| `management_serving` | 2 users, 2 requests at a time about different users, monitor, crashes; the three environments of MCServing | `NoOrphanPeer`: no rollback, failure or stale tick leaves a peer without a row. `AddressesLeadHome`: the address of a user with a peer leads to that peer, also while the deletion of its last owner is under way. `PeersMatchTable`: the device has exactly the enabled users' peers, apart from failures the handlers do not take back. `SerialRules`: the traffic-control rules are those of the table once requests are over, when they come one at a time and no call fails. |
| `traffic_control` | 2 users, 2 rates, failures and restarts anywhere | `Contract`: outcomes are those Limiter promises. `Repairs`: an operation no command of which fails leaves the rules as asked, whatever was left before. `NothingToRemove`: skipping removals before initialisation loses nothing. |
| `session` | 2 clients, timeout of 2 units | `MovesOnlyWhenIdle`, `SecondDeviceBlocked`, and the liveness property `SilentIsFreed`: a silent user's lock is given up. |

Runs that show where the code and its documents disagree:

| Run | What it shows |
|---|---|
| `management_orphan` | A DELETE that overlaps another request about the same user (an enabling PATCH, or the POST that created it) can leave the peer on the device without a row, until the next restart. |
| `management_limit_lost` | A DELETE frees the address and class before it removes the rules. A user created in between gets both, and loses the limit. |
| `management_partial_update` | Of two overlapping PATCH requests the later one writes back a column that only the other one gave. |
| `traffic_control_default` | The limit of the user at host 10 is put on class 1:10, the default class of all users without a limit. |
| `management_subnet` | With a subnet whose base does not end in 0 (10.8.0.128/25), addresses outside the subnet are handed out. |
| `session_moves` | The handshakes of a second device that is being blocked refresh the lock of the first one, so that the session of a client that is gone may never move. |

### Bounds, and why they are enough

* `replay_filter`: the ring is larger than the window by one block and counters
  run over it twice, so every slot is reused, and jumps of more than the whole
  ring happen. The proof covers all other sizes.
* `allowed_ips`: three bits and three prefixes give every shape that `insert` and
  `remove` tell apart: empty slot, above, beside, with and without a parent, the
  default route (length 0) and host routes (full length).
* `noise`: two workers and two initiations are what it takes for two workers to
  hold the same message, for initiations to cross, and for each rotation to find
  one and two of the three slots in use (never three: whatever fills `next` empties
  `previous`). Three indices are enough for handshake and keypairs
  to hold different ones and for a freed one to be used again. The exactness of
  the table and the timestamps are proved for all sizes.
* `management_*`: two requests and two users give every pair of overlapping
  handlers. `MaxPerUser` is 1 where the property is about requests that concern
  different users, 2 where they overlap. With failures all users compete for, and
  reuse, one address (`OneAddress`); without, each has a choice of five. Rules are only
  compared with the table when requests come one at a time, so two rates are needed
  only there (`OneRate`). The address byte has 16 values in place of 256; only
  whether the pool fits below it matters.
* `traffic_control`: two users and two rates, so that a rate may be replaced by
  another and the rules of one user be left over while the other's are made.
  `traffic_control_default` gives one user the number of the default class.
* `session`: two clients are the owner and the intruder; the timeout of 2 units
  gives ages that are fresh, older than another fresh one, and expired.

`noise` may stop when its bounds are used up and is checked without deadlock
checking. Everywhere else deadlock is checked.

### Fairness

Only Session states fairness: the monitor's ticker goes on (`time.Ticker` in
`run`) and time passes. Nothing is assumed about clients, administrators, or
handlers that have begun; a property that needs them to do something, or to be silent,
says so itself.

## What is proved

All for every value of the constants, under the named assumptions of the modules.
These only say that numbers are natural, sizes positive (a subnet has at least two
addresses), and markers such as `Nil` are not ordinary values.

* **ReplayFilterProofs**: `FilterExact` (`RingExact` with the type invariant is
  inductive) and `FilterImplementsWindow`. The arithmetic is in lemmas: blocks of
  one window never share a slot (`ModInjective`), a capped clearing loop meets
  every slot (`ResidueCover`), a counter is its block and its bit (`BlockBit`).
* **ManagementProofs**: `ManagementType`; and, for any number of users, requests,
  failures and crashes when requests about one user do not overlap (`MaxPerUser = 1`),
  `NoStrayPeers` and `AddressesLead`. `NoOrphanPeer` only speaks of users no request
  is about, so it is not inductive. `PeerInv` adds what holds in the middle of a
  handler: a peer without a row has a request that is going to remove it
  (`Accounted`), and what each program counter may rely on (`Places`).
  `AddressesLeadHome` needs two more facts (`AddressInv`): no two rows have one
  address (`Unique`, kept by the INSERT, not by the allocation before it), and the
  address a handler works with is the one in the table (`Current`). Overlapping
  requests break both results: `management_orphan` shows the first, and an enabling
  PATCH that comes after a DELETE adds the peer at an address that a new user may
  have by then.
* **SessionProofs**: `SessionMovesOnlyWhenIdle`. The monitor decides on a lock it
  read earlier; the proof needs that the lock is still that one, or was cleared
  (`Seen`), because nobody but the monitor makes locks, and that a handshake judged
  recent has a time (`Judged`).
* **NoiseProofs**: `NoiseType`, `IndexTable` and `Timestamps`, for any number of
  devices, workers, indices and messages. Types alone are not inductive: a keypair is
  made of the chaining key, so the invariant says how much is mixed into the
  chaining key in which state (`ChainOK`). Exactness of the table is not
  either: deleting a keypair's index would hit another keypair or the handshake
  if they shared it, so the invariant (`Exact`) adds that indices are never
  shared. It is stated about values, one lemma per table operation, and then
  lifted to steps.

Only model-checked: liveness (`SilentIsFreed`; temporal reasoning under fairness is
beyond the prover used here), `AllowedIPs` (lookups are recursive over the trie, and
what a recursive definition computes for every input needs induction over data),
`KeyConfirmed` and `Paired`, `PeersMatchTable` and `SerialRules`,
`SecondDeviceBlocked`, and TrafficControl.

## Hazards

`PROJECT.json` lists them with the line where each bites. Some observations
from modelling that no document speaks of, so that no run claims them as errors:

* `ConsumeMessageResponse` does not look at the state again when it commits. Two
  workers with two copies of one response both derive a keypair; the second has no
  index, so nothing can be received with it, until the next handshake.
* `BeginSymmetricSession` takes the handshake as it finds it. With two workers
  answering two initiations, a response may be sent whose key was not derived.
* A random index can be 0, which the rest of the code takes for "no index".
* Of two initiations that two workers have read, the older may be committed last and
  overwrite the newer handshake (only the timestamp keeps the maximum).
* Deleting rules ignores failures, so a limit set to 0 may stay in force.
* A PATCH whose limiter call fails ends before it enables or disables the peer, with
  the row already changed (`behind` in Management).

## Plan

In this order; each item adds a module, its run, and proofs where noted.

1. **Lifecycle**: device states, `Up`/`Down`/`Close`, `Peer.Start`/`Stop`,
   `SetPrivateKey`, `ExpireCurrentKeypairs`, `BindUpdate`, with every lock as a
   resource: no deadlock, no routine outlives the close, no peer starts on a closed
   device. Proof: lock order, at most one state change at a time.
2. **Timers**: the five timers with `Mod`/`Del`/`DelSync` racing the expiry
   function; after `timersStop` nothing fires; the handshake is retried and given up.
3. **Send and receive pipelines**: staged packets, nonces, parallel workers,
   in-order delivery, bounded queues and pools. An abstract FIFO per peer, and
   the pipeline as its refinement; no buffer is lost or returned twice. Proof: nonces
   are never used twice, order is kept.
4. **Admission**: cookies, rate limiter and load state; token bucket against a
   reference, and its garbage collector's restart.
5. **Configuration protocol**: a set operation line by line with failure half-way,
   shown to implement the single step Management uses.
6. **Configuration and set-up**: restarts half-way, the stored server key.
7. **Composition**: Noise with timers and pipeline; Management with Session.
   Proofs: `PeersMatchTable`, `KeyConfirmed`, the limiter's `Contract`.

Not planned: sockets, TUN devices of each operating system, named pipes and
command-line handling, which are system calls with little state of their own.
