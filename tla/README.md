# TLA+ models of the UDP mesh

The repository holds a coordinator (`src/cmd/server`) and a mesh node
(`src/cmd/mesh-node`). Nodes register with the coordinator over HTTP and a
control WebSocket, learn the topology from it, and exchange UDP datagrams with
each other through NATs. This directory models the parts of that program whose
correctness depends on the order in which goroutines, packets and timers act.
It model-checks them with TLC and proves their safety with TLAPS.

## Inventory of the system

| Component | State | Operations | Hard because | What makes it correct |
|---|---|---|---|---|
| Symmetric NAT transport (node) | `conn`, `symmetricConns`, `receiveSockets`, `symmetricBurstInFlight`, `symmetricBackoff`, `networkGen`, `edgeRetries`, `recoveryMu` | `establishSymmetricTransport(Once)`, `installSymmetricConn`, `resetSymmetricRelay`, `retryDeadEdge`, `rebindUDPConn`, `resetTransportState`, `recoverNetwork`, `roamRefresh`, `refreshEndpointAttempt`, `verifyEndpoint` | four kinds of pass and one retry goroutine per edge replace the same sockets; values are read under one lock and used under another | one burst per relay, no leaked or deaf socket, a silent relay is scanned again, a node without a socket recovers |
| Control channel (node and coordinator) | `n.control`, `controlReply`; `s.controls`, `controlSessions` | `request`, `connectControl`, `readControl`, `pokeControlReconnect`, `monitorControl`; `controlWS` | half-open connections, late replies, late registrations | exclusive binding of the newest connection, replies match, no socket leak, the node ends up bound |
| Symmetric rendezvous (peer, coordinator, relay) | `symmetricAckWaiters`; `s.symmetricRendezvous`; `symmetricScans`, `symmetricSessions`, `symmetricConnected`, slots | `requestSymmetricScan`, `symmetricScanRequest`, `symmetricScanACK`, `handleSymmetricScanEvent`, `handleSymmetricBurst`, `startSymmetricScan`, `scanSymmetricNeighbor`, `completeSymmetricScan` | repeated requests, events in goroutines of their own, UDP | the relay scans before the peer bursts; scans stay cancellable; no channel is closed twice |
| Legacy rendezvous (coordinator) | `s.sessions` | `rendezvousRegister`, `rendezvousWait` | waiters hold entries that are replaced | every wait is answered |
| Registry (coordinator) | tables `nodes`, `role_overrides`, `node_tokens`, `revoked_nodes`, `invites` | `register`, `allocate`, `rebalanceRolesFor`, the maintenance loop, `adminNode`, `adminNodeRole`, `adminUnban`, `adminInvite` | the previous row is read before `registerMu`; roles are read at once and written one by one; leases expire | unique addresses, a node keeps its owner, a removed node fades, the backbone is refilled |
| Link graph and cache (coordinator) | `graph_links`, `graph_blocks`, settings, `metrics`, `linkCache`, `metricStamp`, `cacheEpoch` | `links`, `backboneLinks`, `addAutomaticClientLinks`, `ensureConnected`, `cachedTopologyLinks`, `updateLinkMetrics`, `invalidateLinkCache` | an entry is built from reads made at different times; the map has a limit | the cache answers with what would be computed; islands are bridged, blocks respected, clients reach each other over superpeers |
| Topology and routes (node) | `topologyVersion`, `neighbors`, `links`, `routes`, `altRoutes`, `pendingLAN` | `bootstrap`, `applyTopology`, `computeRoutes`, `linkHealth`, `nextHop`, `touch`; `pushTopologies`, `bootstrapUnchanged` | pushes race conditional polls; tables are computed without the lock and installed later | one version at a time, the newest in the end, a usable hop wherever there is one |
| Fast data plane (node, `internal/protocol`) | `fastSeen` rings, `seen`, `sharedKeys`, `fastPeerSnap`, three kinds of queues, `peer.last` | `sendIP`, `enqueueUDP`, `enqueueFast`, `fast`, `rememberFast`, `sendFast`, `enqueueDeliver`, `deliver`, `handleDatagram`, `encodePacketForPeer` | lost, duplicated and reordered datagrams, several workers, bounded rings and queues | a packet is taken in once per window, by its destination, in the order of its flow; only direct packets confirm a path |
| Self-update (node and coordinator) | the executable, its `.old`, the temporary file, `updating`; `update_binaries`, `update_settings` | `adminUpdateBinary`, `adminUpdates`, `adminUpdateDispatch`, `handleUpdateEvent`, `downloadUpdate`, `swapAndRestart` (two builds) | kills and power cuts between two renames; errors of a roll-back are ignored | a machine keeps a build it can start; what is installed is what was announced; commands are heard |
| LAN discovery, invitations, node tokens, telemetry | maps and tables | as far as the components above use them | | see there |
| Port forwards, TCP tunnels, service calls, sessions of the admin interface, settings | maps of their own, SQLite tables | handlers of the same names | | not modelled, see the end |
| DNS, TUN, firewall, batch I/O, admin interface, measurement | none, or the operating system's | | | not modelled: I/O and presentation |

The components meet at a few points. `establishSymmetricTransportOnce` calls
`requestSymmetricScan`, whose frame travels over the control channel to the
coordinator, which pushes an event over the relay's control channel. A
registration that changes the topology, an edit of the administrator, or
telemetry makes the coordinator build links again (`LinkCache`) and push them;
pushed topologies and bootstrap replies end in `applyTopology` (`NodeTopology`),
which decides which neighbors, scans and routes remain; the data plane asks
`nextHop` for every packet (`DataPlane` lets it answer anything `NodeTopology`
could give). A control reconnect starts `refreshEndpointAttempt`, which rebinds
the primary socket.

## Modules

| Module | Models | Proofs |
|---|---|---|
| `SymmetricTransport` (`MCSymmetricTransport`) | the sockets of a node behind a symmetric NAT | `SymmetricTransportProofs` |
| `ControlChannel` (`MCControlChannel`) | the control WebSocket of one node | `ControlChannelProofs` |
| `SymmetricRendezvous` (`MCSymmetricRendezvous`) | peers, coordinator and one relay | `SymmetricRendezvousProofs` |
| `LegacyRendezvous` | the coordinator's table for old clients | none |
| `Registry` (`MCRegistry`) | registrations, addresses, leases, roles, removal, invitations | `RegistryProofs` |
| `LinkGraph` | `links` and the functions it is made of, as operators | `LinkCacheProofs` |
| `LinkCache` (`MCLinkCache`), extends `LinkGraph` | the cached links of the coordinator | `LinkCacheProofs` |
| `NodeTopology` (`MCNodeTopology`) | coordinator and one node: pushes, polls, routes | `NodeTopologyProofs` |
| `MeshDelivery` | abstract specification: what the data plane promises | none |
| `DataPlane` (`MCDataPlane`), implements `MeshDelivery` | the packets that nodes exchange | `DataPlaneProofs` |
| `SelfUpdate` | the update of a node's executable | `SelfUpdateProofs` |

Every module states in its header what it abstracts. The mutants in the modules
(operators whose comment begins with `Mutant:`) are no part of the
specifications. They are plausible mistakes in the operator that follows, and
each property is violated by one of them, so that no property holds merely
because the model cannot break it.

### SymmetricTransport

Sockets are identities. `open` is what the operating system holds, `conn`,
`conns` and `readers` are the program's maps, `held[t]` is the `*net.UDPConn` a
goroutine has read and will use later. Threads are the holder of `recoveryMu`
(`Pass`) and one `retryDeadEdge` goroutine per superpeer. A step is the code
between two places where another goroutine can be seen, so that, for example,
`resetSymmetricRelay` is four steps: `ReadPrimary`, `DropTransport`, and
`PromoteTransport` or `DiscardTransport`. Time is the choice of `LinkTimesOut`,
`BackoffElapses` and `BurstTimesOut`. The passes of `recoverNetwork`,
`roamRefresh`, `refreshEndpointAttempt` and `verifyEndpoint` share their steps;
where they differ (`recovering`) the guards say so. The node stays behind a
symmetric NAT (`nat = "symmetric"`), and the relays stay its neighbors.

### ControlChannel

A frame is the operation it belongs to. A connection has a node side
(`nodeOpen`, `readers`, `reply`), frames in both directions, and a handler on
the coordinator (`srv`). `cut` connections lose everything without either side
knowing. `older` orders the running handlers by their session number. The
rebind is one step under `controlMu`, after the reply has been sent, as in the
code; between the two other handlers run. What an operation does to the
registry is not part of this module.

### SymmetricRendezvous

Sessions of a peer are numbered in the order of their creation. `handler` holds
the goroutine of every pushed event: a request repeated by `request()` yields a
second goroutine for the same session. `handleSymmetricScanEvent` is four steps
(neighbor check, arm, start, ACK), `handleSymmetricBurst` two, and
`cancelObsoleteSymmetricScans` two, because the locks are released in between.
`closed` are the cancel channels that have been closed; a channel is forgotten
when its goroutine has ended. UDP packets are never removed from `udp`: they may
arrive at any time, repeatedly, or not at all. The UDP trigger without a session
identifier, used with coordinators that answer 404, is left out.

### LegacyRendezvous

A registration makes a new entry; a waiter keeps the entry it found. A second
close of a ready channel is the panic it is in Go: it ends the request and
leaves `sessionsMu` locked (`stuck`).

### Registry

A handler is a goroutine that talks to SQLite statement by statement. Only the
statements from the choice of the address to the insert run under `registerMu`
(`Store`); the check of the ban (`RegisterStart`), the reading of the previous
row and of the override (`Lookup`), the issue of a token and the rebalancing
interleave with everything else. A live token of any node vouches for a request
about any other (`Authorized`), as in `anyNodeTokenValid`. `rebalanceRolesFor` reads its selection in one
step and writes the roles one by one (`BalanceWrite`), for a handler, for the
administrator and for the maintenance loop. `lease` counts the time left until
`last_seen` is older than the TTL. A request that is refused without an effect
is no step.

### LinkGraph and LinkCache

`Links` is the composition in `links`: the backbone or the manual links, the
attachment of clients by telemetry and rendezvous hashing, the removal of
blocked pairs, the bridges. Lists of links are sequences, because the roots of
the union-find, and with them the bridges, depend on the order. `Sorted` stands
for every sort: the element at place i is the one with i - 1 before it. In `LinkCache` a
bootstrap reads the rows, makes the key (version and stamp) before the lock,
looks up, and builds from the policy and the metrics as they are then. The
administrator commits first and invalidates later; a report changes the metrics
first and bumps the stamp later. The limit of 64 entries is `CacheLimit`: beyond
it `s.linkCache` is set to nil and then written, which panics; the request or
the push is lost, the mutex is released by its `defer`, and the cache is empty
(`RequestPanics`, `PushPanics`).

### NodeTopology

A version is a fingerprint of what is served, so in the model it is that
content: the graph and the node's own reports, which `decorateLinks` turns into
costs. Pushes are applied in order by one goroutine, polls by another; the
condition of a poll is read before it is sent. Tables are computed from a
snapshot by four goroutines (push, poll, `linkHealth`, a sender whose hop died)
and installed in a second step, so that the older table may be installed last.
`Apply` checks the version and writes the view in one step, although the code takes
two locks: what the other goroutine installs in between is overwritten either way,
or is the version that is being written. The node's own reports change the costs of
links only; that telemetry also decides which relays a client is given is part of
`GraphChanges`, which may change the graph at any time.

### DataPlane and MeshDelivery

A datagram is its type, identifier, source, destination, TTL and format, with
the address it was sent to. The network keeps every frame until
it is handed over, may hand it over again (`MaxFaults`), and a frame that stays
is lost. An address is named after the node that had it when it was learned;
`Reaches` says who receives what is sent there, since a NAT may have given it
to another node. `path` holds what traffic confirms: the time for which `touch`
prefers a LAN address, and the unconfirmed LAN candidates that discovery stores
there (`recovery.go:239`, `topology.go:176`), are left out, and
`DirectPathIsDirect` says nothing of them. Workers take a frame from the queue, look
up the cipher, remember the frame, and relay or deliver it, in separate steps. A
cached key of a peer that has left the directory makes `peerCrypto` dereference nil:
the process ends and `Restart` brings it back with empty tables.

`MeshDelivery` knows packets, hands that hold one, queues per flow and logs. The
refinement maps a worker between `rememberFast` and its next step to a hand, and
the TUN queue of a flow to the packets of that flow in it; sealed frames, keys,
routes, receive queues and keepalives disappear. `Window` is the length of the
ring.

### SelfUpdate

A file is a build, which the system starts, or it is `Broken`. The administrator may
store either kind and link to either: `adminUpdateBinary` takes any body of at least
1024 bytes, and the digest it computes is that of whatever it was given. Both builds
of `swapAndRestart` are here, one step per system call, each of which may fail; a
kill ends the process at any point, a power cut may also lose data that was not
written back (`downloadUpdate` does not sync the file; `torn`). On Windows the
process that runs from `.old` keeps that file from being removed (`aside`), and the
errors of the renames back are ignored as in the code (`MovesBack`). The reports of
the node are best effort; that an update waits for their answer, at most until the
request times out, is left out.

Three history variables are read by the properties only. `trusted` holds while every
file that was ever stored or linked is a build: on Unix a broken one takes the place
of the executable, and nothing puts the old one back. `interrupted` says that the
last Windows swap was killed in its middle or could not rename back, `torn` that a
power cut took data. A program that starts and then does something else than run a
node counts as a build.

## Runs

| Run | Instance | Shows |
|---|---|---|
| `transport` | 2 relays, 3 sockets, bursts of up to 2 (1.0 million states, symmetric) | `OneBurstPerRelay`, `SocketsAccountedFor`, `EveryTransportIsRead`, `TransportsDistinct` |
| `transport_live` | 1 relay, 4 sockets (43 thousand states) | `SilentRelayIsRescanned`, `DarkNodeRecovers` |
| `control` | 2 connections, 2 operations, 2 faults (320 thousand states) | `NoControlSocketLeak`, `OneBinding`, `NewestSessionKeepsBinding`, `PromptRepliesMatch`, `NodeEndsUpBound` |
| `rendezvous` | 1 peer, 2 sessions, the first requested twice, 2 scans at a time, 1 slot (0.7 million states, symmetric) | `BurstsMeetAScan`, `NoOrphanScan`, `RegisteredScanIsOpen` |
| `registry` | 2 nodes, 1 address, 2 handlers, 1 removal, 1 invitation (1.0 million states, symmetric) | `AddressesUnique`, `OwnershipIsKept` |
| `registry_live` | 2 nodes of different owners, 2 addresses, 1 handler, a removal or a change of role (157 thousand states) | `RemovedNodeFades`, `BackboneIsRefilled` |
| `links` | 4 nodes of any kind, 4 policies, one reported pair, a cache of one entry (232 thousand states) | `CacheIsCurrent`, `BlockedStaysOut`, `IslandsAreBridged`, `RelaysReachEveryone` |
| `node_topology` | a relay and a far node, 2 graphs, 1 event (229 thousand states) | `ViewIsWhole`, `NodeCatchesUp`, `TrafficFindsAWay` |
| `dataplane` | 2 nodes and a superpeer, up to 3 packets, rings of 1, queues of 2, 2 workers, 1 fault (322 thousand states) | `DirectPathIsDirect`, `Delivers` (the refinement) |
| `update` | both platforms, 3 builds, 1 broken file, 5 operations of the administrator, 2 crashes (690 thousand states) | `UnixStaysStartable`, `WindowsStaysRunnable`, `InstallsWhatWasAnnounced`, `CommandsAreHeard` |

Why the bounds are enough. Two relays are the smallest case in which a transport
is not the primary and in which a reset can promote another one. Three sockets
let a primary, another transport and a burst exist at the same time, and make
the program run out of sockets, as `ListenUDP` may; for one relay four sockets
never run out. Two connections, reused when they are free, let an old, half-open
one and a fresh one meet at the rebind; two faults allow a timeout on a
connection that is cut afterwards. Two sessions are the smallest case with a
stale one; two scan identities are a cancelled scan that still runs next to its
successor. One slot makes scans queue. One mesh address for two nodes makes every
allocation a conflict or a reclamation; two handlers let two registrations of one
node, or of two, interleave. Four nodes are the fewest with two manual islands,
with a ring that has a chord, and with a superpeer to lose beside a client; every
assignment of kinds to them is an initial state. One event in `node_topology` is a
change of the graph, a lapsed lease, a silent link or a beacon, on top of the
start of the node, whose first poll already races a push. A ring of one place
forgets at once, which is where a second copy can get in; three packets are a
request, an answer and one that displaces an id. Three builds are the running one,
an announced one and one that replaces it during a download; one broken file is
enough, since the code tells files apart by their digest only.

Runs that find a disagreement between the code and its own comments (the
findings in `PROJECT.json` quote the lines):

| Run | What happens |
|---|---|
| `transport_reset` | `resetSymmetricRelay` picks the socket to promote while the dead relay's entry is still in the map, may pick the dead primary itself, and closes it. |
| `legacy_wait` | A peer registers again in a matched session; the second close of a channel panics with `sessionsMu` locked, and no later wait is answered. |

### Other behaviours of the code that the models show

These are behaviours of the specifications, so that the properties above are
stated around them. No run is kept for them.

* A rebind between the generation check of a burst and its install is not seen:
  the socket of the old network is installed (`symmetric.go:467`, comment at 401).
* `refreshEndpointAttempt` closes a punched primary that is still a relay's
  transport and returns because the endpoint is the same; the relay is heard on
  the new socket, so no retry removes the closed transport (`transport.go:36`,
  comment at `dataplane.go:197`).
* On a connection kept after a timeout, a reply that comes after the drain is
  taken for the answer to the next request (`control.go:296`); hence `Prompt` in
  `PromptRepliesMatch`.
* `register` compares the address with the row it has read before `registerMu`.
  When that row has lost the address meanwhile, the conflict check is skipped and
  two nodes have the address (`nodes.go:293`; `takenBack` in `AddressesUnique`).
* The insert into the emptied `linkCache` panics (`broadcasts.go:664`).
* `ensureConnected` bridges components in a chain and skips a blocked pair of
  neighbours in that chain, so that an island may stay alone although another
  component would take it (`broadcasts.go:569`; manual links 1-2 and 3-4 with 1-2
  and 1-3 blocked). `IslandsAreBridged` speaks of graphs without blocks.
* `applyTopology` drops a neighbour whose buffered LAN candidate is unusable
  until the next topology (`topology.go:172`): `continue` skips the rest of the
  loop body, the insert included.
* A directory without a peer whose key is cached makes the next frame of that
  peer end the process (`keepalive.go:327`, comment at `main.go:311`).
* A stored or linked file that does not start is installed all the same. On Unix
  `syscall.Exec` fails, the old process runs on, and the next start of the node
  fails (`selfupdate_unix.go:28`, `update.go:180`; `trusted`). On Windows the swap
  rolls back, unless it is killed before `StartProcess` or a rename back is refused.
* After a power cut the name of the executable may point to incomplete data
  (`selfupdate_unix.go:24`; `torn`).

### Fairness

`transport_live` assumes what the code's loops give: every phase of a burst has
a timeout and `linkHealth` runs for ever (weak fairness of `Burst(t)` and
`Edge(r)`); the backoff elapses; a link times out when nothing of the relay can
arrive; a pass proceeds and its rounds are bounded by `symmetricBurstRetries`
(strong fairness of `PassDone`, since the model does not count rounds); the
keepalive loop calls `recoverNetwork` again and again and `recoveryMu` is free
from time to time (strong fairness of `RecoverNetwork`); `ListenUDP` does not
fail for ever (strong fairness of `RebindUDPConn`). Nothing is assumed of the
network: no packet need arrive.

`control` assumes that goroutines run, that a request that cannot be
answered ends by its timeout, that the heartbeat registers for ever (strong
fairness: a register call competes with others for `controlCall`, and a Go mutex
starves nobody), and that `monitorControl` drops a silent connection. A read on a path
that is cut may block for ever. Faults are bounded by `MaxFaults`, so that
`NodeEndsUpBound` speaks of the time after the last one; the safety properties of
the run do not depend on fairness.

`registry_live` assumes that handlers run to their end, that the maintenance loop
wakes up again and again and that time passes; nodes need not register and the
administrator need not act. `BackboneIsRefilled` speaks of a mesh whose set of
candidates has become stable: a lease lasts many times longer than a rebalance,
but the model gives no lengths to steps, so that a flapping node could always
expire between the read and the write of its role.

`node_topology` assumes that the node polls and reports again and again, that the
coordinator answers and pushes what it owes, that goroutines that compute routes
install them, and that the node keeps sending to a destination. Links need not
come back, and `linkHealth` is not relied on.

`update` assumes that the goroutine of an update goes on, that the control channel
delivers an event, and that autostart starts what can be started.

`legacy_wait` assumes that handlers run, that a mutex is handed out fairly and
that every select has its timeout.

## Proofs

The safety properties are theorems, for every number of relays, sockets,
connections, operations, faults, peers, sessions, scans, slots, nodes, handlers,
addresses, builds, broken files and crashes. The constants need only be distinct and of the
right type (`ConstantsDistinct`, `ControlConstants`, `RendezvousConstants`,
`RegistryConstants`, `LinkGraphConstants`, `LinkCacheConstants`,
`NodeTopologyConstants`, `DataPlaneConstants`,
`SelfUpdateConstants`; TLC evaluates them on every run). Each proof has
an inductive invariant `IInv`, lemmas for the conjuncts that a step may disturb,
with one case per action, and theorems that combine them.

* `SymmetricTransportProofs`. The properties are not inductive on their own: the
  next step of a goroutine acts on what it read earlier. `ThreadOK` says where
  each kind of thread can be and when its locals are set; `BurstOwned` that
  `inFlight` names the thread that is past the join; `LocalsReset` that a socket
  is held or probed only where the code has the local; `PrimaryReadOrClosed` that
  a reset which read the primary before it took `symmetricConnMu` still holds the
  primary or a socket that has been closed since (so closing "every transport but
  the primary" never closes the new primary unnoticed); `PrivateSockets` that the
  sockets a burst has not published belong to that burst alone. `SingleFlight`,
  `NoSocketLeak`, `NeverDeaf` and `OwnTransport` follow.
* `ControlChannelProofs`. `CallOK`: nothing dials while a call waits.
  `SessionsOrdered`: any two running handlers are ordered, and what is bound has
  a running handler; then the rebind leaves one binding (`ExclusiveBinding`),
  which moves only to a later connection (`BindingMovesForward`). `OneInTransit`:
  unless a connection was kept after a timeout, at most one frame is on it (to the
  coordinator, back, or in the reply channel), the one of the call that waits;
  this gives `PromptReplies`.
* `SymmetricRendezvousProofs`. `ScanOwned` ties the registered scan to its peer,
  which makes `NoOrphanScan` and `RegisteredScanIsOpen` inductive;
  `AckFollowsScan` carries the barrier from the handler over the pushed ACK to
  the peer.

* `RegistryProofs`. `IInv` is `TypeOK`, `TargetOK` (what the administrator works
  on at each stage) and `AddressesUnique`, which is inductive with them. Everything
  but the section under `registerMu` changes rows `InPlace`: it deletes them or
  leaves address and owner alone. A registration that looked for its address finds
  no holder or reclaims one; had there been two, the address was already in
  `takenBack`. One that did not look either still has the address in its row or
  adds it to `takenBack`. `OwnersKept` follows from the same two cases.
* `LinkCacheProofs`. The cache first, where `Links` is never expanded, so that the
  result does not depend on what is cached. `StampsPast`: no key has a stamp that is
  still to come, so the entries of an old report fall out when the stamp moves.
  `BuildsLocked` and `FirstReads`: what a builder read first is still the policy, or
  an invalidation is due, and that one waits for the builder. `ReportKeepsReadings`
  and `AgeKeepsReadings`: a report that only repeats the last one, or grows old,
  leaves every reading possible.

  Then what `Links` is, for any set of nodes, any policy and any reports.
  `SortedLists`: a sort by a strict total order lists every element once
  (`ThreeKeys`, `BridgeOrder` and the lexical order are such). `FoldExists`: a fold is the last of
  a sequence of accumulators, so that `CountUp` carries a fact through the loops of
  `backboneLinks`, `addAutomaticClientLinks`, `removeBlockedEdges` and the
  union-find. `LinksAllowed`: every link is between two different online nodes and
  not blocked, whichever of the four stages added it. `SameRoot`: no set of nodes
  that the links do not lead out of separates two nodes with one root; the bridges
  join roots that are next to each other, so such a set is empty or everything
  (`EnsureJoins`), and `ReachIsClosed` shows that as many rounds as there are nodes
  make `Reach` such a set. `LinksHave`: with no manual link and no block, the ring
  and the links every client wants survive to the end; `RingWithout`: a ring
  without one place is a row, which leaves the superpeers joined, and
  `NeighbourLeft` leaves every client one of them.

  Last, `BuiltInv` ties the two: every entry is `Links` of its key, of some policy
  and of some reports; a mixture of two policies is possible between a commit and
  the invalidation, which is why the properties are stated for `~flushing`, and
  `PolicyOfNow` says that then it is the policy of now.
* `NodeTopologyProofs`. `OnTheWay`: every push is the full topology of a version,
  and an answer is that or has no body; `applyTopology` then never mixes two.
  `KeptInv` adds what `TypeOK` needs: links between known nodes, neighbours that are
  neighbours by the links of now, tables that only lead over peers, and that every
  push on the way or owed stands for an event of its own.
* `DataPlaneProofs`. `FirstHop`: a control packet that its receiver reads with the
  full TTL comes from the node that made it. A relay lowers the TTL, and
  `encodePacketForPeer` then refuses the format that cannot carry it. `HeldInv`:
  frames, queues and workers hold only packets that were sealed (`NetOK`,
  `QueuesOK`, `WorkersOK`, `DeliverOK`), a ring and its set hold the same ids, each
  once (`RingsOK`), and `LogOK` gives an id in the ring its age: one that was
  displaced has had `RingCap` ids of its shard, and so at least as many of the
  process, taken in after it. That is `Fresh` of `MeshDelivery`, and the step that
  takes a packet in is a step of the abstract specification. `OnlyFlow` commutes
  with appending to and taking from a TUN queue, which gives the other steps;
  everything else stutters (`DataPlaneDelivers`).
* `SelfUpdateProofs`. `TmpOK` ties the stage of the update to what the temporary
  file holds (it has passed the checks before the swap), `SourceOK` the source to
  the announced digest, and `ImageOK` says where the image of a running Windows
  process is. `TrustOK` says that while only builds were stored and linked nothing
  else is downloaded; that is all `UnixStaysStartable` needs. `WindowsStaysRunnable`
  rests on `ImageOK`: a swap moves aside the build that runs, and moves it back. Both
  hold for any set of broken files.

Every invariant, every action property and the refinement that a passing run checks
is a theorem. Only model-checked are the properties under fairness, which the prover
does not support: `SilentRelayIsRescanned`, `DarkNodeRecovers`, `NodeEndsUpBound`,
`RemovedNodeFades`, `BackboneIsRefilled`, `NodeCatchesUp`, `TrafficFindsAWay`,
`CommandsAreHeard`. No theorem goes by induction over a recursive operator: loops of
the code are folds, whose accumulators are followed from one element to the next
with `CountUp`, a consequence of the well-foundedness of the natural numbers.

## Plan

All modules of the plan are written, and all their safety properties are proved.
What is left:

1. Safety facts on which the fairness arguments rest and that no run states yet,
   such as what a node behind a dead relay still holds while it recovers.
2. The parts listed under "Not modelled" that keep state of their own, should they
   gain interleavings.

## Not modelled

Byte formats and cryptography, the nonce counter, logging, SQLite itself, the
operating system's TUN, firewall and resolver calls, the admin interface and the
command-line tools. Reassembly: nodes of this version send one fragment per packet
(`tun_forward.go:663`), so the table serves older nodes only. Port forwards, TCP
tunnels and service calls relay byte streams between connections of the operating
system; their maps change under one lock. Password logins, sessions and the attempt
limiter are request by request, without the interleavings the other parts have.
Advertised routes are validated and translated address prefixes. The floating-point
averages of the telemetry are not modelled; the states they lead to are.
