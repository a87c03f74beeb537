------------------------------ MODULE DataPlane ------------------------------
(***************************************************************************)
(* The packets that nodes exchange over UDP.  IP packets travel as sealed  *)
(* fast frames: queued by the receiving socket, taken by a worker, relayed *)
(* by a superpeer or opened, checked for duplicates and queued for the TUN *)
(* device by the destination.  HELLO and PING frames and their answers     *)
(* confirm the address under which a neighbour is reached.                 *)
(*                                                                         *)
(* The network loses, delays, reorders and duplicates: a frame that stays  *)
(* in net is lost.  An address is named after the node that had it when it *)
(* was learned; another node may have it by now (Reaches).  Which hops a   *)
(* node knows for a destination, and which of them are usable, is the      *)
(* subject of NodeTopology; here any of Hops may be used, or none.         *)
(***************************************************************************)
EXTENDS Naturals, Sequences, FiniteSets, SequencesExt

CONSTANTS
    Nodes,
    Relays,         \* the superpeers
    Neighbors,      \* [Nodes -> SUBSET Nodes]
    Hops,           \* [Nodes -> [Nodes -> SUBSET Nodes]]
    Reaches,        \* [Nodes -> SUBSET Nodes]: who receives what is sent to an address
    Traffic,        \* the IP packets hosts send: set of [src, dst, flow]
    Probes,         \* the keepalives nodes send: set of [type, src, dst]
    Leavers,        \* the pairs <<n, p>> for which p may leave the directory of n
    Flows,
    Workers,        \* [Nodes -> set]: the fast workers of every node
    Queues,         \* the TUN queues of every node
    QueueOf,        \* [Flows -> Queues]
    Nothing,
    DefaultTTL,
    Shards,         \* fastSeenShards
    RingCap,        \* fastSeenRingCap
    SeenCap,        \* ids that remember keeps
    QueueCap,       \* the length of every queue
    Budgets,        \* how many packets a behaviour creates: set of [sealed, control]
    MaxFaults       \* duplicated datagrams, removed peers and restarts

ASSUME DataPlaneConstants ==
    /\ Relays \subseteq Nodes
    /\ Neighbors \in [Nodes -> SUBSET Nodes]
    /\ \A n, d \in Nodes : Hops[n][d] \subseteq Neighbors[n]
    /\ Reaches \in [Nodes -> SUBSET Nodes]
    /\ Traffic \subseteq [src : Nodes, dst : Nodes, flow : Flows]
    /\ \A k \in Probes : k.type \in {"HELLO", "PING"} /\ k.dst \in Neighbors[k.src]
    /\ Leavers \subseteq Nodes \X Nodes
    /\ QueueOf \in [Flows -> Queues]
    /\ DefaultTTL \in Nat \ {0} /\ Shards \in Nat \ {0} /\ RingCap \in Nat \ {0}
    /\ SeenCap \in Nat \ {0} /\ QueueCap \in Nat \ {0}
    /\ Budgets \subseteq [sealed : Nat, control : Nat] /\ MaxFaults \in Nat
    /\ Nothing \notin [id : Nat, src : Nodes, dst : Nodes, flow : Flows]

VARIABLES
    net,        \* datagrams on their way
    next,       \* the id of the next packet
    faults,
    budget,     \* the one of Budgets this behaviour keeps to
    path,       \* peer.last, as traffic confirms it: where a neighbour was last heard
    compact,    \* the neighbours known to read the compact format
    seen,       \* ids of control packets
    ring,       \* fastSeenRing, the ids every shard holds in order of their slots
    slot,       \* fastSeenNext
    fastSeen,   \* ids of fast frames, by shard
    dir,        \* the peers of the directory
    keys,       \* sharedKeys
    snap,       \* fastPeerSnap: the peer whose cipher is at hand
    fastQueue, worker, udpSendQueue, deliverQueues,
    sent, log, tun      \* histories: packets sealed, ids taken in, packets written

control == <<path, compact, seen>>
dedup == <<ring, slot, fastSeen>>
crypto == <<dir, keys, snap>>
queues == <<fastQueue, worker, udpSendQueue, deliverQueues>>
vars == <<net, next, faults, budget, control, dedup, crypto, queues, sent, log, tun>>

-----------------------------------------------------------------------------
(* Datagrams. *)

Keepalive == {"HELLO", "HELLO_ACK", "PING", "PONG"}

\* A control packet on the wire: the compact format has no field for the TTL.
Encoded(p, isCompact, from, to) ==
    [type |-> p.type, id |-> p.id, src |-> p.src, dst |-> p.dst,
     ttl |-> IF isCompact THEN 0 ELSE p.ttl, compact |-> isCompact, from |-> from, to |-> to]

\* What the receiver reads: the decoder of the compact format sets the TTL.
Decoded(f) ==
    [type |-> f.type, id |-> f.id, src |-> f.src, dst |-> f.dst,
     ttl |-> IF f.compact THEN DefaultTTL ELSE f.ttl]

NewPacket(type, src, dst) ==
    [type |-> type, id |-> next, src |-> src, dst |-> dst, ttl |-> DefaultTTL]

MayCreate == next - 1 - Cardinality(sent) < budget.control

\* Mutant: the compact format is chosen for any TTL.
EncodePacketForPeerAnyTTL(n, p) ==
    {FALSE} \cup {c \in {TRUE} : p.type \in {"HELLO", "HELLO_ACK"} /\ p.dst \in compact[n]}

\* The formats encodePacketForPeer may choose.  What is known of a peer's
\* format expires, so JSON is always possible.
EncodePacketForPeer(n, p) ==
    {FALSE} \cup {c \in {TRUE} : /\ p.ttl = DefaultTTL
                                 /\ p.type \in {"HELLO", "HELLO_ACK"}
                                 /\ p.dst \in compact[n]}

\* sendToAddress: a datagram to an address reaches whoever has it now.
ToAddress(n, p, formats, address) ==
    {Encoded(p, c, n, to) : c \in formats, to \in Reaches[address]}

\* send: a datagram through a hop towards the destination; a hop without a
\* confirmed address is not usable.
Routed(n, p) ==
    UNION {ToAddress(n, p, EncodePacketForPeer(n, p), path[n][h]) :
               h \in {h \in Hops[n][p.dst] : path[n][h] # Nothing}}

\* The network hands a datagram over once, or keeps a copy; out is what the
\* receiver sends in return.
Handed(f, out) ==
    \/ net' = (net \ {f}) \cup out /\ faults' = faults
    \/ faults < MaxFaults /\ net' = net \cup out /\ faults' = faults + 1

-----------------------------------------------------------------------------
(* HELLO and PING. *)

\* helloAll and sendHello: one packet to the observed and to the declared address.
Hello(n, p) ==
    LET packet == NewPacket("HELLO", n, p) IN
    /\ [type |-> "HELLO", src |-> n, dst |-> p] \in Probes
    /\ MayCreate
    /\ \E c \in EncodePacketForPeer(n, packet) :
       \E out \in SUBSET UNION {ToAddress(n, packet, {c}, x) : x \in {p, path[n][p]} \ {Nothing}} :
         out # {} /\ net' = net \cup out
    /\ next' = next + 1
    /\ UNCHANGED <<budget, faults, control, dedup, crypto, queues, sent, log, tun>>

\* pingAll: always in the compact format, to the observed address if there is one.
Ping(n, p) ==
    LET packet == NewPacket("PING", n, p)
        address == IF path[n][p] = Nothing THEN p ELSE path[n][p]
    IN
    /\ [type |-> "PING", src |-> n, dst |-> p] \in Probes
    /\ MayCreate
    /\ \E f \in ToAddress(n, packet, {TRUE}, address) : net' = net \cup {f}
    /\ next' = next + 1
    /\ UNCHANGED <<budget, faults, control, dedup, crypto, queues, sent, log, tun>>

\* remember: above the cap an arbitrary id is forgotten, the new one included.
Remember(n, id) ==
    LET all == seen[n] \cup {id} IN
    IF Cardinality(all) > SeenCap
    THEN \E gone \in all : seen' = [seen EXCEPT ![n] = all \ {gone}]
    ELSE seen' = [seen EXCEPT ![n] = all]

ConfirmsDirectPath(p) == p.ttl = DefaultTTL /\ p.type \in Keepalive

\* touch and markCompactHello, for a packet that came from the given address.  Left
\* out: touch stays with a LAN address for a while although the peer is heard on
\* another one, and LAN discovery stores a candidate that nothing has confirmed.
Learn(n, p, f) ==
    LET known == p.src \in Neighbors[n] IN
    /\ compact' = IF f.compact /\ known THEN [compact EXCEPT ![n] = @ \cup {p.src}] ELSE compact
    /\ path' = IF p.dst = n /\ ConfirmsDirectPath(p) /\ known
               THEN [path EXCEPT ![n][p.src] = f.from] ELSE path

\* What handleDatagram sends in return: a set of alternatives, {} when it sends
\* nothing.  A HELLO is answered along the routes, a PING to the address it
\* came from and in its format.
Answers(n, p, f) ==
    IF p.dst # n
    THEN IF n \in Relays /\ p.ttl > 1 THEN Routed(n, [p EXCEPT !.ttl = @ - 1]) ELSE {}
    ELSE CASE p.type = "HELLO" -> Routed(n, NewPacket("HELLO_ACK", n, p.src))
           [] p.type = "PING" -> ToAddress(n, NewPacket("PONG", n, p.src), {f.compact}, f.from)
           [] OTHER -> {}

HandleDatagram(n, f) ==
    LET p == Decoded(f)
        answers == Answers(n, p, f)
        creates == p.dst = n /\ answers # {}
    IN
    /\ f.to = n /\ f.type \in Keepalive
    /\ \/ /\ p.id \in seen[n]
          /\ Handed(f, {})
          /\ UNCHANGED <<next, control>>
       \/ /\ p.id \notin seen[n]
          /\ Remember(n, p.id)
          /\ Learn(n, p, f)
          /\ IF answers = {} THEN Handed(f, {}) ELSE \E out \in answers : Handed(f, {out})
          /\ creates => MayCreate
          /\ next' = IF creates THEN next + 1 ELSE next
    /\ UNCHANGED <<budget, dedup, crypto, queues, sent, log, tun>>

-----------------------------------------------------------------------------
(* Fast frames. *)

\* enqueueUDP: the frame waits for the sender under the address chosen now.
\* Only local traffic waits for room.
HasRoom(q) == Len(q) < QueueCap

Enqueued(q, x) == IF HasRoom(q) THEN Append(q, x) ELSE q

Packet(f) == [id |-> f.id, src |-> f.src, dst |-> f.dst, flow |-> f.flow]

\* tunLoop and sendIP: the packet is sealed and queued for a hop, or dropped
\* when no hop is usable.
SendIP(n, t) ==
    LET p == [id |-> next, src |-> n, dst |-> t.dst, flow |-> t.flow] IN
    /\ t.src = n
    /\ Cardinality(sent) < budget.sealed
    /\ t.dst \in dir[n]
    /\ HasRoom(udpSendQueue[n])
    /\ keys' = [keys EXCEPT ![n] = @ \cup {t.dst}]
    /\ next' = next + 1
    /\ sent' = sent \cup {p}
    /\ \/ udpSendQueue' = udpSendQueue
       \/ \E h \in Hops[n][t.dst] :
            /\ path[n][h] # Nothing
            /\ udpSendQueue' = [udpSendQueue EXCEPT ![n] =
                                   Append(@, [packet |-> p, ttl |-> DefaultTTL, address |-> path[n][h]])]
    /\ UNCHANGED <<budget, net, faults, control, dedup, dir, snap, fastQueue, worker, deliverQueues, log, tun>>

\* startUDPSender: the oldest frame leaves.
UDPSend(n) ==
    /\ udpSendQueue[n] # <<>>
    /\ LET f == Head(udpSendQueue[n]) IN
       \E to \in Reaches[f.address] :
         net' = net \cup {[type |-> "FAST", id |-> f.packet.id, src |-> f.packet.src,
                           dst |-> f.packet.dst, flow |-> f.packet.flow, ttl |-> f.ttl, to |-> to]}
    /\ udpSendQueue' = [udpSendQueue EXCEPT ![n] = Tail(@)]
    /\ UNCHANGED <<budget, next, faults, control, dedup, crypto, fastQueue, worker, deliverQueues, sent, log, tun>>

\* enqueueFast: a full queue drops the frame.
EnqueueFast(n, f) ==
    /\ f.to = n /\ f.type = "FAST"
    /\ Handed(f, {})
    /\ fastQueue' = [fastQueue EXCEPT ![n] = Enqueued(@, f)]
    /\ UNCHANGED <<budget, next, control, dedup, crypto, worker, udpSendQueue, deliverQueues, sent, log, tun>>

Idle == [stage |-> "idle"]

\* A worker takes the oldest frame.
TakeFast(n, w) ==
    /\ worker[n][w] = Idle
    /\ fastQueue[n] # <<>>
    /\ worker' = [worker EXCEPT ![n][w] = [stage |-> "taken", frame |-> Head(fastQueue[n])]]
    /\ fastQueue' = [fastQueue EXCEPT ![n] = Tail(@)]
    /\ UNCHANGED <<budget, net, next, faults, control, dedup, crypto, udpSendQueue, deliverQueues, sent, log, tun>>

-----------------------------------------------------------------------------
(* Duplicate suppression. *)

FastShard(id) == id % Shards

\* Mutant: a recycled slot leaves the old id in the set.
RememberFastKeeps(n, id) ==
    LET s == FastShard(id)
        full == Len(ring[n][s]) >= RingCap
        at == slot[n][s]
    IN
    /\ ring' = [ring EXCEPT ![n][s] = IF full THEN [@ EXCEPT ![at + 1] = id] ELSE Append(@, id)]
    /\ slot' = IF full THEN [slot EXCEPT ![n][s] = (at + 1) % RingCap] ELSE slot
    /\ fastSeen' = [fastSeen EXCEPT ![n][s] = @ \cup {id}]

\* rememberFast for an id that its shard does not hold: once the ring is full
\* the oldest id makes room.
RememberFast(n, id) ==
    LET s == FastShard(id)
        full == Len(ring[n][s]) >= RingCap
        at == slot[n][s]
    IN
    /\ ring' = [ring EXCEPT ![n][s] = IF full THEN [@ EXCEPT ![at + 1] = id] ELSE Append(@, id)]
    /\ slot' = IF full THEN [slot EXCEPT ![n][s] = (at + 1) % RingCap] ELSE slot
    /\ fastSeen' = [fastSeen EXCEPT ![n][s] = IF full THEN (@ \ {ring[n][s][at + 1]}) \cup {id} ELSE @ \cup {id}]

Duplicate(n, id) == id \in fastSeen[n][FastShard(id)]

-----------------------------------------------------------------------------
(* Ciphers, and the workers that need them. *)

\* What a new process of node n starts with; the directory comes again with
\* the first topology, and neighbours and their addresses with it.
NewProcess(n) ==
    /\ seen' = [seen EXCEPT ![n] = {}]
    /\ compact' = [compact EXCEPT ![n] = {}]
    /\ path' = [path EXCEPT ![n] = [p \in Nodes |-> Nothing]]
    /\ ring' = [ring EXCEPT ![n] = [s \in 0 .. Shards - 1 |-> <<>>]]
    /\ slot' = [slot EXCEPT ![n] = [s \in 0 .. Shards - 1 |-> 0]]
    /\ fastSeen' = [fastSeen EXCEPT ![n] = [s \in 0 .. Shards - 1 |-> {}]]
    /\ keys' = [keys EXCEPT ![n] = {}]
    /\ snap' = [snap EXCEPT ![n] = Nothing]
    /\ fastQueue' = [fastQueue EXCEPT ![n] = <<>>]
    /\ worker' = [worker EXCEPT ![n] = [w \in Workers[n] |-> Idle]]
    /\ udpSendQueue' = [udpSendQueue EXCEPT ![n] = <<>>]
    /\ deliverQueues' = [deliverQueues EXCEPT ![n] = [q \in Queues |-> <<>>]]
    /\ log' = [log EXCEPT ![n] = <<>>]
    /\ UNCHANGED <<budget, net, next, dir, sent, tun>>

\* The process of a node is stopped and started again.
Restart(n) ==
    /\ faults < MaxFaults
    /\ faults' = faults + 1
    /\ NewProcess(n)

\* A topology without peer p replaces the directory; its key stays cached.
DirectoryDrops(n, p) ==
    /\ faults < MaxFaults
    /\ p \in dir[n]
    /\ dir' = [dir EXCEPT ![n] = @ \ {p}]
    /\ faults' = faults + 1
    /\ UNCHANGED <<budget, net, next, control, dedup, keys, snap, queues, sent, log, tun>>

\* fastPeerAEAD and peerCrypto, when the source has a cipher: the snapshot
\* answers for the last source, even one that has left the directory.
HasCipher(n, p) == snap[n] = p \/ p \in dir[n]

\* peerCrypto reads the public key of a directory entry that is gone: the
\* panic of a worker ends the process.
PeerCryptoPanics(n, p) == snap[n] # p /\ p \notin dir[n] /\ p \in keys[n]

Cipher(n, p) ==
    /\ keys' = IF snap[n] = p THEN keys ELSE [keys EXCEPT ![n] = @ \cup {p}]
    /\ snap' = [snap EXCEPT ![n] = p]
    /\ dir' = dir

\* fast, up to duplicate suppression.  A relay only looks at the header; the
\* destination opens the frame before it remembers the id.
HandleFast(n, w) ==
    LET f == worker[n][w].frame
        mine == f.dst = n
        goesOn == /\ ~Duplicate(n, f.id)
                  /\ IF mine THEN HasCipher(n, f.src) ELSE n \in Relays /\ f.ttl > 1
    IN
    /\ worker[n][w].stage = "taken"
    /\ ~(mine /\ PeerCryptoPanics(n, f.src))
    /\ IF goesOn
       THEN /\ RememberFast(n, f.id)
            /\ log' = [log EXCEPT ![n] = Append(@, f.id)]
            /\ worker' = [worker EXCEPT ![n][w].stage = "remembered"]
       ELSE /\ UNCHANGED <<dedup, log>>
            /\ worker' = [worker EXCEPT ![n][w] = Idle]
    /\ IF mine /\ HasCipher(n, f.src) THEN Cipher(n, f.src) ELSE UNCHANGED crypto
    /\ UNCHANGED <<budget, net, next, faults, control, fastQueue, udpSendQueue, deliverQueues, sent, tun>>

FastPanics(n, w) ==
    /\ worker[n][w].stage = "taken"
    /\ worker[n][w].frame.dst = n
    /\ PeerCryptoPanics(n, worker[n][w].frame.src)
    /\ faults' = faults
    /\ NewProcess(n)

\* The relay sends the frame on if a hop is usable and the queue has room.
RelayFast(n, w) ==
    LET f == worker[n][w].frame IN
    /\ worker[n][w].stage = "remembered" /\ f.dst # n
    /\ \/ udpSendQueue' = udpSendQueue
       \/ \E h \in Hops[n][f.dst] :
            /\ path[n][h] # Nothing
            /\ udpSendQueue' = [udpSendQueue EXCEPT ![n] =
                 Enqueued(@, [packet |-> Packet(f), ttl |-> f.ttl - 1, address |-> path[n][h]])]
    /\ worker' = [worker EXCEPT ![n][w] = Idle]
    /\ UNCHANGED <<budget, net, next, faults, control, dedup, crypto, fastQueue, deliverQueues, sent, log, tun>>

\* Mutant: every flow is spread over the queues as they come.
EnqueueDeliverAnyQueue(n, w) ==
    LET f == worker[n][w].frame IN
    /\ worker[n][w].stage = "remembered" /\ f.dst = n
    /\ \E q \in Queues : deliverQueues' = [deliverQueues EXCEPT ![n][q] = Enqueued(@, Packet(f))]
    /\ worker' = [worker EXCEPT ![n][w] = Idle]
    /\ UNCHANGED <<budget, net, next, faults, control, dedup, crypto, fastQueue, udpSendQueue, sent, log, tun>>

\* enqueueDeliver: a flow stays on one queue; a full queue drops the packet.
EnqueueDeliver(n, w) ==
    LET f == worker[n][w].frame IN
    /\ worker[n][w].stage = "remembered" /\ f.dst = n
    /\ deliverQueues' = [deliverQueues EXCEPT ![n][QueueOf[f.flow]] = Enqueued(@, Packet(f))]
    /\ worker' = [worker EXCEPT ![n][w] = Idle]
    /\ UNCHANGED <<budget, net, next, faults, control, dedup, crypto, fastQueue, udpSendQueue, sent, log, tun>>

\* deliver: the packet is written, or refused for its addresses, by the
\* firewall or by the device.  A source that has left the directory owns no
\* address.
Deliver(n, q) ==
    /\ deliverQueues[n][q] # <<>>
    /\ LET p == Head(deliverQueues[n][q]) IN
       \/ tun' = tun
       \/ p.src \in dir[n] /\ tun' = [tun EXCEPT ![n] = Append(@, p)]
    /\ deliverQueues' = [deliverQueues EXCEPT ![n][q] = Tail(@)]
    /\ UNCHANGED <<budget, net, next, faults, control, dedup, crypto, fastQueue, worker, udpSendQueue, sent, log>>

-----------------------------------------------------------------------------
Init ==
    /\ net = {} /\ next = 1 /\ faults = 0 /\ budget \in Budgets
    /\ path = [n \in Nodes |-> [p \in Nodes |-> IF p \in Neighbors[n] THEN p ELSE Nothing]]
    /\ compact = [n \in Nodes |-> {}]
    /\ seen = [n \in Nodes |-> {}]
    /\ ring = [n \in Nodes |-> [s \in 0 .. Shards - 1 |-> <<>>]]
    /\ slot = [n \in Nodes |-> [s \in 0 .. Shards - 1 |-> 0]]
    /\ fastSeen = [n \in Nodes |-> [s \in 0 .. Shards - 1 |-> {}]]
    /\ dir = [n \in Nodes |-> Nodes]
    /\ keys = [n \in Nodes |-> {}]
    /\ snap = [n \in Nodes |-> Nothing]
    /\ fastQueue = [n \in Nodes |-> <<>>]
    /\ worker = [n \in Nodes |-> [w \in Workers[n] |-> Idle]]
    /\ udpSendQueue = [n \in Nodes |-> <<>>]
    /\ deliverQueues = [n \in Nodes |-> [q \in Queues |-> <<>>]]
    /\ sent = {} /\ log = [n \in Nodes |-> <<>>] /\ tun = [n \in Nodes |-> <<>>]

Next ==
    \E n \in Nodes :
      \/ \E p \in Nodes : Hello(n, p) \/ Ping(n, p)
      \/ \E f \in net : HandleDatagram(n, f) \/ EnqueueFast(n, f)
      \/ \E t \in Traffic : SendIP(n, t)
      \/ UDPSend(n)
      \/ \E w \in Workers[n] : \/ TakeFast(n, w) \/ HandleFast(n, w) \/ FastPanics(n, w)
                            \/ RelayFast(n, w) \/ EnqueueDeliver(n, w)
      \/ \E q \in Queues : Deliver(n, q)
      \/ Restart(n)
      \/ \E p \in {p \in Nodes : <<n, p>> \in Leavers} : DirectoryDrops(n, p)

Spec == Init /\ [][Next]_vars

-----------------------------------------------------------------------------
(* Properties. *)

Ids == 1 .. next - 1
Addresses == Nodes \cup {Nothing}

\* Every table, queue and worker holds what the code can put there: the ring
\* and the set of a shard agree, and no queue is longer than its channel.
TypeOK ==
    /\ next \in 1 .. budget.sealed + budget.control + 1 /\ faults \in 0 .. MaxFaults
    /\ \A f \in net : f.id \in Ids /\ f.to \in Nodes /\ f.ttl \in 0 .. DefaultTTL
    /\ path \in [Nodes -> [Nodes -> Addresses]]
    /\ compact \in [Nodes -> SUBSET Nodes] /\ dir \in [Nodes -> SUBSET Nodes]
    /\ keys \in [Nodes -> SUBSET Nodes] /\ snap \in [Nodes -> Addresses]
    /\ \A n \in Nodes :
         /\ seen[n] \subseteq Ids /\ Cardinality(seen[n]) <= SeenCap
         /\ \A s \in 0 .. Shards - 1 : /\ Len(ring[n][s]) <= RingCap
                                       /\ slot[n][s] < RingCap
                                       /\ fastSeen[n][s] = Range(ring[n][s])
         /\ Len(fastQueue[n]) <= QueueCap /\ Len(udpSendQueue[n]) <= QueueCap
         /\ \A q \in Queues : Len(deliverQueues[n][q]) <= QueueCap
         /\ \A w \in Workers[n] : worker[n][w] = Idle \/ worker[n][w].frame.to = n

\* The address a node uses for a neighbour is one the neighbour itself sent
\* from: a packet that came through a relay, in either format, never redirects
\* the neighbour's traffic to that relay (confirmsDirectPath trusts the TTL,
\* which the compact format does not carry).
DirectPathIsDirect ==
    \A n, p \in Nodes : path[n][p] \in {p, Nothing}

AllWorkers == UNION {Workers[n] : n \in Nodes}

\* The packets that workers have taken in and not yet passed on.
held ==
    [n \in Nodes |-> [w \in AllWorkers |->
        IF w \in Workers[n] /\ worker[n][w].stage = "remembered"
        THEN Packet(worker[n][w].frame) ELSE Nothing]]

\* The packets of a flow in a queue that it shares with others.
OnlyFlow(q, f) ==
    LET upTo[i \in 0 .. Len(q)] ==
          IF i = 0 THEN <<>>
          ELSE IF q[i].flow = f THEN Append(upTo[i - 1], q[i]) ELSE upTo[i - 1]
    IN upTo[Len(q)]

queue == [n \in Nodes |-> [f \in Flows |-> OnlyFlow(deliverQueues[n][QueueOf[f]], f)]]

Delivery == INSTANCE MeshDelivery WITH Hands <- AllWorkers, Window <- RingCap

\* The fast data plane implements MeshDelivery: whatever is duplicated, loops
\* between relays, overflows a queue or is lost with a process, a node takes in
\* and writes only what was sent to it, a packet again only after RingCap
\* others, and every flow in the order in which it was queued.
Delivers == Delivery!Spec
=============================================================================
