-------------------------- MODULE DataPlaneProofs --------------------------
(***************************************************************************)
(* Three results about the packets of the mesh, for any mesh, any routes,  *)
(* any traffic and any number of lost, delayed, doubled or misdelivered    *)
(* datagrams: the address a node uses for a neighbour is the neighbour's   *)
(* own; every queue, ring and table keeps to its bounds; and the fast data *)
(* plane implements MeshDelivery.                                          *)
(***************************************************************************)
EXTENDS DataPlane, FiniteSetTheorems, WellFoundedInduction, TLAPS

\* What is known of a neighbour.
PathsOK == path \in [Nodes -> [Nodes -> Nodes \cup {Nothing}]]

\* A control packet on its way that its receiver will read with the full TTL
\* is on its first hop: it comes from the node that made it.
FirstHop ==
    \A f \in net : f.type \in Keepalive =>
        /\ f.from \in Nodes /\ f.ttl \in 0 .. DefaultTTL /\ f.compact \in BOOLEAN
        /\ f.compact \/ f.ttl = DefaultTTL => f.from = f.src

IInv == PathsOK /\ FirstHop /\ DirectPathIsDirect

\* A datagram that keeps FirstHop.
Honest(f) ==
    f.type \in Keepalive =>
        /\ f.from \in Nodes /\ f.ttl \in 0 .. DefaultTTL /\ f.compact \in BOOLEAN
        /\ f.compact \/ f.ttl = DefaultTTL => f.from = f.src

\* What a node sends in its own name is honest, in any format.
LEMMA OwnPacketsHonest ==
    ASSUME NEW n \in Nodes, NEW type, NEW dst, NEW formats \in SUBSET BOOLEAN, NEW address,
           NEW f \in ToAddress(n, NewPacket(type, n, dst), formats, address)
    PROVE  Honest(f)
  <1>1. PICK c \in BOOLEAN, to \in Reaches[address] : f = Encoded(NewPacket(type, n, dst), c, n, to)
    BY DEF ToAddress
  <1>2. f.from = n /\ f.src = n /\ f.compact = c
        /\ f.ttl = IF c THEN 0 ELSE DefaultTTL
    BY <1>1 DEF Encoded, NewPacket
  <1> QED
    BY <1>2, DataPlaneConstants DEF Honest

\* What encodePacketForPeer chooses from.
LEMMA Formats == ASSUME NEW n, NEW p PROVE EncodePacketForPeer(n, p) \in SUBSET BOOLEAN
  BY DEF EncodePacketForPeer

\* A relay sends a packet on with a smaller TTL, which only JSON carries.
LEMMA RelayedHonest ==
    ASSUME NEW n \in Nodes, NEW p, p.ttl \in 0 .. DefaultTTL - 1, NEW f \in Routed(n, p)
    PROVE  Honest(f)
  <1>1. PICK h : f \in ToAddress(n, p, EncodePacketForPeer(n, p), path[n][h])
    BY DEF Routed
  <1>2. p.ttl # DefaultTTL /\ p.ttl \in 0 .. DefaultTTL
    BY DataPlaneConstants
  <1>3. \A c \in EncodePacketForPeer(n, p) : c = FALSE
    BY <1>2 DEF EncodePacketForPeer
  <1>4. PICK c \in EncodePacketForPeer(n, p), to \in Reaches[path[n][h]] :
          f = Encoded(p, c, n, to)
    BY <1>1 DEF ToAddress
  <1>5. f = Encoded(p, FALSE, n, to)
    BY <1>3, <1>4
  <1>6. f.from = n /\ f.ttl = p.ttl /\ f.compact = FALSE
    BY <1>5 DEF Encoded
  <1> QED
    BY <1>2, <1>6 DEF Honest

\* The answers of handleDatagram are honest.
LEMMA AnswersHonest ==
    ASSUME FirstHop, NEW n \in Nodes, NEW f \in net, f.type \in Keepalive,
           NEW out \in Answers(n, Decoded(f), f)
    PROVE  Honest(out)
  <1> DEFINE p == Decoded(f)
  <1>1. f.ttl \in 0 .. DefaultTTL /\ f.compact \in BOOLEAN
    BY DEF FirstHop
  <1>2. p.ttl \in 0 .. DefaultTTL
    BY <1>1, DataPlaneConstants DEF Decoded
  <1>3. CASE p.dst # n
    <2>1. p.ttl > 1 /\ out \in Routed(n, [p EXCEPT !.ttl = @ - 1])
      BY <1>3 DEF Answers
    <2>2. [p EXCEPT !.ttl = @ - 1].ttl = p.ttl - 1
      BY DEF Decoded
    <2>3. p.ttl - 1 \in 0 .. DefaultTTL - 1
      BY <1>2, <2>1, DataPlaneConstants
    <2> QED
      BY <2>1, <2>2, <2>3, RelayedHonest
  <1>4. CASE p.dst = n /\ p.type = "HELLO"
    <2>1. out \in Routed(n, NewPacket("HELLO_ACK", n, p.src))
      BY <1>4 DEF Answers
    <2>2. PICK h : out \in ToAddress(n, NewPacket("HELLO_ACK", n, p.src),
                             EncodePacketForPeer(n, NewPacket("HELLO_ACK", n, p.src)), path[n][h])
      BY <2>1 DEF Routed, NewPacket
    <2> QED
      BY <2>2, Formats, OwnPacketsHonest
  <1>5. CASE p.dst = n /\ p.type # "HELLO"
    <2>1. out \in ToAddress(n, NewPacket("PONG", n, p.src), {f.compact}, f.from)
      BY <1>5 DEF Answers
    <2> QED
      BY <1>1, <2>1, OwnPacketsHonest
  <1> QED
    BY <1>3, <1>4, <1>5

\* The network keeps FirstHop when it hands a datagram over and takes honest
\* ones in.
LEMMA HandedHonest ==
    ASSUME FirstHop, NEW f, NEW out, Handed(f, out), \A g \in out : Honest(g)
    PROVE  FirstHop'
  BY DEF FirstHop, Honest, Handed

\* Only what comes with the full TTL from a neighbour is learned: its sender
\* is that neighbour.
LEMMA LearnDirect ==
    ASSUME PathsOK, FirstHop, DirectPathIsDirect, NEW n \in Nodes, NEW f \in net,
           f.type \in Keepalive, Learn(n, Decoded(f), f)
    PROVE  PathsOK' /\ DirectPathIsDirect'
  <1> DEFINE p == Decoded(f)
  <1>1. CASE p.dst = n /\ ConfirmsDirectPath(p) /\ p.src \in Neighbors[n]
    <2>1. f.compact \/ f.ttl = DefaultTTL
      BY <1>1 DEF ConfirmsDirectPath, Decoded
    <2>2. f.from = f.src /\ f.from \in Nodes
      BY <2>1 DEF FirstHop
    <2>3. p.src = f.src
      BY DEF Decoded
    <2>4. path' = [path EXCEPT ![n][p.src] = f.from]
      BY <1>1 DEF Learn
    <2>5. path' = [path EXCEPT ![n][f.src] = f.src] /\ f.src \in Nodes
      BY <2>2, <2>3, <2>4
    <2> QED
      BY <2>5 DEF PathsOK, DirectPathIsDirect
  <1>2. CASE ~(p.dst = n /\ ConfirmsDirectPath(p) /\ p.src \in Neighbors[n])
    <2>1. path' = path
      BY <1>2 DEF Learn
    <2> QED
      BY <2>1 DEF PathsOK, DirectPathIsDirect
  <1> QED
    BY <1>1, <1>2

\* handleDatagram learns and answers.
LEMMA DatagramStep ==
    ASSUME IInv, NEW n \in Nodes, NEW f \in net, HandleDatagram(n, f)
    PROVE  IInv'
  <1>1. PathsOK /\ FirstHop /\ DirectPathIsDirect /\ f.type \in Keepalive
    BY DEF IInv, HandleDatagram
  <1>2. CASE Handed(f, {}) /\ UNCHANGED control
    <2>1. FirstHop'
      BY <1>1, <1>2, HandedHonest
    <2> QED
      BY <1>1, <1>2, <2>1 DEF IInv, PathsOK, DirectPathIsDirect, control
  <1>3. CASE /\ Learn(n, Decoded(f), f)
             /\ \/ Handed(f, {})
                \/ \E out \in Answers(n, Decoded(f), f) : Handed(f, {out})
    <2>1. CASE Handed(f, {})
      BY <1>1, <1>3, <2>1, HandedHonest, LearnDirect DEF IInv
    <2>2. ASSUME NEW out \in Answers(n, Decoded(f), f), Handed(f, {out}) PROVE IInv'
      <3>1. Honest(out)
        BY <1>1, AnswersHonest
      <3>2. FirstHop'
        BY <1>1, <2>2, <3>1, HandedHonest
      <3> QED
        BY <1>1, <1>3, <3>2, LearnDirect DEF IInv
    <2> QED
      BY <1>3, <2>1, <2>2
  <1> QED
    BY <1>2, <1>3 DEF HandleDatagram

\* HELLO and PING go out with the full TTL from the node that makes them.
LEMMA ProbeStep ==
    ASSUME IInv, NEW n \in Nodes, NEW p \in Nodes, Hello(n, p) \/ Ping(n, p)
    PROVE  IInv'
  <1>1. UNCHANGED path
    BY DEF Hello, Ping, control
  <1>2. CASE Hello(n, p)
    <2> DEFINE packet == NewPacket("HELLO", n, p)
    <2>1. PICK c \in EncodePacketForPeer(n, packet) :
          \E out \in SUBSET UNION {ToAddress(n, packet, {c}, x) : x \in {p, path[n][p]} \ {Nothing}} :
            out # {} /\ net' = net \cup out
      BY <1>2 DEF Hello
    <2>2. {c} \in SUBSET BOOLEAN
      BY Formats
    <2>3. PICK out \in SUBSET UNION {ToAddress(n, packet, {c}, x) : x \in {p, path[n][p]} \ {Nothing}} :
            net' = net \cup out
      BY <2>1
    <2>4. \A g \in out : Honest(g)
      BY <2>2, OwnPacketsHonest
    <2> QED
      BY <1>1, <2>3, <2>4 DEF IInv, FirstHop, Honest, PathsOK, DirectPathIsDirect
  <1>3. CASE Ping(n, p)
    <2> DEFINE packet == NewPacket("PING", n, p)
               address == IF path[n][p] = Nothing THEN p ELSE path[n][p]
    <2>1. PICK f \in ToAddress(n, packet, {TRUE}, address) : net' = net \cup {f}
      BY <1>3 DEF Ping
    <2>2. Honest(f)
      BY OwnPacketsHonest
    <2> QED
      BY <1>1, <2>1, <2>2 DEF IInv, FirstHop, Honest, PathsOK, DirectPathIsDirect
  <1> QED
    BY <1>2, <1>3

\* Fast frames say nothing about addresses, and no path of a new process is
\* known before a packet has confirmed it.
LEMMA OtherStep ==
    ASSUME IInv, NEW n \in Nodes,
           \/ \E f \in net : EnqueueFast(n, f)
           \/ \E t \in Traffic : SendIP(n, t)
           \/ UDPSend(n)
           \/ \E w \in Workers[n] : \/ TakeFast(n, w) \/ HandleFast(n, w) \/ FastPanics(n, w)
                                    \/ RelayFast(n, w) \/ EnqueueDeliver(n, w)
           \/ \E q \in Queues : Deliver(n, q)
           \/ Restart(n)
           \/ \E p \in Nodes : DirectoryDrops(n, p)
    PROVE  IInv'
  <1>1. ASSUME NEW f \in net, EnqueueFast(n, f) PROVE IInv'
    <2>1. Handed(f, {}) /\ path' = path
      BY <1>1 DEF EnqueueFast, control
    <2>2. FirstHop'
      BY <2>1, HandedHonest DEF IInv
    <2> QED
      BY <2>1, <2>2 DEF IInv, PathsOK, DirectPathIsDirect
  <1>2. CASE UDPSend(n)
    <2>1. PICK g : net' = net \cup {g} /\ g.type = "FAST"
      <3> DEFINE q == Head(udpSendQueue[n])
                 Frame(to) == [type |-> "FAST", id |-> q.packet.id, src |-> q.packet.src,
                               dst |-> q.packet.dst, flow |-> q.packet.flow, ttl |-> q.ttl,
                               to |-> to]
      <3>1. PICK to \in Reaches[q.address] : net' = net \cup {Frame(to)}
        BY <1>2 DEF UDPSend
      <3>2. Frame(to).type = "FAST"
        OBVIOUS
      <3> QED
        BY <3>1, <3>2
    <2>2. path' = path
      BY <1>2 DEF UDPSend, control
    <2>3. "FAST" \notin Keepalive
      BY DEF Keepalive
    <2> QED
      BY <2>1, <2>2, <2>3 DEF IInv, FirstHop, PathsOK, DirectPathIsDirect
  <1>3. CASE net' = net /\ path' = [path EXCEPT ![n] = [p \in Nodes |-> Nothing]]
    BY <1>3 DEF IInv, FirstHop, PathsOK, DirectPathIsDirect
  <1>4. CASE net' = net /\ path' = path
    BY <1>4 DEF IInv, FirstHop, PathsOK, DirectPathIsDirect
  <1>5. CASE Restart(n) \/ \E w \in Workers[n] : FastPanics(n, w)
    BY <1>3, <1>5 DEF Restart, FastPanics, NewProcess
  <1>6. CASE \/ \E t \in Traffic : SendIP(n, t)
             \/ \E w \in Workers[n] : \/ TakeFast(n, w) \/ HandleFast(n, w)
                                      \/ RelayFast(n, w) \/ EnqueueDeliver(n, w)
             \/ \E q \in Queues : Deliver(n, q)
             \/ \E p \in Nodes : DirectoryDrops(n, p)
    BY <1>4, <1>6 DEF SendIP, TakeFast, HandleFast, RelayFast, EnqueueDeliver, Deliver,
                      DirectoryDrops, control
  <1> QED
    BY <1>1, <1>2, <1>5, <1>6

\* At first every neighbour is expected at its own address.
LEMMA PathsInit == Init => IInv
  BY DEF Init, IInv, PathsOK, FirstHop, DirectPathIsDirect

\* Every step preserves the invariant.
LEMMA PathsStep == IInv /\ [Next]_vars => IInv'
  <1> SUFFICES ASSUME IInv, [Next]_vars PROVE IInv'
    OBVIOUS
  <1>1. CASE UNCHANGED vars
    BY <1>1 DEF vars, control, IInv, PathsOK, FirstHop, DirectPathIsDirect
  <1>2. CASE Next
    <2>1. PICK n \in Nodes :
            \/ \E p \in Nodes : Hello(n, p) \/ Ping(n, p)
            \/ \E f \in net : HandleDatagram(n, f)
            \/ \/ \E f \in net : EnqueueFast(n, f)
               \/ \E t \in Traffic : SendIP(n, t)
               \/ UDPSend(n)
               \/ \E w \in Workers[n] : \/ TakeFast(n, w) \/ HandleFast(n, w) \/ FastPanics(n, w)
                                        \/ RelayFast(n, w) \/ EnqueueDeliver(n, w)
               \/ \E q \in Queues : Deliver(n, q)
               \/ Restart(n)
               \/ \E p \in Nodes : DirectoryDrops(n, p)
      BY <1>2 DEF Next
    <2> QED
      BY <2>1, ProbeStep, DatagramStep, OtherStep
  <1> QED
    BY <1>1, <1>2

\* The invariant holds in every state the data plane reaches.
THEOREM PathsInvariant == Spec => []IInv
  BY PathsInit, PathsStep, PTL DEF Spec

\* confirmsDirectPath never lets a relay take the place of a neighbour: the
\* address of a neighbour is the neighbour's own.
THEOREM DirectPaths == Spec => []DirectPathIsDirect
  <1>1. IInv => DirectPathIsDirect
    BY DEF IInv
  <1> QED
    BY <1>1, PathsInvariant, PTL

-----------------------------------------------------------------------------
(* The tables, the queues and the workers. *)

Packets == [id : Nat, src : Nodes, dst : Nodes, flow : Flows]

Frames == [type : {"FAST"}, id : Nat, src : Nodes, dst : Nodes, flow : Flows,
           ttl : 0 .. DefaultTTL, to : Nodes]

\* Frames of packets that were sealed, sent to the given node.
Arriving(n) == {f \in Frames : Packet(f) \in sent /\ f.to = n}

\* The packets that may wait in a TUN queue of a node.
Waiting(n, q) == {p \in sent : p.dst = n /\ QueueOf[p.flow] = q}

\* Every packet has an id of its own, within what the behaviour may create.
CountersOK ==
    /\ budget \in Budgets /\ next \in Nat \ {0} /\ faults \in 0 .. MaxFaults
    /\ IsFiniteSet(sent) /\ Cardinality(sent) <= budget.sealed
    /\ next - 1 - Cardinality(sent) \in 0 .. budget.control
    /\ sent \subseteq Packets /\ \A p \in sent : p.id \in Ids

\* A datagram has the id of a packet that was made; a fast frame carries one
\* that was sealed.
Sound(f) ==
    /\ f.id \in Ids /\ f.src \in Nodes /\ f.dst \in Nodes
    /\ f.to \in Nodes /\ f.ttl \in 0 .. DefaultTTL
    /\ f.type = "FAST" => f \in Frames /\ Packet(f) \in sent

NetOK == \A f \in net : Sound(f)

\* What a node knows of its peers and of the ids it has seen.
KnownOK ==
    /\ compact \in [Nodes -> SUBSET Nodes] /\ dir \in [Nodes -> SUBSET Nodes]
    /\ keys \in [Nodes -> SUBSET Nodes] /\ snap \in [Nodes -> Addresses]
    /\ DOMAIN seen = Nodes
    /\ \A n \in Nodes : /\ seen[n] \subseteq Ids
                         /\ IsFiniteSet(seen[n]) /\ Cardinality(seen[n]) <= SeenCap

QueuesOK ==
    /\ DOMAIN udpSendQueue = Nodes /\ DOMAIN fastQueue = Nodes
    /\ \A n \in Nodes :
         /\ udpSendQueue[n] \in Seq([packet : sent, ttl : 0 .. DefaultTTL, address : Nodes])
         /\ Len(udpSendQueue[n]) <= QueueCap
         /\ fastQueue[n] \in Seq(Arriving(n)) /\ Len(fastQueue[n]) <= QueueCap

\* A frame that a worker has let through is its own, or has a hop left.
WorkerOK(n, x) ==
    \/ x = Idle
    \/ /\ x \in [stage : {"taken", "remembered"}, frame : Arriving(n)]
       /\ x.stage = "remembered" => x.frame.dst = n \/ x.frame.ttl > 1

WorkersOK ==
    /\ DOMAIN worker = Nodes
    /\ \A n \in Nodes : /\ DOMAIN worker[n] = Workers[n]
                        /\ \A w \in Workers[n] : WorkerOK(n, worker[n][w])

DeliverOK ==
    /\ DOMAIN deliverQueues = Nodes
    /\ \A n \in Nodes :
         /\ DOMAIN deliverQueues[n] = Queues
         /\ \A q \in Queues : /\ deliverQueues[n][q] \in Seq(Waiting(n, q))
                              /\ Len(deliverQueues[n][q]) <= QueueCap

\* The ring and the set of a shard hold the same ids, each once.
RingOK(r, at, ids) ==
    /\ r \in Seq(Nat) /\ Len(r) <= RingCap
    /\ at \in 0 .. RingCap - 1 /\ (Len(r) < RingCap => at = 0)
    /\ ids = Range(r)
    /\ \A i, j \in 1 .. Len(r) : r[i] = r[j] => i = j

RingsOK ==
    /\ DOMAIN ring = Nodes /\ DOMAIN slot = Nodes /\ DOMAIN fastSeen = Nodes
    /\ \A n \in Nodes :
         /\ DOMAIN ring[n] = 0 .. Shards - 1 /\ DOMAIN slot[n] = 0 .. Shards - 1
         /\ DOMAIN fastSeen[n] = 0 .. Shards - 1
         /\ \A s \in 0 .. Shards - 1 : RingOK(ring[n][s], slot[n][s], fastSeen[n][s])

\* How many ids of a ring are older than the one at index j.
Older(j, at) == IF j > at THEN j - 1 - at ELSE j - 1 - at + RingCap

\* An id the process has taken in has left the ring of its shard only after
\* RingCap others; one that is still there was followed at least by the
\* younger ids of the ring.
Aged(l, r, at, i) ==
    /\ l[i] \notin Range(r) => i + RingCap <= Len(l)
    /\ \A j \in 1 .. Len(r) : r[j] = l[i] => i + (Len(r) - 1 - Older(j, at)) <= Len(l)

LogOK ==
    /\ DOMAIN log = Nodes
    /\ \A n \in Nodes :
         /\ log[n] \in Seq(Nat)
         /\ \A i \in 1 .. Len(log[n]) :
              LET s == FastShard(log[n][i]) IN Aged(log[n], ring[n][s], slot[n][s], i)

HeldInv ==
    /\ IInv /\ CountersOK /\ NetOK /\ KnownOK
    /\ QueuesOK /\ WorkersOK /\ DeliverOK /\ RingsOK /\ LogOK

\* The fields of the constants that the proofs use.
LEMMA BudgetTyped == ASSUME CountersOK PROVE budget.sealed \in Nat /\ budget.control \in Nat
  BY DataPlaneConstants DEF CountersOK

\* What the network and the restarts of the model count.
LEMMA FaultsStep == ASSUME CountersOK, [Next]_vars PROVE faults' \in 0 .. MaxFaults
  <1>1. faults' = faults \/ (faults < MaxFaults /\ faults' = faults + 1)
    <2>1. ASSUME NEW n \in Nodes, NEW f \in net, HandleDatagram(n, f) \/ EnqueueFast(n, f)
          PROVE  faults' = faults \/ (faults < MaxFaults /\ faults' = faults + 1)
      <3>1. \E out : Handed(f, out)
        BY <2>1 DEF HandleDatagram, EnqueueFast
      <3> QED
        BY <3>1 DEF Handed
    <2>2. ASSUME NEW n \in Nodes,
                 \/ \E p \in Nodes : Hello(n, p) \/ Ping(n, p)
                 \/ \E t \in Traffic : SendIP(n, t)
                 \/ UDPSend(n)
                 \/ \E w \in Workers[n] : \/ TakeFast(n, w) \/ HandleFast(n, w) \/ FastPanics(n, w)
                                          \/ RelayFast(n, w) \/ EnqueueDeliver(n, w)
                 \/ \E q \in Queues : Deliver(n, q)
          PROVE  faults' = faults
      BY <2>2 DEF Hello, Ping, SendIP, UDPSend, TakeFast, HandleFast, FastPanics, RelayFast,
         EnqueueDeliver, Deliver
    <2>3. ASSUME NEW n \in Nodes, Restart(n) \/ \E p \in Nodes : DirectoryDrops(n, p)
          PROVE  faults < MaxFaults /\ faults' = faults + 1
      BY <2>3 DEF Restart, DirectoryDrops
    <2>4. CASE UNCHANGED vars
      BY <2>4 DEF vars
    <2> QED
      BY <2>1, <2>2, <2>3, <2>4 DEF Next
  <1> QED
    BY <1>1, DataPlaneConstants DEF CountersOK

\* Only a node that seals a packet adds to what was sent.
LEMMA SealStep ==
    ASSUME CountersOK, NEW n \in Nodes, NEW t \in Traffic, SendIP(n, t)
    PROVE  /\ next' = next + 1 /\ budget' = budget
           /\ \E p \in Packets : /\ p.id = next /\ p \notin sent /\ sent' = sent \cup {p}
                                 /\ p = [id |-> next, src |-> n, dst |-> t.dst, flow |-> t.flow]
           /\ Cardinality(sent) < budget.sealed
  <1> DEFINE p == [id |-> next, src |-> n, dst |-> t.dst, flow |-> t.flow]
  <1>1. p \in Packets /\ p.id = next
    BY DataPlaneConstants DEF CountersOK, Packets
  <1>2. next \notin Ids
    BY DEF Ids, CountersOK
  <1>3. p \notin sent
    BY <1>1, <1>2 DEF CountersOK
  <1>4. sent' = sent \cup {p} /\ next' = next + 1 /\ budget' = budget
        /\ Cardinality(sent) < budget.sealed
    BY DEF SendIP
  <1> QED
    BY <1>1, <1>3, <1>4

\* Every other step leaves sent alone and makes one control packet at most.
LEMMA CreateStep ==
    ASSUME CountersOK, [Next]_vars
    PROVE  \/ \E n \in Nodes, t \in Traffic : SendIP(n, t)
           \/ /\ sent' = sent /\ budget' = budget
              /\ next' = next \/ (MayCreate /\ next' = next + 1)
  <1>1. CASE \E n \in Nodes, p \in Nodes : Hello(n, p) \/ Ping(n, p)
    BY <1>1 DEF Hello, Ping
  <1>2. CASE \E n \in Nodes, f \in net : HandleDatagram(n, f)
    BY <1>2 DEF HandleDatagram
  <1>3. ASSUME NEW n \in Nodes,
               \/ \E f \in net : EnqueueFast(n, f)
               \/ UDPSend(n)
               \/ \E w \in Workers[n] : \/ TakeFast(n, w) \/ HandleFast(n, w) \/ FastPanics(n, w)
                                        \/ RelayFast(n, w) \/ EnqueueDeliver(n, w)
               \/ \E q \in Queues : Deliver(n, q)
               \/ Restart(n)
               \/ \E p \in Nodes : DirectoryDrops(n, p)
        PROVE  sent' = sent /\ budget' = budget /\ next' = next
    BY <1>3 DEF EnqueueFast, UDPSend, TakeFast, HandleFast, FastPanics, RelayFast,
       EnqueueDeliver, Deliver, Restart, NewProcess, DirectoryDrops
  <1>4. CASE UNCHANGED vars
    BY <1>4 DEF vars
  <1> QED
    BY <1>1, <1>2, <1>3, <1>4 DEF Next

\* Ids and sent only grow.
LEMMA Grows ==
    ASSUME CountersOK, [Next]_vars
    PROVE  /\ sent \subseteq sent' /\ Ids \subseteq Ids'
           /\ next' \in {next, next + 1} /\ (next' = next + 1 => next \in Ids')
  <1>1. sent \subseteq sent' /\ next' \in {next, next + 1}
    BY CreateStep, SealStep
  <1>2. next \in Nat \ {0}
    BY DEF CountersOK
  <1>3. CASE next' = next
    <2>1. Ids' = Ids /\ next' # next + 1
      BY <1>2, <1>3 DEF Ids
    <2> QED
      BY <1>1, <2>1
  <1>4. CASE next' = next + 1
    <2>1. Ids' = 1 .. next /\ Ids = 1 .. next - 1
      BY <1>2, <1>4 DEF Ids
    <2> QED
      BY <1>1, <1>2, <2>1
  <1> QED
    BY <1>1, <1>3, <1>4

\* The budgets.
LEMMA CountersStep == ASSUME CountersOK, [Next]_vars PROVE CountersOK'
  <1>1. faults' \in 0 .. MaxFaults
    BY FaultsStep
  <1>2. Cardinality(sent) \in Nat /\ IsFiniteSet(sent) /\ next \in Nat \ {0}
    BY FS_CardinalityType DEF CountersOK
  <1>3. budget.sealed \in Nat /\ budget.control \in Nat
    BY BudgetTyped
  <1>4. ASSUME NEW n \in Nodes, NEW t \in Traffic, SendIP(n, t) PROVE CountersOK'
    <2>1. PICK p \in Packets : p.id = next /\ p \notin sent /\ sent' = sent \cup {p}
      BY <1>4, SealStep
    <2>2. next' = next + 1 /\ budget' = budget /\ Cardinality(sent) < budget.sealed
      BY <1>4, SealStep
    <2>3. IsFiniteSet(sent') /\ Cardinality(sent') = Cardinality(sent) + 1
      BY <1>2, <2>1, FS_AddElement
    <2>4. \A x \in sent' : x \in Packets /\ x.id \in Ids'
      BY <1>2, <2>1, <2>2 DEF CountersOK, Ids
    <2>5. next' - 1 - Cardinality(sent') = next - 1 - Cardinality(sent)
      BY <1>2, <2>2, <2>3
    <2>6. Cardinality(sent') <= budget'.sealed
      BY <1>2, <1>3, <2>2, <2>3
    <2> QED
      BY <1>1, <1>2, <2>2, <2>3, <2>4, <2>5, <2>6 DEF CountersOK
  <1>5. CASE /\ sent' = sent /\ budget' = budget
             /\ next' = next \/ (MayCreate /\ next' = next + 1)
    <2>1. next' - 1 - Cardinality(sent') \in 0 .. budget'.control
      BY <1>2, <1>3, <1>5 DEF CountersOK, MayCreate
    <2>2. \A x \in sent' : x.id \in Ids'
      BY <1>2, <1>5 DEF CountersOK, Ids
    <2> QED
      BY <1>1, <1>2, <1>5, <2>1, <2>2 DEF CountersOK
  <1> QED
    BY <1>4, <1>5, CreateStep

\* A datagram keeps the fields of its packet, and goes to a node.
LEMMA EncodedSound ==
    ASSUME NEW n, NEW p, NEW formats, NEW address \in Nodes, p.ttl \in 0 .. DefaultTTL,
           NEW f \in ToAddress(n, p, formats, address)
    PROVE  /\ f.id = p.id /\ f.src = p.src /\ f.dst = p.dst /\ f.type = p.type
           /\ f.to \in Nodes /\ f.ttl \in 0 .. DefaultTTL
  <1>1. PICK c \in formats, to \in Reaches[address] : f = Encoded(p, c, n, to)
    BY DEF ToAddress
  <1>2. to \in Nodes
    BY DataPlaneConstants
  <1>3. f.ttl = IF c THEN 0 ELSE p.ttl
    BY <1>1 DEF Encoded
  <1> QED
    BY <1>1, <1>2, <1>3, DataPlaneConstants DEF Encoded

\* The same for what goes through a hop.
LEMMA RoutedSound ==
    ASSUME PathsOK, NEW n \in Nodes, NEW p, p.dst \in Nodes, p.ttl \in 0 .. DefaultTTL,
           NEW f \in Routed(n, p)
    PROVE  /\ f.id = p.id /\ f.src = p.src /\ f.dst = p.dst /\ f.type = p.type
           /\ f.to \in Nodes /\ f.ttl \in 0 .. DefaultTTL
  <1>1. PICK h \in Hops[n][p.dst] :
          path[n][h] # Nothing /\ f \in ToAddress(n, p, EncodePacketForPeer(n, p), path[n][h])
    BY DEF Routed
  <1>2. h \in Nodes
    BY DataPlaneConstants
  <1>3. path[n][h] \in Nodes
    BY <1>1, <1>2 DEF PathsOK
  <1> QED
    BY <1>1, <1>3, EncodedSound

\* What a packet that a node makes holds.
LEMMA NewPacketFields ==
    ASSUME NEW type, NEW src, NEW dst
    PROVE  /\ NewPacket(type, src, dst).type = type /\ NewPacket(type, src, dst).id = next
           /\ NewPacket(type, src, dst).src = src /\ NewPacket(type, src, dst).dst = dst
           /\ NewPacket(type, src, dst).ttl = DefaultTTL /\ DefaultTTL \in 0 .. DefaultTTL
  BY DataPlaneConstants DEF NewPacket

\* A new datagram of a control packet.
LEMMA SoundControl ==
    ASSUME NEW f, f.id \in Ids', f.src \in Nodes, f.dst \in Nodes, f.to \in Nodes,
           f.ttl \in 0 .. DefaultTTL, f.type \in Keepalive
    PROVE  Sound(f)'
  BY DEF Sound, Keepalive

\* The answers of handleDatagram: a relayed packet keeps its id, an answer has
\* the next one.
LEMMA AnswersSound ==
    ASSUME IInv, NetOK, CountersOK, NEW n \in Nodes, NEW f \in net, f.type \in Keepalive,
           NEW out \in Answers(n, Decoded(f), f)
    PROVE  /\ out.id \in IF Decoded(f).dst = n THEN {next} ELSE Ids
           /\ out.src \in Nodes /\ out.dst \in Nodes /\ out.to \in Nodes
           /\ out.ttl \in 0 .. DefaultTTL /\ out.type \in Keepalive
  <1> DEFINE p == Decoded(f)
  <1>1. /\ f.id \in Ids /\ f.src \in Nodes /\ f.dst \in Nodes
        /\ f.ttl \in 0 .. DefaultTTL /\ f.from \in Nodes
    BY DEF NetOK, Sound, IInv, FirstHop
  <1>2. /\ p.id = f.id /\ p.src = f.src /\ p.dst = f.dst /\ p.type = f.type
        /\ p.ttl \in 0 .. DefaultTTL
    BY <1>1, DataPlaneConstants DEF Decoded
  <1>3. CASE p.dst # n
    <2> DEFINE q == [p EXCEPT !.ttl = @ - 1]
    <2>1. p.ttl > 1 /\ out \in Routed(n, q)
      BY <1>3 DEF Answers
    <2>2. q.ttl = p.ttl - 1 /\ q.id = p.id /\ q.src = p.src /\ q.dst = p.dst /\ q.type = p.type
      BY DEF Decoded
    <2>3. q.ttl \in 0 .. DefaultTTL
      BY <1>2, <2>1, <2>2, DataPlaneConstants
    <2> HIDE DEF q
    <2> QED
      BY <1>1, <1>2, <1>3, <2>1, <2>2, <2>3, RoutedSound DEF IInv
  <1>4. CASE p.dst = n /\ p.type = "HELLO"
    <2>1. out \in Routed(n, NewPacket("HELLO_ACK", n, p.src))
      BY <1>4 DEF Answers
    <2> QED
      BY <1>1, <1>2, <1>4, <2>1, NewPacketFields, RoutedSound DEF IInv, Keepalive
  <1>5. CASE p.dst = n /\ p.type # "HELLO"
    <2>1. out \in ToAddress(n, NewPacket("PONG", n, p.src), {f.compact}, f.from)
      BY <1>5 DEF Answers
    <2> QED
      BY <1>1, <1>2, <1>5, <2>1, NewPacketFields, EncodedSound DEF Keepalive
  <1> QED
    BY <1>3, <1>4, <1>5

\* The network after a datagram was handed over.
LEMMA HandedSound ==
    ASSUME NetOK, CountersOK, [Next]_vars, NEW f, NEW out, Handed(f, out),
           \A g \in out : Sound(g)'
    PROVE  NetOK'
  <1>1. \A g \in net : Sound(g)'
    BY Grows DEF NetOK, Sound
  <1>2. \A g \in net' : g \in net \/ g \in out
    BY DEF Handed
  <1> QED
    BY <1>1, <1>2 DEF NetOK

\* A set that stays within a larger one keeps its queues.
LEMMA QueueGrows == ASSUME NEW S, NEW T, S \subseteq T, NEW q \in Seq(S) PROVE q \in Seq(T)
  OBVIOUS

\* The ends of a queue.
LEMMA QueueEnds ==
    ASSUME NEW S, NEW q \in Seq(S)
    PROVE  /\ Len(q) \in Nat
           /\ q # <<>> => Head(q) \in S /\ Tail(q) \in Seq(S) /\ Len(Tail(q)) = Len(q) - 1
           /\ \A x \in S : Append(q, x) \in Seq(S) /\ Len(Append(q, x)) = Len(q) + 1
  OBVIOUS

\* A frame at the head of a send queue leaves as a fast frame of its packet.
LEMMA SentFrame ==
    ASSUME QueuesOK, CountersOK, NEW n \in Nodes, udpSendQueue[n] # <<>>, NEW to \in Nodes,
           NEW f, LET o == Head(udpSendQueue[n]) IN
                  f = [type |-> "FAST", id |-> o.packet.id, src |-> o.packet.src,
                       dst |-> o.packet.dst, flow |-> o.packet.flow, ttl |-> o.ttl, to |-> to]
    PROVE  f \in Frames /\ Packet(f) \in sent /\ f.id \in Ids
  <1> DEFINE o == Head(udpSendQueue[n])
  <1>1. o \in [packet : sent, ttl : 0 .. DefaultTTL, address : Nodes]
    <2>1. udpSendQueue[n] \in Seq([packet : sent, ttl : 0 .. DefaultTTL, address : Nodes])
      BY DEF QueuesOK
    <2> QED
      BY <2>1, QueueEnds
  <1>2. o.packet \in sent /\ o.ttl \in 0 .. DefaultTTL
    BY <1>1
  <1>3. o.packet \in Packets /\ o.packet.id \in Ids
    BY <1>2 DEF CountersOK
  <1> HIDE DEF o
  <1>4. f = [type |-> "FAST", id |-> o.packet.id, src |-> o.packet.src,
             dst |-> o.packet.dst, flow |-> o.packet.flow, ttl |-> o.ttl, to |-> to]
    BY DEF o
  <1>5. f \in Frames
    BY <1>2, <1>3, <1>4 DEF Frames, Packets
  <1>6. Packet(f) = o.packet
    BY <1>3, <1>4 DEF Packet, Packets
  <1> QED
    BY <1>2, <1>3, <1>4, <1>5, <1>6

\* The datagrams on their way.
LEMMA NetStep ==
    ASSUME IInv, NetOK, CountersOK, QueuesOK, [Next]_vars PROVE NetOK'
  <1>1. \A g \in net : Sound(g)'
    BY Grows DEF NetOK, Sound
  <1>2. ASSUME NEW n \in Nodes, NEW p \in Nodes, Hello(n, p) \/ Ping(n, p) PROVE NetOK'
    <2>1. next \in Ids'
      BY <1>2, Grows DEF Hello, Ping
    <2>2. path[n][p] \in Nodes \cup {Nothing}
      BY DEF IInv, PathsOK
    <2>3. ASSUME NEW type \in Keepalive, NEW formats, NEW x \in Nodes,
                 NEW f \in ToAddress(n, NewPacket(type, n, p), formats, x)
          PROVE  Sound(f)'
      BY <2>1, NewPacketFields, EncodedSound, SoundControl
    <2>4. \A g \in net' : g \in net \/ Sound(g)'
      <3>1. CASE Hello(n, p)
        <4>1. PICK c : \E out \in SUBSET UNION {ToAddress(n, NewPacket("HELLO", n, p), {c}, x) :
                                                  x \in {p, path[n][p]} \ {Nothing}} :
                         net' = net \cup out
          BY <3>1 DEF Hello
        <4>2. ASSUME NEW x \in {p, path[n][p]} \ {Nothing},
                     NEW f \in ToAddress(n, NewPacket("HELLO", n, p), {c}, x)
              PROVE  Sound(f)'
          BY <2>2, <2>3 DEF Keepalive
        <4> QED
          BY <4>1, <4>2
      <3>2. CASE Ping(n, p)
        <4> DEFINE x == IF path[n][p] = Nothing THEN p ELSE path[n][p]
        <4>1. PICK f \in ToAddress(n, NewPacket("PING", n, p), {TRUE}, x) : net' = net \cup {f}
          BY <3>2 DEF Ping
        <4>2. x \in Nodes
          BY <2>2
        <4>3. Sound(f)'
          BY <2>3, <4>2 DEF Keepalive
        <4> QED
          BY <4>1, <4>3
      <3> QED
        BY <1>2, <3>1, <3>2
    <2> QED
      BY <1>1, <2>4 DEF NetOK
  <1>3. ASSUME NEW n \in Nodes, NEW f \in net, HandleDatagram(n, f) PROVE NetOK'
    <2>1. CASE Handed(f, {})
      BY <2>1, HandedSound
    <2>2. ASSUME NEW out \in Answers(n, Decoded(f), f), Handed(f, {out}),
                 Decoded(f).dst = n => next' = next + 1
          PROVE  NetOK'
      <3>1. out.id \in Ids'
        BY <1>3, <2>2, AnswersSound, Grows DEF HandleDatagram
      <3>2. Sound(out)'
        BY <1>3, <3>1, AnswersSound, SoundControl DEF HandleDatagram
      <3> QED
        BY <2>2, <3>2, HandedSound
    <2> QED
      BY <1>3, <2>1, <2>2 DEF HandleDatagram
  <1>4. ASSUME NEW n \in Nodes, NEW f \in net, EnqueueFast(n, f) PROVE NetOK'
    BY <1>4, HandedSound DEF EnqueueFast
  <1>5. ASSUME NEW n \in Nodes, UDPSend(n) PROVE NetOK'
    <2> DEFINE o == Head(udpSendQueue[n])
               Frame(to) == [type |-> "FAST", id |-> o.packet.id, src |-> o.packet.src,
                             dst |-> o.packet.dst, flow |-> o.packet.flow, ttl |-> o.ttl,
                             to |-> to]
    <2>1. PICK to \in Reaches[o.address] : net' = net \cup {Frame(to)}
      BY <1>5 DEF UDPSend
    <2>2. udpSendQueue[n] # <<>> /\ sent' = sent /\ next' = next
      BY <1>5 DEF UDPSend
    <2>3. to \in Nodes
      <3>1. udpSendQueue[n] \in Seq([packet : sent, ttl : 0 .. DefaultTTL, address : Nodes])
        BY DEF QueuesOK
      <3>2. o \in [packet : sent, ttl : 0 .. DefaultTTL, address : Nodes]
        BY <2>2, <3>1, QueueEnds
      <3>3. o.address \in Nodes
        BY <3>2
      <3> QED
        BY <3>3, DataPlaneConstants
    <2>4. PICK f : f = Frame(to)
      OBVIOUS
    <2>5. f \in Frames /\ Packet(f) \in sent /\ f.id \in Ids
      BY <2>2, <2>3, <2>4, SentFrame
    <2>6. Sound(f)'
      BY <2>2, <2>5 DEF Sound, Frames, Ids
    <2> QED
      BY <1>1, <2>1, <2>4, <2>6 DEF NetOK
  <1>6. CASE net' = net
    BY <1>1, <1>6 DEF NetOK
  <1>7. ASSUME NEW n \in Nodes,
               \/ \E t \in Traffic : SendIP(n, t)
               \/ \E w \in Workers[n] : \/ TakeFast(n, w) \/ HandleFast(n, w) \/ FastPanics(n, w)
                                        \/ RelayFast(n, w) \/ EnqueueDeliver(n, w)
               \/ \E q \in Queues : Deliver(n, q)
               \/ Restart(n)
               \/ \E p \in Nodes : DirectoryDrops(n, p)
        PROVE  net' = net
    BY <1>7 DEF SendIP, TakeFast, HandleFast, FastPanics, RelayFast, EnqueueDeliver, Deliver,
       Restart, NewProcess, DirectoryDrops
  <1>8. CASE UNCHANGED vars
    BY <1>6, <1>8 DEF vars
  <1> QED
    BY <1>2, <1>3, <1>4, <1>5, <1>6, <1>7, <1>8 DEF Next

\* remember keeps no more than its cap.
LEMMA RememberBounded ==
    ASSUME KnownOK, NEW n \in Nodes, NEW id, Remember(n, id)
    PROVE  /\ DOMAIN seen' = Nodes
           /\ \A m \in Nodes : /\ seen'[m] \subseteq seen[m] \cup {id}
                               /\ IsFiniteSet(seen'[m]) /\ Cardinality(seen'[m]) <= SeenCap
  <1> DEFINE all == seen[n] \cup {id}
  <1>1. DOMAIN seen = Nodes /\ IsFiniteSet(seen[n]) /\ Cardinality(seen[n]) <= SeenCap
    BY DEF KnownOK
  <1>2. /\ IsFiniteSet(all) /\ Cardinality(all) \in Nat /\ Cardinality(seen[n]) \in Nat
        /\ Cardinality(all) <= Cardinality(seen[n]) + 1
    <2>1. /\ IsFiniteSet(all)
          /\ Cardinality(all) = IF id \in seen[n] THEN Cardinality(seen[n])
                                ELSE Cardinality(seen[n]) + 1
      BY <1>1, FS_AddElement
    <2>2. Cardinality(all) \in Nat /\ Cardinality(seen[n]) \in Nat
      BY <1>1, <2>1, FS_CardinalityType
    <2> QED
      BY <2>1, <2>2
  <1>3. SeenCap \in Nat
    BY DataPlaneConstants
  <1>4. PICK new : /\ seen' = [seen EXCEPT ![n] = new] /\ new \subseteq all
                   /\ IsFiniteSet(new) /\ Cardinality(new) <= SeenCap
    <2>1. CASE Cardinality(all) > SeenCap
      <3>1. PICK gone \in all : seen' = [seen EXCEPT ![n] = all \ {gone}]
        BY <2>1 DEF Remember
      <3>2. IsFiniteSet(all \ {gone}) /\ Cardinality(all \ {gone}) = Cardinality(all) - 1
        BY <1>2, FS_RemoveElement
      <3>3. Cardinality(all \ {gone}) <= SeenCap
        BY <1>1, <1>2, <1>3, <3>2
      <3> QED
        BY <3>1, <3>2, <3>3
    <2>2. CASE ~(Cardinality(all) > SeenCap)
      <3>1. seen' = [seen EXCEPT ![n] = all]
        BY <2>2 DEF Remember
      <3>2. Cardinality(all) <= SeenCap
        BY <1>2, <1>3, <2>2
      <3> QED
        BY <1>2, <3>1, <3>2
    <2> QED
      BY <2>1, <2>2
  <1>5. \A m \in Nodes : seen'[m] = IF m = n THEN new ELSE seen[m]
    BY <1>1, <1>4
  <1> QED
    BY <1>1, <1>4, <1>5 DEF KnownOK

\* What a new process starts with.
LEMMA NewProcessKnown ==
    ASSUME KnownOK, NEW n \in Nodes, NewProcess(n) PROVE KnownOK'
  <1>1. IsFiniteSet({}) /\ Cardinality({}) = 0 /\ 0 <= SeenCap
    BY FS_EmptySet, DataPlaneConstants
  <1>2. Ids' = Ids
    BY DEF NewProcess, Ids
  <1> QED
    BY <1>1, <1>2 DEF KnownOK, NewProcess, Addresses

\* What a worker holds, when it holds something.
LEMMA HoldsAFrame ==
    ASSUME WorkersOK, NEW n \in Nodes, NEW w \in Workers[n], worker[n][w].stage # "idle"
    PROVE  /\ worker[n][w] \in [stage : {"taken", "remembered"}, frame : Arriving(n)]
           /\ worker[n][w].frame \in Frames /\ Packet(worker[n][w].frame) \in sent
           /\ worker[n][w].frame.src \in Nodes /\ worker[n][w].frame.to = n
           /\ worker[n][w].frame.id \in Nat
  <1>1. worker[n][w] # Idle
    BY DEF Idle
  <1>2. worker[n][w] \in [stage : {"taken", "remembered"}, frame : Arriving(n)]
    BY <1>1 DEF WorkersOK, WorkerOK
  <1>3. worker[n][w].frame \in Arriving(n)
    BY <1>2
  <1> QED
    BY <1>2, <1>3 DEF Arriving, Frames

\* What a node knows of others.
LEMMA KnownStep ==
    ASSUME KnownOK, CountersOK, NetOK, WorkersOK, [Next]_vars PROVE KnownOK'
  <1>1. Ids \subseteq Ids'
    BY Grows
  <1>2. ASSUME NEW n \in Nodes, NEW f \in net, HandleDatagram(n, f) PROVE KnownOK'
    <2>1. UNCHANGED crypto
      BY <1>2 DEF HandleDatagram
    <2>2. CASE UNCHANGED control
      BY <1>1, <2>1, <2>2 DEF KnownOK, control, crypto, Addresses
    <2>3. CASE Remember(n, Decoded(f).id) /\ Learn(n, Decoded(f), f)
      <3>1. Decoded(f).id \in Ids
        BY DEF NetOK, Sound, Decoded
      <3>2. compact' \in [Nodes -> SUBSET Nodes]
        BY <2>3, DataPlaneConstants DEF Learn, KnownOK
      <3>3. \A m \in Nodes : seen'[m] \subseteq Ids'
        BY <1>1, <2>3, <3>1, RememberBounded DEF KnownOK
      <3> QED
        BY <2>1, <2>3, <3>2, <3>3, RememberBounded DEF KnownOK, crypto, Addresses
    <2> QED
      BY <1>2, <2>2, <2>3 DEF HandleDatagram
  <1>3. ASSUME NEW n \in Nodes, NEW t \in Traffic, SendIP(n, t) PROVE KnownOK'
    <2>1. t.dst \in Nodes /\ keys' = [keys EXCEPT ![n] = @ \cup {t.dst}]
      BY <1>3, DataPlaneConstants DEF SendIP
    <2>2. UNCHANGED <<control, dir, snap>>
      BY <1>3 DEF SendIP
    <2> QED
      BY <1>1, <2>1, <2>2 DEF KnownOK, control, Addresses
  <1>4. ASSUME NEW n \in Nodes, NEW w \in Workers[n], HandleFast(n, w) PROVE KnownOK'
    <2>1. worker[n][w].frame.src \in Nodes /\ UNCHANGED control
      BY <1>4, HoldsAFrame DEF HandleFast
    <2>2. CASE Cipher(n, worker[n][w].frame.src)
      BY <1>1, <2>1, <2>2 DEF Cipher, KnownOK, control, Addresses
    <2>3. CASE UNCHANGED crypto
      BY <1>1, <2>1, <2>3 DEF KnownOK, control, crypto, Addresses
    <2> QED
      BY <1>4, <2>2, <2>3 DEF HandleFast
  <1>5. ASSUME NEW n \in Nodes, Restart(n) \/ \E w \in Workers[n] : FastPanics(n, w)
        PROVE  KnownOK'
    BY <1>5, NewProcessKnown DEF Restart, FastPanics
  <1>6. ASSUME NEW n \in Nodes, NEW p \in Nodes, DirectoryDrops(n, p) PROVE KnownOK'
    BY <1>1, <1>6 DEF DirectoryDrops, KnownOK, control, Addresses
  <1>7. CASE UNCHANGED <<control, crypto>>
    BY <1>1, <1>7 DEF KnownOK, control, crypto, Addresses
  <1>8. ASSUME NEW n \in Nodes,
               \/ \E p \in Nodes : Hello(n, p) \/ Ping(n, p)
               \/ \E f \in net : EnqueueFast(n, f)
               \/ UDPSend(n)
               \/ \E w \in Workers[n] : TakeFast(n, w) \/ RelayFast(n, w) \/ EnqueueDeliver(n, w)
               \/ \E q \in Queues : Deliver(n, q)
        PROVE  UNCHANGED <<control, crypto>>
    BY <1>8 DEF Hello, Ping, EnqueueFast, UDPSend, TakeFast, RelayFast, EnqueueDeliver, Deliver
  <1>9. CASE UNCHANGED vars
    BY <1>7, <1>9 DEF vars
  <1> QED
    BY <1>2, <1>3, <1>4, <1>5, <1>6, <1>7, <1>8, <1>9 DEF Next

\* A frame joins a queue, or is dropped.
LEMMA EnqueuedTyped ==
    ASSUME NEW S, NEW q \in Seq(S), NEW x \in S, Len(q) <= QueueCap
    PROVE  Enqueued(q, x) \in Seq(S) /\ Len(Enqueued(q, x)) <= QueueCap
  <1>1. QueueCap \in Nat /\ Len(q) \in Nat
    BY DataPlaneConstants
  <1>2. CASE HasRoom(q)
    BY <1>1, <1>2, QueueEnds DEF Enqueued, HasRoom
  <1>3. CASE ~HasRoom(q)
    BY <1>3 DEF Enqueued
  <1> QED
    BY <1>2, <1>3

\* One queue changes, to something that fits; the others stay.
LEMMA QueuesChange ==
    ASSUME QueuesOK, CountersOK, [Next]_vars, NEW n \in Nodes, NEW u, NEW q,
           udpSendQueue' = [udpSendQueue EXCEPT ![n] = u] \/ udpSendQueue' = udpSendQueue,
           fastQueue' = [fastQueue EXCEPT ![n] = q] \/ fastQueue' = fastQueue,
           udpSendQueue' # udpSendQueue =>
             /\ u \in Seq([packet : sent', ttl : 0 .. DefaultTTL, address : Nodes])
             /\ Len(u) <= QueueCap,
           fastQueue' # fastQueue => q \in Seq(Arriving(n)) /\ Len(q) <= QueueCap
    PROVE  QueuesOK'
  <1> DEFINE Out == [packet : sent, ttl : 0 .. DefaultTTL, address : Nodes]
             OutNext == [packet : sent', ttl : 0 .. DefaultTTL, address : Nodes]
  <1>1. Out \subseteq OutNext
    BY Grows
  <1>2. ASSUME NEW m \in Nodes PROVE Arriving(m) \subseteq Arriving(m)'
    BY Grows DEF Arriving
  <1>3. ASSUME NEW m \in Nodes
        PROVE  udpSendQueue[m] \in Seq(OutNext) /\ Len(udpSendQueue[m]) <= QueueCap
    <2>1. udpSendQueue[m] \in Seq(Out) /\ Len(udpSendQueue[m]) <= QueueCap
      BY DEF QueuesOK
    <2> HIDE DEF Out, OutNext
    <2> QED
      BY <1>1, <2>1, QueueGrows
  <1>4. ASSUME NEW m \in Nodes
        PROVE  fastQueue[m] \in Seq(Arriving(m)') /\ Len(fastQueue[m]) <= QueueCap
    <2>1. fastQueue[m] \in Seq(Arriving(m)) /\ Len(fastQueue[m]) <= QueueCap
      BY DEF QueuesOK
    <2> QED
      BY <1>2, <2>1, QueueGrows
  <1>5. fastQueue' # fastQueue => q \in Seq(Arriving(n)') /\ Len(q) <= QueueCap
    BY <1>2, QueueGrows
  <1>6. DOMAIN udpSendQueue' = Nodes /\ DOMAIN fastQueue' = Nodes
    BY DEF QueuesOK
  <1>7. ASSUME NEW m \in Nodes
        PROVE  udpSendQueue'[m] \in Seq(OutNext) /\ Len(udpSendQueue'[m]) <= QueueCap
    <2> HIDE DEF Out, OutNext
    <2>1. udpSendQueue'[m] = udpSendQueue[m]
          \/ (udpSendQueue' # udpSendQueue /\ udpSendQueue'[m] = u)
      BY DEF QueuesOK
    <2> QED
      BY <1>3, <2>1 DEF OutNext
  <1>8. ASSUME NEW m \in Nodes
        PROVE  fastQueue'[m] \in Seq(Arriving(m)') /\ Len(fastQueue'[m]) <= QueueCap
    <2>1. fastQueue'[m] = fastQueue[m]
          \/ (m = n /\ fastQueue' # fastQueue /\ fastQueue'[m] = q)
      BY DEF QueuesOK
    <2> QED
      BY <1>4, <1>5, <2>1
  <1> QED
    BY <1>6, <1>7, <1>8 DEF QueuesOK

\* The queues between the sockets, the workers and the sender.
LEMMA QueuesStep ==
    ASSUME IInv, QueuesOK, CountersOK, NetOK, WorkersOK, [Next]_vars PROVE QueuesOK'
  <1> DEFINE Out == [packet : sent, ttl : 0 .. DefaultTTL, address : Nodes]
             OutNext == [packet : sent', ttl : 0 .. DefaultTTL, address : Nodes]
  <1>0. Out \subseteq OutNext /\ QueueCap \in Nat /\ DefaultTTL \in Nat \ {0}
    BY Grows, DataPlaneConstants
  <1>1. ASSUME NEW n \in Nodes
        PROVE  /\ udpSendQueue[n] \in Seq(Out) /\ Len(udpSendQueue[n]) <= QueueCap
               /\ fastQueue[n] \in Seq(Arriving(n)) /\ Len(fastQueue[n]) <= QueueCap
    BY DEF QueuesOK
  <1>2. ASSUME NEW n \in Nodes, NEW d \in Nodes, NEW h \in Hops[n][d], path[n][h] # Nothing
        PROVE  path[n][h] \in Nodes
    <2>1. h \in Nodes
      BY DataPlaneConstants
    <2> QED
      BY <1>2, <2>1 DEF IInv, PathsOK
  <1>3. ASSUME NEW n \in Nodes, NEW t \in Traffic, SendIP(n, t) PROVE QueuesOK'
    <2> DEFINE p == [id |-> next, src |-> n, dst |-> t.dst, flow |-> t.flow]
    <2>1. fastQueue' = fastQueue /\ p \in sent' /\ t.dst \in Nodes
      BY <1>3, DataPlaneConstants DEF SendIP
    <2>2. CASE udpSendQueue' = udpSendQueue
      BY <2>1, <2>2, QueuesChange
    <2>3. ASSUME NEW h \in Hops[n][t.dst], path[n][h] # Nothing,
                 udpSendQueue' = [udpSendQueue EXCEPT ![n] =
                    Append(@, [packet |-> p, ttl |-> DefaultTTL, address |-> path[n][h]])]
          PROVE  QueuesOK'
      <3> DEFINE o == [packet |-> p, ttl |-> DefaultTTL, address |-> path[n][h]]
                 u == Append(udpSendQueue[n], o)
      <3>1. o \in OutNext
        BY <1>0, <1>2, <2>1, <2>3
      <3>2. Len(udpSendQueue[n]) < QueueCap
        BY <1>3 DEF SendIP, HasRoom
      <3>3. udpSendQueue' = [udpSendQueue EXCEPT ![n] = u]
        BY <2>3
      <3> HIDE DEF o, Out, OutNext
      <3>4. udpSendQueue[n] \in Seq(OutNext)
        BY <1>0, <1>1, QueueGrows
      <3>5. u \in Seq(OutNext) /\ Len(u) = Len(udpSendQueue[n]) + 1 /\ Len(udpSendQueue[n]) \in Nat
        BY <3>1, <3>4, QueueEnds
      <3>6. Len(u) <= QueueCap
        BY <1>0, <3>2, <3>5
      <3> HIDE DEF u
      <3> QED
        BY <2>1, <3>3, <3>5, <3>6, QueuesChange DEF OutNext
    <2> QED
      BY <1>3, <2>2, <2>3 DEF SendIP
  <1>4. ASSUME NEW n \in Nodes, UDPSend(n) PROVE QueuesOK'
    <2> DEFINE u == Tail(udpSendQueue[n])
    <2>1. /\ udpSendQueue[n] # <<>> /\ udpSendQueue' = [udpSendQueue EXCEPT ![n] = u]
          /\ fastQueue' = fastQueue
      BY <1>4 DEF UDPSend
    <2> HIDE DEF Out, OutNext
    <2>2. u \in Seq(Out) /\ Len(u) = Len(udpSendQueue[n]) - 1 /\ Len(udpSendQueue[n]) \in Nat
      BY <1>1, <2>1, QueueEnds
    <2>3. u \in Seq(OutNext) /\ Len(u) <= QueueCap
      BY <1>0, <1>1, <2>2, QueueGrows
    <2> HIDE DEF u
    <2> QED
      BY <2>1, <2>3, QueuesChange DEF OutNext
  <1>5. ASSUME NEW n \in Nodes, NEW f \in net, EnqueueFast(n, f) PROVE QueuesOK'
    <2> DEFINE q == Enqueued(fastQueue[n], f)
    <2>1. /\ f.to = n /\ f.type = "FAST" /\ fastQueue' = [fastQueue EXCEPT ![n] = q]
          /\ udpSendQueue' = udpSendQueue
      BY <1>5 DEF EnqueueFast
    <2>2. f \in Arriving(n)
      BY <2>1 DEF NetOK, Sound, Arriving
    <2>3. q \in Seq(Arriving(n)) /\ Len(q) <= QueueCap
      BY <1>1, <2>2, EnqueuedTyped
    <2> HIDE DEF q
    <2> QED
      BY <2>1, <2>3, QueuesChange
  <1>6. ASSUME NEW n \in Nodes, NEW w \in Workers[n], TakeFast(n, w) PROVE QueuesOK'
    <2> DEFINE q == Tail(fastQueue[n])
    <2>1. /\ fastQueue[n] # <<>> /\ fastQueue' = [fastQueue EXCEPT ![n] = q]
          /\ udpSendQueue' = udpSendQueue
      BY <1>6 DEF TakeFast
    <2>2. q \in Seq(Arriving(n)) /\ Len(q) = Len(fastQueue[n]) - 1 /\ Len(fastQueue[n]) \in Nat
      BY <1>1, <2>1, QueueEnds
    <2>3. Len(q) <= QueueCap
      BY <1>0, <1>1, <2>2
    <2> HIDE DEF q
    <2> QED
      BY <2>1, <2>2, <2>3, QueuesChange
  <1>7. ASSUME NEW n \in Nodes, NEW w \in Workers[n], RelayFast(n, w) PROVE QueuesOK'
    <2> DEFINE f == worker[n][w].frame
    <2>1. worker[n][w].stage = "remembered" /\ f.dst # n /\ fastQueue' = fastQueue
      BY <1>7 DEF RelayFast
    <2>2. f \in Frames /\ Packet(f) \in sent
      BY <2>1, HoldsAFrame
    <2>3. f.ttl > 1 /\ f.ttl \in 0 .. DefaultTTL /\ f.dst \in Nodes
      BY <2>1, <2>2 DEF WorkersOK, WorkerOK, Idle, Frames
    <2>4. CASE udpSendQueue' = udpSendQueue
      BY <2>1, <2>4, QueuesChange
    <2>5. ASSUME NEW h \in Hops[n][f.dst], path[n][h] # Nothing,
                 udpSendQueue' = [udpSendQueue EXCEPT ![n] =
                   Enqueued(@, [packet |-> Packet(f), ttl |-> f.ttl - 1, address |-> path[n][h]])]
          PROVE  QueuesOK'
      <3> DEFINE o == [packet |-> Packet(f), ttl |-> f.ttl - 1, address |-> path[n][h]]
                 u == Enqueued(udpSendQueue[n], o)
      <3>1. f.ttl - 1 \in 0 .. DefaultTTL
        BY <1>0, <2>3
      <3>2. path[n][h] \in Nodes
        BY <1>2, <2>3, <2>5
      <3>3. o \in OutNext
        BY <1>0, <2>2, <3>1, <3>2
      <3>4. udpSendQueue' = [udpSendQueue EXCEPT ![n] = u]
        BY <2>5
      <3> HIDE DEF o, Out, OutNext
      <3>5. udpSendQueue[n] \in Seq(OutNext) /\ Len(udpSendQueue[n]) <= QueueCap
        BY <1>0, <1>1, QueueGrows
      <3>6. u \in Seq(OutNext) /\ Len(u) <= QueueCap
        BY <3>3, <3>5, EnqueuedTyped
      <3> HIDE DEF u
      <3> QED
        BY <2>1, <3>4, <3>6, QueuesChange DEF OutNext
    <2> QED
      BY <1>7, <2>4, <2>5 DEF RelayFast
  <1>8. ASSUME NEW n \in Nodes, Restart(n) \/ \E w \in Workers[n] : FastPanics(n, w)
        PROVE  QueuesOK'
    <2>1. udpSendQueue' = [udpSendQueue EXCEPT ![n] = <<>>] /\ fastQueue' = [fastQueue EXCEPT ![n] = <<>>]
      BY <1>8 DEF Restart, FastPanics, NewProcess
    <2>2. <<>> \in Seq(OutNext) /\ <<>> \in Seq(Arriving(n)) /\ Len(<<>>) <= QueueCap
      BY <1>0
    <2> QED
      BY <2>1, <2>2, QueuesChange
  <1>9. ASSUME NEW n \in Nodes,
               \/ \E p \in Nodes : Hello(n, p) \/ Ping(n, p)
               \/ \E f \in net : HandleDatagram(n, f)
               \/ \E w \in Workers[n] : HandleFast(n, w) \/ EnqueueDeliver(n, w)
               \/ \E q \in Queues : Deliver(n, q)
               \/ \E p \in Nodes : DirectoryDrops(n, p)
        PROVE  QueuesOK'
    <2>1. udpSendQueue' = udpSendQueue /\ fastQueue' = fastQueue
      BY <1>9 DEF Hello, Ping, HandleDatagram, HandleFast, EnqueueDeliver, Deliver, DirectoryDrops,
         queues
    <2> QED
      BY <2>1, QueuesChange
  <1>10. CASE UNCHANGED vars
    BY <1>10 DEF vars, queues, QueuesOK, Arriving
  <1> QED
    BY <1>3, <1>4, <1>5, <1>6, <1>7, <1>8, <1>9, <1>10 DEF Next

\* What a worker may hold it may hold after the step.
LEMMA WorkerKeeps ==
    ASSUME CountersOK, [Next]_vars, NEW n \in Nodes, NEW x, WorkerOK(n, x) PROVE WorkerOK(n, x)'
  <1>1. Arriving(n) \subseteq Arriving(n)'
    BY Grows DEF Arriving
  <1> QED
    BY <1>1 DEF WorkerOK

\* The frames that workers hold.
LEMMA WorkersStep ==
    ASSUME WorkersOK, CountersOK, QueuesOK, [Next]_vars PROVE WorkersOK'
  <1>1. ASSUME NEW n \in Nodes, NEW w \in Workers[n], NEW x, WorkerOK(n, x),
               worker' = [worker EXCEPT ![n][w] = x]
        PROVE  WorkersOK'
    <2>1. \A m \in Nodes : DOMAIN worker'[m] = Workers[m]
      BY <1>1 DEF WorkersOK
    <2>2. ASSUME NEW m \in Nodes, NEW v \in Workers[m] PROVE WorkerOK(m, worker[m][v])'
      <3>1. PICK y : y = worker'[m][v]
        OBVIOUS
      <3>2. WorkerOK(m, y)
        BY <1>1, <3>1 DEF WorkersOK
      <3>3. WorkerOK(m, y)'
        BY <3>2, WorkerKeeps
      <3> QED
        BY <3>1, <3>3 DEF WorkerOK
    <2> QED
      BY <1>1, <2>1, <2>2 DEF WorkersOK
  <1>2. \A n \in Nodes : WorkerOK(n, Idle)
    BY DEF WorkerOK
  <1>3. ASSUME NEW n \in Nodes, NEW w \in Workers[n], TakeFast(n, w) PROVE WorkersOK'
    <2> DEFINE x == [stage |-> "taken", frame |-> Head(fastQueue[n])]
    <2>1. worker' = [worker EXCEPT ![n][w] = x] /\ fastQueue[n] # <<>>
      BY <1>3 DEF TakeFast
    <2>2. Head(fastQueue[n]) \in Arriving(n)
      BY <2>1, QueueEnds DEF QueuesOK
    <2>3. WorkerOK(n, x)
      BY <2>2 DEF WorkerOK
    <2> HIDE DEF x
    <2> QED
      BY <1>1, <2>1, <2>3
  <1>4. ASSUME NEW n \in Nodes, NEW w \in Workers[n], HandleFast(n, w) PROVE WorkersOK'
    <2> DEFINE f == worker[n][w].frame
    <2>1. worker[n][w] \in [stage : {"taken", "remembered"}, frame : Arriving(n)]
      BY <1>4, HoldsAFrame DEF HandleFast
    <2>2. CASE worker' = [worker EXCEPT ![n][w] = Idle]
      BY <1>1, <1>2, <2>2
    <2>3. CASE /\ worker' = [worker EXCEPT ![n][w].stage = "remembered"]
               /\ f.dst = n \/ f.ttl > 1
      <3> DEFINE x == [worker[n][w] EXCEPT !.stage = "remembered"]
      <3>1. worker' = [worker EXCEPT ![n][w] = x]
        BY <2>3
      <3>2. x \in [stage : {"taken", "remembered"}, frame : Arriving(n)] /\ x.frame = f
        BY <2>1
      <3>3. WorkerOK(n, x)
        BY <2>3, <3>2 DEF WorkerOK
      <3> HIDE DEF x
      <3> QED
        BY <1>1, <3>1, <3>3
    <2> QED
      BY <1>4, <2>2, <2>3 DEF HandleFast
  <1>5. ASSUME NEW n \in Nodes, NEW w \in Workers[n], RelayFast(n, w) \/ EnqueueDeliver(n, w)
        PROVE  WorkersOK'
    BY <1>1, <1>2, <1>5 DEF RelayFast, EnqueueDeliver
  <1>6. CASE worker' = worker
    <2>1. ASSUME NEW m \in Nodes, NEW v \in Workers[m] PROVE WorkerOK(m, worker[m][v])'
      <3>1. PICK y : y = worker[m][v]
        OBVIOUS
      <3>2. WorkerOK(m, y)'
        BY <3>1, WorkerKeeps DEF WorkersOK
      <3> QED
        BY <1>6, <3>1, <3>2 DEF WorkerOK
    <2> QED
      BY <1>6, <2>1 DEF WorkersOK
  <1>7. ASSUME NEW n \in Nodes, Restart(n) \/ \E w \in Workers[n] : FastPanics(n, w)
        PROVE  WorkersOK'
    <2>1. worker' = [worker EXCEPT ![n] = [w \in Workers[n] |-> Idle]] /\ sent' = sent
      BY <1>7 DEF Restart, FastPanics, NewProcess
    <2> QED
      BY <2>1 DEF WorkersOK, WorkerOK, Arriving
  <1>8. ASSUME NEW n \in Nodes,
               \/ \E p \in Nodes : Hello(n, p) \/ Ping(n, p)
               \/ \E f \in net : HandleDatagram(n, f) \/ EnqueueFast(n, f)
               \/ \E t \in Traffic : SendIP(n, t)
               \/ UDPSend(n)
               \/ \E q \in Queues : Deliver(n, q)
               \/ \E p \in Nodes : DirectoryDrops(n, p)
        PROVE  worker' = worker
    BY <1>8 DEF Hello, Ping, HandleDatagram, EnqueueFast, SendIP, UDPSend, Deliver, DirectoryDrops,
       queues
  <1>9. CASE UNCHANGED vars
    BY <1>6, <1>9 DEF vars, queues
  <1> QED
    BY <1>3, <1>4, <1>5, <1>6, <1>7, <1>8, <1>9 DEF Next

\* The TUN queues: every packet waits on the queue of its flow, at its
\* destination.
LEMMA DeliverStep ==
    ASSUME DeliverOK, WorkersOK, CountersOK, [Next]_vars PROVE DeliverOK'
  <1>1. ASSUME NEW n \in Nodes, NEW q \in Queues
        PROVE  /\ deliverQueues[n][q] \in Seq(Waiting(n, q)) /\ Waiting(n, q) \subseteq Waiting(n, q)'
               /\ deliverQueues[n][q] \in Seq(Waiting(n, q)')
               /\ Len(deliverQueues[n][q]) <= QueueCap /\ Len(deliverQueues[n][q]) \in Nat
    <2>1. deliverQueues[n][q] \in Seq(Waiting(n, q)) /\ Len(deliverQueues[n][q]) <= QueueCap
      BY DEF DeliverOK
    <2>2. Waiting(n, q) \subseteq Waiting(n, q)'
      BY Grows DEF Waiting
    <2> QED
      BY <2>1, <2>2, QueueGrows
  <1>2. QueueCap \in Nat
    BY DataPlaneConstants
  <1>3. ASSUME NEW n \in Nodes, NEW q \in Queues, NEW s \in Seq(Waiting(n, q)), Len(s) <= QueueCap,
               deliverQueues' = [deliverQueues EXCEPT ![n][q] = s]
        PROVE  DeliverOK'
    <2>1. s \in Seq(Waiting(n, q)')
      BY <1>1, QueueGrows
    <2>2. DOMAIN deliverQueues' = Nodes /\ \A m \in Nodes : DOMAIN deliverQueues'[m] = Queues
      BY <1>3 DEF DeliverOK
    <2>3. ASSUME NEW m \in Nodes, NEW r \in Queues
          PROVE  /\ deliverQueues'[m][r] \in Seq(Waiting(m, r)')
                 /\ Len(deliverQueues'[m][r]) <= QueueCap
      <3>1. deliverQueues'[m][r] = IF m = n /\ r = q THEN s ELSE deliverQueues[m][r]
        BY <1>3 DEF DeliverOK
      <3> QED
        BY <1>1, <1>3, <2>1, <3>1
    <2> QED
      BY <2>2, <2>3 DEF DeliverOK
  <1>4. ASSUME NEW n \in Nodes, NEW w \in Workers[n], EnqueueDeliver(n, w) PROVE DeliverOK'
    <2> DEFINE f == worker[n][w].frame
               q == QueueOf[f.flow]
               s == Enqueued(deliverQueues[n][q], Packet(f))
    <2>1. worker[n][w].stage = "remembered" /\ f.dst = n
          /\ deliverQueues' = [deliverQueues EXCEPT ![n][q] = s]
      BY <1>4 DEF EnqueueDeliver
    <2>2. f \in Frames /\ Packet(f) \in sent
      BY <2>1, HoldsAFrame
    <2>3. q \in Queues
      BY <2>2, DataPlaneConstants DEF Frames
    <2>4. Packet(f) \in Waiting(n, q)
      BY <2>1, <2>2 DEF Waiting, Packet
    <2>5. s \in Seq(Waiting(n, q)) /\ Len(s) <= QueueCap
      BY <1>1, <2>3, <2>4, EnqueuedTyped
    <2> HIDE DEF s, q
    <2> QED
      BY <1>3, <2>1, <2>3, <2>5
  <1>5. ASSUME NEW n \in Nodes, NEW q \in Queues, Deliver(n, q) PROVE DeliverOK'
    <2> DEFINE s == Tail(deliverQueues[n][q])
    <2>1. deliverQueues[n][q] # <<>> /\ deliverQueues' = [deliverQueues EXCEPT ![n][q] = s]
      BY <1>5 DEF Deliver
    <2>2. s \in Seq(Waiting(n, q)) /\ Len(s) = Len(deliverQueues[n][q]) - 1
      BY <1>1, <2>1, QueueEnds
    <2>3. Len(s) <= QueueCap
      BY <1>1, <1>2, <2>2
    <2> HIDE DEF s
    <2> QED
      BY <1>3, <2>1, <2>2, <2>3
  <1>6. ASSUME NEW n \in Nodes, Restart(n) \/ \E w \in Workers[n] : FastPanics(n, w)
        PROVE  DeliverOK'
    <2>1. deliverQueues' = [deliverQueues EXCEPT ![n] = [q \in Queues |-> <<>>]]
      BY <1>6 DEF Restart, FastPanics, NewProcess
    <2>2. DOMAIN deliverQueues' = Nodes /\ \A m \in Nodes : DOMAIN deliverQueues'[m] = Queues
      BY <2>1 DEF DeliverOK
    <2>3. ASSUME NEW m \in Nodes, NEW r \in Queues
          PROVE  /\ deliverQueues'[m][r] \in Seq(Waiting(m, r)')
                 /\ Len(deliverQueues'[m][r]) <= QueueCap
      <3>1. deliverQueues'[m][r] = IF m = n THEN <<>> ELSE deliverQueues[m][r]
        BY <2>1 DEF DeliverOK
      <3>2. <<>> \in Seq(Waiting(m, r)') /\ Len(<<>>) = 0
        OBVIOUS
      <3> QED
        BY <1>1, <1>2, <3>1, <3>2
    <2> QED
      BY <2>2, <2>3 DEF DeliverOK
  <1>7. CASE deliverQueues' = deliverQueues
    BY <1>1, <1>7 DEF DeliverOK
  <1>8. ASSUME NEW n \in Nodes,
               \/ \E p \in Nodes : Hello(n, p) \/ Ping(n, p)
               \/ \E f \in net : HandleDatagram(n, f) \/ EnqueueFast(n, f)
               \/ \E t \in Traffic : SendIP(n, t)
               \/ UDPSend(n)
               \/ \E w \in Workers[n] : TakeFast(n, w) \/ HandleFast(n, w) \/ RelayFast(n, w)
               \/ \E p \in Nodes : DirectoryDrops(n, p)
        PROVE  deliverQueues' = deliverQueues
    BY <1>8 DEF Hello, Ping, HandleDatagram, EnqueueFast, SendIP, UDPSend, TakeFast, HandleFast,
       RelayFast, DirectoryDrops, queues
  <1>9. CASE UNCHANGED vars
    BY <1>7, <1>9 DEF vars, queues
  <1> QED
    BY <1>4, <1>5, <1>6, <1>7, <1>8, <1>9 DEF Next

-----------------------------------------------------------------------------
(* Duplicate suppression. *)

\* The ring of a shard, its next slot and its set after rememberFast.
RingAfter(r, at, id) == IF Len(r) >= RingCap THEN [r EXCEPT ![at + 1] = id] ELSE Append(r, id)
SlotAfter(r, at) == IF Len(r) >= RingCap THEN (at + 1) % RingCap ELSE at
IdsAfter(r, at, ids, id) ==
    IF Len(r) >= RingCap THEN (ids \ {r[at + 1]}) \cup {id} ELSE ids \cup {id}

\* The ids of a ring.
LEMMA RangeOfRing ==
    ASSUME NEW r \in Seq(Nat) PROVE \A x : x \in Range(r) <=> \E i \in 1 .. Len(r) : r[i] = x
  BY DEF Range

\* What a ring and its slot are.
LEMMA RingTyped ==
    ASSUME NEW r, NEW at, NEW ids, RingOK(r, at, ids) PROVE r \in Seq(Nat) /\ at \in Nat
  BY DataPlaneConstants DEF RingOK

\* The next slot comes after the last one, or is the first.
LEMMA SlotAfterFull ==
    ASSUME NEW r \in Seq(Nat), NEW at \in 0 .. RingCap - 1, Len(r) >= RingCap
    PROVE  SlotAfter(r, at) = IF at + 1 = RingCap THEN 0 ELSE at + 1
  <1>1. RingCap \in Nat \ {0}
    BY DataPlaneConstants
  <1>2. CASE at + 1 = RingCap
    <2>1. RingCap % RingCap = 0
      BY <1>1
    <2> QED
      BY <1>2, <2>1 DEF SlotAfter
  <1>3. CASE at + 1 # RingCap
    <2>1. at + 1 \in 0 .. RingCap - 1
      BY <1>1, <1>3
    <2>2. (at + 1) % RingCap = at + 1
      BY <1>1, <2>1
    <2> QED
      BY <1>3, <2>2 DEF SlotAfter
  <1> QED
    BY <1>2, <1>3

\* rememberFast replaces the id at the slot of a full ring ...
LEMMA RingFull ==
    ASSUME NEW r, NEW at, NEW ids, RingOK(r, at, ids), NEW id \in Nat, Len(r) >= RingCap
    PROVE  /\ RingAfter(r, at, id) \in Seq(Nat) /\ Len(RingAfter(r, at, id)) = Len(r)
           /\ Len(r) = RingCap /\ at + 1 \in 1 .. Len(r)
           /\ \A j \in 1 .. Len(r) : RingAfter(r, at, id)[j] = IF j = at + 1 THEN id ELSE r[j]
  <1>1. /\ r \in Seq(Nat) /\ Len(r) \in Nat /\ Len(r) <= RingCap
        /\ at \in 0 .. RingCap - 1 /\ RingCap \in Nat \ {0}
    BY DataPlaneConstants DEF RingOK
  <1>2. Len(r) = RingCap /\ at + 1 \in 1 .. Len(r)
    BY <1>1
  <1>3. RingAfter(r, at, id) = [r EXCEPT ![at + 1] = id]
    BY DEF RingAfter
  <1>4. /\ [r EXCEPT ![at + 1] = id] \in Seq(Nat) /\ Len([r EXCEPT ![at + 1] = id]) = Len(r)
        /\ \A j \in 1 .. Len(r) : [r EXCEPT ![at + 1] = id][j] = IF j = at + 1 THEN id ELSE r[j]
    BY <1>1, <1>2
  <1> QED
    BY <1>2, <1>3, <1>4

\* ... and appends to one that has room.
LEMMA RingGrows ==
    ASSUME NEW r, NEW at, NEW ids, RingOK(r, at, ids), NEW id \in Nat, ~(Len(r) >= RingCap)
    PROVE  /\ RingAfter(r, at, id) \in Seq(Nat) /\ Len(RingAfter(r, at, id)) = Len(r) + 1
           /\ Len(r) < RingCap /\ at = 0 /\ SlotAfter(r, at) = 0
           /\ \A j \in 1 .. Len(r) + 1 : RingAfter(r, at, id)[j] = IF j = Len(r) + 1 THEN id ELSE r[j]
  <1>1. r \in Seq(Nat) /\ Len(r) \in Nat /\ RingCap \in Nat \ {0}
    BY DataPlaneConstants DEF RingOK
  <1>2. Len(r) < RingCap /\ at = 0
    BY <1>1 DEF RingOK
  <1>3. RingAfter(r, at, id) = Append(r, id) /\ SlotAfter(r, at) = 0
    BY <1>2 DEF RingAfter, SlotAfter
  <1>4. /\ Append(r, id) \in Seq(Nat) /\ Len(Append(r, id)) = Len(r) + 1
        /\ \A j \in 1 .. Len(r) + 1 : Append(r, id)[j] = IF j = Len(r) + 1 THEN id ELSE r[j]
    BY <1>1
  <1> QED
    BY <1>2, <1>3, <1>4

\* The ring and the set of a shard go on agreeing.
LEMMA RingKeeps ==
    ASSUME NEW r, NEW at, NEW ids, RingOK(r, at, ids), NEW id \in Nat, id \notin ids
    PROVE  RingOK(RingAfter(r, at, id), SlotAfter(r, at), IdsAfter(r, at, ids, id))
  <1> DEFINE r2 == RingAfter(r, at, id)
             at2 == SlotAfter(r, at)
             ids2 == IdsAfter(r, at, ids, id)
  <1>1. /\ r \in Seq(Nat) /\ Len(r) \in Nat /\ Len(r) <= RingCap
        /\ at \in 0 .. RingCap - 1 /\ RingCap \in Nat \ {0}
    BY DataPlaneConstants DEF RingOK
  <1>2. /\ \A x : x \in ids <=> \E i \in 1 .. Len(r) : r[i] = x
        /\ \A i, j \in 1 .. Len(r) : r[i] = r[j] => i = j
    BY <1>1, RangeOfRing DEF RingOK
  <1>3. CASE Len(r) >= RingCap
    <2>1. /\ r2 \in Seq(Nat) /\ Len(r2) = Len(r) /\ Len(r) = RingCap /\ at + 1 \in 1 .. Len(r)
          /\ \A j \in 1 .. Len(r) : r2[j] = IF j = at + 1 THEN id ELSE r[j]
      BY <1>3, RingFull
    <2>2. at2 \in 0 .. RingCap - 1
      BY <1>1, <1>3, SlotAfterFull
    <2>3. ids2 = (ids \ {r[at + 1]}) \cup {id}
      BY <1>3 DEF IdsAfter
    <2> HIDE DEF r2, at2, ids2
    <2>4. \A x : x \in ids2 <=> \E i \in 1 .. Len(r2) : r2[i] = x
      BY <1>2, <2>1, <2>3
    <2>5. ids2 = Range(r2)
      BY <2>1, <2>4, RangeOfRing
    <2>6. \A i, j \in 1 .. Len(r2) : r2[i] = r2[j] => i = j
      BY <1>2, <2>1
    <2>7. Len(r2) <= RingCap /\ ~(Len(r2) < RingCap)
      BY <1>1, <2>1
    <2>8. RingOK(r2, at2, ids2)
      BY <2>1, <2>2, <2>5, <2>6, <2>7 DEF RingOK
    <2> QED
      BY <2>8 DEF r2, at2, ids2
  <1>4. CASE ~(Len(r) >= RingCap)
    <2>1. /\ r2 \in Seq(Nat) /\ Len(r2) = Len(r) + 1 /\ Len(r) < RingCap /\ at2 = 0
          /\ \A j \in 1 .. Len(r) + 1 : r2[j] = IF j = Len(r) + 1 THEN id ELSE r[j]
      BY <1>4, RingGrows
    <2>2. ids2 = ids \cup {id}
      BY <1>4 DEF IdsAfter
    <2> HIDE DEF r2, at2, ids2
    <2>3. ASSUME NEW x PROVE x \in ids2 <=> \E i \in 1 .. Len(r2) : r2[i] = x
      <3>1. ASSUME x \in ids PROVE \E i \in 1 .. Len(r2) : r2[i] = x
        <4>1. PICK i \in 1 .. Len(r) : r[i] = x
          BY <1>2, <3>1
        <4>2. i \in 1 .. Len(r2) /\ i # Len(r) + 1 /\ i \in 1 .. Len(r) + 1
          BY <1>1, <2>1
        <4> QED
          BY <2>1, <4>1, <4>2
      <3>2. Len(r) + 1 \in 1 .. Len(r2) /\ r2[Len(r) + 1] = id
        BY <1>1, <2>1
      <3>3. ASSUME NEW i \in 1 .. Len(r2), r2[i] = x PROVE x \in ids2
        <4>1. i = Len(r) + 1 \/ i \in 1 .. Len(r)
          BY <1>1, <2>1
        <4> QED
          BY <1>1, <1>2, <2>1, <2>2, <3>2, <3>3, <4>1
      <3> QED
        BY <2>2, <3>1, <3>2, <3>3
    <2>4. ids2 = Range(r2)
      BY <2>1, <2>3, RangeOfRing
    <2>5. ASSUME NEW i \in 1 .. Len(r2), NEW j \in 1 .. Len(r2), r2[i] = r2[j] PROVE i = j
      <3>1. (i = Len(r) + 1 \/ i \in 1 .. Len(r)) /\ (j = Len(r) + 1 \/ j \in 1 .. Len(r))
        BY <1>1, <2>1
      <3>2. \A k \in 1 .. Len(r) : r2[k] = r[k] /\ r[k] # id
        BY <1>1, <1>2, <2>1
      <3>3. r2[Len(r) + 1] = id
        BY <1>1, <2>1
      <3> QED
        BY <1>2, <2>5, <3>1, <3>2, <3>3
    <2>6. Len(r2) <= RingCap /\ at2 \in 0 .. RingCap - 1
      BY <1>1, <2>1
    <2>7. RingOK(r2, at2, ids2)
      BY <2>1, <2>4, <2>5, <2>6 DEF RingOK
    <2> QED
      BY <2>7 DEF r2, at2, ids2
  <1> QED
    BY <1>3, <1>4

\* An id that rememberFast adds or leaves in the ring, or that makes room, has
\* the age that Aged asks for.
LEMMA AgedInShard ==
    ASSUME NEW r, NEW at, NEW ids, RingOK(r, at, ids), NEW id \in Nat, id \notin ids,
           NEW l \in Seq(Nat), NEW i \in 1 .. Len(l) + 1,
           i \in 1 .. Len(l) => Aged(l, r, at, i)
    PROVE  Aged(Append(l, id), RingAfter(r, at, id), SlotAfter(r, at), i)
  <1> DEFINE r2 == RingAfter(r, at, id)
             at2 == SlotAfter(r, at)
             l2 == Append(l, id)
  <1>1. /\ r \in Seq(Nat) /\ Len(r) \in Nat /\ Len(r) <= RingCap
        /\ at \in 0 .. RingCap - 1 /\ RingCap \in Nat \ {0} /\ Len(l) \in Nat
    BY DataPlaneConstants DEF RingOK
  <1>2. /\ \A x : x \in Range(r) <=> \E j \in 1 .. Len(r) : r[j] = x
        /\ \A j, k \in 1 .. Len(r) : r[j] = r[k] => j = k
        /\ \A j \in 1 .. Len(r) : r[j] # id
    BY <1>1, RangeOfRing DEF RingOK
  <1>3. /\ Len(l2) = Len(l) + 1 /\ \A k \in 1 .. Len(l) : l2[k] = l[k]
        /\ l2[Len(l) + 1] = id
    OBVIOUS
  <1>4. i = Len(l) + 1 \/ i \in 1 .. Len(l)
    BY <1>1
  <1> HIDE DEF l2
  <1>5. CASE Len(r) >= RingCap
    <2>1. /\ r2 \in Seq(Nat) /\ Len(r2) = Len(r) /\ Len(r) = RingCap /\ at + 1 \in 1 .. Len(r)
          /\ \A j \in 1 .. Len(r) : r2[j] = IF j = at + 1 THEN id ELSE r[j]
      BY <1>5, RingFull
    <2>2. at2 = IF at + 1 = RingCap THEN 0 ELSE at + 1
      BY <1>1, <1>5, SlotAfterFull
    <2> HIDE DEF r2, at2
    <2>3. \A x : x \in Range(r2) <=> \E j \in 1 .. Len(r2) : r2[j] = x
      BY <2>1, RangeOfRing
    <2>4. Older(at + 1, at2) = RingCap - 1 /\ Older(at + 1, at) = 0
      BY <1>1, <2>2 DEF Older
    <2>5. ASSUME NEW j \in 1 .. Len(r), j # at + 1
          PROVE  Older(j, at2) = Older(j, at) - 1 /\ Older(j, at) \in Int
      BY <1>1, <2>1, <2>2, <2>5 DEF Older
    <2>6. ASSUME l2[i] \notin Range(r2) PROVE i + RingCap <= Len(l2)
      <3>1. l2[i] # id
        BY <2>1, <2>3, <2>6
      <3>2. i \in 1 .. Len(l) /\ l2[i] = l[i] /\ Aged(l, r, at, i)
        BY <1>3, <1>4, <3>1
      <3>3. CASE l[i] \notin Range(r)
        BY <1>1, <1>3, <3>2, <3>3 DEF Aged
      <3>4. CASE l[i] \in Range(r)
        <4>1. PICK j \in 1 .. Len(r) : r[j] = l[i]
          BY <1>2, <3>4
        <4>2. j = at + 1
          BY <2>1, <2>3, <2>6, <3>2, <4>1
        <4>3. i + (RingCap - 1 - 0) <= Len(l)
          BY <2>1, <2>4, <3>2, <4>1, <4>2 DEF Aged
        <4> QED
          BY <1>1, <1>3, <4>3
      <3> QED
        BY <3>3, <3>4
    <2>7. ASSUME NEW j \in 1 .. Len(r2), r2[j] = l2[i]
          PROVE  i + (Len(r2) - 1 - Older(j, at2)) <= Len(l2)
      <3>1. CASE j = at + 1
        <4>1. Len(r2) - 1 - Older(j, at2) = 0
          BY <1>1, <2>1, <2>4, <3>1
        <4> QED
          BY <1>1, <1>3, <1>4, <4>1
      <3>2. CASE j # at + 1
        <4>1. j \in 1 .. Len(r) /\ r2[j] = r[j] /\ r[j] # id
          BY <1>2, <2>1, <3>2
        <4>2. i \in 1 .. Len(l) /\ l[i] = r[j] /\ Aged(l, r, at, i)
          BY <1>3, <1>4, <2>7, <4>1
        <4>3. i + (RingCap - 1 - Older(j, at)) <= Len(l)
          BY <2>1, <4>1, <4>2 DEF Aged
        <4> QED
          BY <1>1, <1>3, <2>1, <2>5, <3>2, <4>1, <4>3
      <3> QED
        BY <3>1, <3>2
    <2>8. Aged(l2, r2, at2, i)
      BY <2>6, <2>7 DEF Aged
    <2> QED
      BY <2>8 DEF l2, r2, at2
  <1>6. CASE ~(Len(r) >= RingCap)
    <2>1. /\ r2 \in Seq(Nat) /\ Len(r2) = Len(r) + 1 /\ Len(r) < RingCap /\ at2 = 0 /\ at = 0
          /\ \A j \in 1 .. Len(r) + 1 : r2[j] = IF j = Len(r) + 1 THEN id ELSE r[j]
      BY <1>6, RingGrows
    <2> HIDE DEF r2, at2
    <2>2. \A x : x \in Range(r2) <=> \E j \in 1 .. Len(r2) : r2[j] = x
      BY <2>1, RangeOfRing
    <2>3. ASSUME NEW j \in 1 .. Len(r) + 1 PROVE Older(j, 0) = j - 1
      BY <1>1 DEF Older
    <2>4. Len(r) + 1 \in 1 .. Len(r) + 1 /\ \A j \in 1 .. Len(r) : j \in 1 .. Len(r) + 1 /\ j # Len(r) + 1
      BY <1>1
    <2>5. ASSUME l2[i] \notin Range(r2) PROVE i + RingCap <= Len(l2)
      <3>1. l2[i] # id
        BY <2>1, <2>2, <2>4, <2>5
      <3>2. i \in 1 .. Len(l) /\ l2[i] = l[i] /\ Aged(l, r, at, i)
        BY <1>3, <1>4, <3>1
      <3>3. ASSUME NEW j \in 1 .. Len(r) PROVE r[j] # l[i]
        <4>1. r2[j] = r[j] /\ j \in 1 .. Len(r2)
          BY <2>1, <2>4
        <4> QED
          BY <2>2, <2>5, <3>2, <4>1
      <3>4. l[i] \notin Range(r)
        BY <1>2, <3>3
      <3> QED
        BY <1>1, <1>3, <3>2, <3>4 DEF Aged
    <2>6. ASSUME NEW j \in 1 .. Len(r2), r2[j] = l2[i]
          PROVE  i + (Len(r2) - 1 - Older(j, at2)) <= Len(l2)
      <3>1. CASE j = Len(r) + 1
        <4>1. Older(j, at2) = Len(r)
          <5>1. Older(Len(r) + 1, 0) = Len(r) + 1 - 1
            BY <2>3, <2>4
          <5> QED
            BY <1>1, <2>1, <3>1, <5>1
        <4>2. Len(r2) - 1 - Older(j, at2) = 0
          BY <1>1, <2>1, <4>1
        <4> QED
          BY <1>1, <1>3, <1>4, <4>2
      <3>2. CASE j # Len(r) + 1
        <4>1. j \in 1 .. Len(r) /\ r2[j] = r[j] /\ r[j] # id
          BY <1>1, <1>2, <2>1, <3>2
        <4>2. i \in 1 .. Len(l) /\ l[i] = r[j] /\ Aged(l, r, at, i)
          BY <1>3, <1>4, <2>6, <4>1
        <4>3. i + (Len(r) - 1 - (j - 1)) <= Len(l)
          BY <2>1, <2>3, <2>4, <4>1, <4>2 DEF Aged
        <4> QED
          BY <1>1, <1>3, <2>1, <2>3, <2>4, <4>1, <4>3
      <3> QED
        BY <3>1, <3>2
    <2>7. Aged(l2, r2, at2, i)
      BY <2>5, <2>6 DEF Aged
    <2> QED
      BY <2>7 DEF l2, r2, at2
  <1> QED
    BY <1>5, <1>6

\* The ids of the other shards grow older.
LEMMA AgedElsewhere ==
    ASSUME NEW r \in Seq(Nat), NEW at \in Nat, NEW l \in Seq(Nat), NEW id \in Nat,
           NEW i \in 1 .. Len(l), Aged(l, r, at, i)
    PROVE  Aged(Append(l, id), r, at, i)
  <1>1. Len(Append(l, id)) = Len(l) + 1 /\ Append(l, id)[i] = l[i] /\ Len(l) \in Nat
    OBVIOUS
  <1>2. RingCap \in Nat /\ Len(r) \in Nat
    BY DataPlaneConstants
  <1>3. ASSUME NEW j \in 1 .. Len(r) PROVE Older(j, at) \in Int
    BY <1>2 DEF Older
  <1> QED
    BY <1>1, <1>2, <1>3 DEF Aged

\* An id belongs to one of the shards.
LEMMA ShardOf == ASSUME NEW id \in Nat PROVE FastShard(id) \in 0 .. Shards - 1
  <1>1. Shards \in Nat /\ Shards > 0
    BY DataPlaneConstants
  <1> QED
    BY <1>1 DEF FastShard

\* rememberFast changes one shard.
LEMMA RememberFastChanges ==
    ASSUME RingsOK, NEW n \in Nodes, NEW id \in Nat, RememberFast(n, id)
    PROVE  /\ FastShard(id) \in 0 .. Shards - 1
           /\ DOMAIN ring' = Nodes /\ DOMAIN slot' = Nodes /\ DOMAIN fastSeen' = Nodes
           /\ \A m \in Nodes : /\ DOMAIN ring'[m] = 0 .. Shards - 1
                               /\ DOMAIN slot'[m] = 0 .. Shards - 1
                               /\ DOMAIN fastSeen'[m] = 0 .. Shards - 1
           /\ \A m \in Nodes, s \in 0 .. Shards - 1 :
                IF m = n /\ s = FastShard(id)
                THEN /\ ring'[m][s] = RingAfter(ring[m][s], slot[m][s], id)
                     /\ slot'[m][s] = SlotAfter(ring[m][s], slot[m][s])
                     /\ fastSeen'[m][s] = IdsAfter(ring[m][s], slot[m][s], fastSeen[m][s], id)
                ELSE /\ ring'[m][s] = ring[m][s] /\ slot'[m][s] = slot[m][s]
                     /\ fastSeen'[m][s] = fastSeen[m][s]
  <1> DEFINE s == FastShard(id)
             full == Len(ring[n][s]) >= RingCap
             at == slot[n][s]
  <1>1. s \in 0 .. Shards - 1
    BY ShardOf
  <1>2. /\ DOMAIN ring = Nodes /\ DOMAIN slot = Nodes /\ DOMAIN fastSeen = Nodes
        /\ \A m \in Nodes : /\ DOMAIN ring[m] = 0 .. Shards - 1 /\ DOMAIN slot[m] = 0 .. Shards - 1
                            /\ DOMAIN fastSeen[m] = 0 .. Shards - 1
    BY DEF RingsOK
  <1>3. /\ ring' = [ring EXCEPT ![n][s] = RingAfter(ring[n][s], at, id)]
        /\ slot' = IF full THEN [slot EXCEPT ![n][s] = SlotAfter(ring[n][s], at)] ELSE slot
        /\ ~full => SlotAfter(ring[n][s], at) = at
        /\ fastSeen' = [fastSeen EXCEPT ![n][s] = IdsAfter(ring[n][s], at, fastSeen[n][s], id)]
    BY DEF RememberFast, RingAfter, SlotAfter, IdsAfter
  <1> HIDE DEF s, full, at
  <1>4. \A m \in Nodes, x \in 0 .. Shards - 1 :
          /\ ring'[m][x] = IF m = n /\ x = s THEN RingAfter(ring[n][s], at, id) ELSE ring[m][x]
          /\ fastSeen'[m][x] = IF m = n /\ x = s THEN IdsAfter(ring[n][s], at, fastSeen[n][s], id)
                               ELSE fastSeen[m][x]
    BY <1>1, <1>2, <1>3
  <1>5. \A m \in Nodes, x \in 0 .. Shards - 1 :
          slot'[m][x] = IF m = n /\ x = s THEN SlotAfter(ring[n][s], at) ELSE slot[m][x]
    BY <1>1, <1>2, <1>3 DEF at
  <1>6. /\ DOMAIN ring' = Nodes /\ DOMAIN slot' = Nodes /\ DOMAIN fastSeen' = Nodes
        /\ \A m \in Nodes : /\ DOMAIN ring'[m] = 0 .. Shards - 1
                            /\ DOMAIN slot'[m] = 0 .. Shards - 1
                            /\ DOMAIN fastSeen'[m] = 0 .. Shards - 1
    BY <1>2, <1>3
  <1> QED
    BY <1>1, <1>4, <1>5, <1>6 DEF s, at

\* What duplicate suppression does in a step: it takes in an id that it does
\* not hold, starts anew with a process, or rests.
LEMMA DedupCases ==
    ASSUME WorkersOK, [Next]_vars
    PROVE  \/ UNCHANGED <<dedup, log>>
           \/ \E n \in Nodes :
                /\ ring' = [ring EXCEPT ![n] = [s \in 0 .. Shards - 1 |-> <<>>]]
                /\ slot' = [slot EXCEPT ![n] = [s \in 0 .. Shards - 1 |-> 0]]
                /\ fastSeen' = [fastSeen EXCEPT ![n] = [s \in 0 .. Shards - 1 |-> {}]]
                /\ log' = [log EXCEPT ![n] = <<>>]
           \/ \E n \in Nodes, id \in Nat :
                /\ ~Duplicate(n, id) /\ RememberFast(n, id)
                /\ log' = [log EXCEPT ![n] = Append(@, id)]
  <1>1. ASSUME NEW n \in Nodes, NEW w \in Workers[n], HandleFast(n, w)
        PROVE  \/ UNCHANGED <<dedup, log>>
               \/ \E id \in Nat : /\ ~Duplicate(n, id) /\ RememberFast(n, id)
                                  /\ log' = [log EXCEPT ![n] = Append(@, id)]
    <2>1. worker[n][w].frame.id \in Nat
      BY <1>1, HoldsAFrame DEF HandleFast
    <2> QED
      BY <1>1, <2>1 DEF HandleFast
  <1>2. ASSUME NEW n \in Nodes, Restart(n) \/ \E w \in Workers[n] : FastPanics(n, w)
        PROVE  /\ ring' = [ring EXCEPT ![n] = [s \in 0 .. Shards - 1 |-> <<>>]]
               /\ slot' = [slot EXCEPT ![n] = [s \in 0 .. Shards - 1 |-> 0]]
               /\ fastSeen' = [fastSeen EXCEPT ![n] = [s \in 0 .. Shards - 1 |-> {}]]
               /\ log' = [log EXCEPT ![n] = <<>>]
    BY <1>2 DEF Restart, FastPanics, NewProcess
  <1>3. ASSUME NEW n \in Nodes,
               \/ \E p \in Nodes : Hello(n, p) \/ Ping(n, p)
               \/ \E f \in net : HandleDatagram(n, f) \/ EnqueueFast(n, f)
               \/ \E t \in Traffic : SendIP(n, t)
               \/ UDPSend(n)
               \/ \E w \in Workers[n] : TakeFast(n, w) \/ RelayFast(n, w) \/ EnqueueDeliver(n, w)
               \/ \E q \in Queues : Deliver(n, q)
               \/ \E p \in Nodes : DirectoryDrops(n, p)
        PROVE  UNCHANGED <<dedup, log>>
    BY <1>3 DEF Hello, Ping, HandleDatagram, EnqueueFast, SendIP, UDPSend, TakeFast, RelayFast,
       EnqueueDeliver, Deliver, DirectoryDrops
  <1>4. CASE UNCHANGED vars
    BY <1>4 DEF vars
  <1> QED
    BY <1>1, <1>2, <1>3, <1>4 DEF Next

\* An empty ring, and the id at a slot that is not taken.
LEMMA EmptyRing == RingOK(<<>>, 0, {})
  <1>1. Range(<<>>) = {}
    BY DEF Range
  <1> QED
    BY <1>1, DataPlaneConstants DEF RingOK

\* Every shard of every node, and the ids that its process has taken in.
LEMMA DedupStep ==
    ASSUME RingsOK, LogOK, WorkersOK, [Next]_vars PROVE RingsOK' /\ LogOK'
  <1>1. CASE UNCHANGED <<dedup, log>>
    BY <1>1 DEF dedup, RingsOK, LogOK
  <1>2. ASSUME NEW n \in Nodes,
               ring' = [ring EXCEPT ![n] = [s \in 0 .. Shards - 1 |-> <<>>]],
               slot' = [slot EXCEPT ![n] = [s \in 0 .. Shards - 1 |-> 0]],
               fastSeen' = [fastSeen EXCEPT ![n] = [s \in 0 .. Shards - 1 |-> {}]],
               log' = [log EXCEPT ![n] = <<>>]
        PROVE  RingsOK' /\ LogOK'
    <2>1. RingsOK'
      BY <1>2, EmptyRing DEF RingsOK
    <2>2. DOMAIN log' = Nodes /\ \A m \in Nodes : log'[m] = IF m = n THEN <<>> ELSE log[m]
      BY <1>2 DEF LogOK
    <2>3. \A m \in Nodes : m # n => ring'[m] = ring[m] /\ slot'[m] = slot[m]
      BY <1>2 DEF RingsOK
    <2>4. <<>> \in Seq(Nat) /\ 1 .. Len(<<>>) = {}
      OBVIOUS
    <2>5. LogOK'
      BY <2>2, <2>3, <2>4 DEF LogOK
    <2> QED
      BY <2>1, <2>5
  <1>3. ASSUME NEW n \in Nodes, NEW id \in Nat, ~Duplicate(n, id), RememberFast(n, id),
               log' = [log EXCEPT ![n] = Append(@, id)]
        PROVE  RingsOK' /\ LogOK'
    <2> DEFINE s == FastShard(id)
               r == ring[n][s]
               at == slot[n][s]
    <2>1. s \in 0 .. Shards - 1 /\ id \notin fastSeen[n][s]
      BY <1>3, RememberFastChanges DEF Duplicate
    <2>2. RingOK(r, at, fastSeen[n][s])
      BY <2>1 DEF RingsOK
    <2>3. RingOK(RingAfter(r, at, id), SlotAfter(r, at), IdsAfter(r, at, fastSeen[n][s], id))
      BY <2>1, <2>2, RingKeeps
    <2>4. RingsOK'
      BY <1>3, <2>3, RememberFastChanges DEF RingsOK
    <2>5. /\ DOMAIN log' = Nodes
          /\ \A m \in Nodes : log'[m] = IF m = n THEN Append(log[n], id) ELSE log[m]
      BY <1>3 DEF LogOK
    <2>6. log[n] \in Seq(Nat) /\ Append(log[n], id) \in Seq(Nat) /\ Len(log[n]) \in Nat
          /\ Len(Append(log[n], id)) = Len(log[n]) + 1
      BY DEF LogOK
    <2>7. ASSUME NEW i \in 1 .. Len(log[n]) + 1
          PROVE  LET x == FastShard(Append(log[n], id)[i])
                 IN  Aged(Append(log[n], id), ring'[n][x], slot'[n][x], i)
      <3> DEFINE l == log[n]
                 x == FastShard(Append(l, id)[i])
      <3>1. CASE x = s
        <4>1. i \in 1 .. Len(l) => Aged(l, r, at, i)
          <5> SUFFICES ASSUME i \in 1 .. Len(l) PROVE Aged(l, r, at, i)
            OBVIOUS
          <5>1. Append(l, id)[i] = l[i]
            BY <2>6
          <5> QED
            BY <3>1, <5>1 DEF LogOK
        <4>2. Aged(Append(l, id), RingAfter(r, at, id), SlotAfter(r, at), i)
          BY <2>1, <2>2, <2>6, <4>1, AgedInShard
        <4> QED
          BY <1>3, <2>1, <3>1, <4>2, RememberFastChanges
      <3>2. CASE x # s
        <4>1. i \in 1 .. Len(l) /\ Append(l, id)[i] = l[i] /\ l[i] \in Nat
          <5>1. Append(l, id)[Len(l) + 1] = id
            BY <2>6
          <5>2. i # Len(l) + 1
            BY <3>2, <5>1
          <5> QED
            BY <2>6, <5>2
        <4>2. x = FastShard(l[i]) /\ x \in 0 .. Shards - 1
          BY <4>1, ShardOf
        <4>3. Aged(l, ring[n][x], slot[n][x], i)
          BY <4>1, <4>2 DEF LogOK
        <4>4. ring[n][x] \in Seq(Nat) /\ slot[n][x] \in Nat
          <5>1. RingOK(ring[n][x], slot[n][x], fastSeen[n][x])
            BY <4>2 DEF RingsOK
          <5> QED
            BY <5>1, RingTyped
        <4>5. Aged(Append(l, id), ring[n][x], slot[n][x], i)
          BY <2>6, <4>1, <4>3, <4>4, AgedElsewhere
        <4>6. ring'[n][x] = ring[n][x] /\ slot'[n][x] = slot[n][x]
          BY <1>3, <3>2, <4>2, RememberFastChanges
        <4> QED
          BY <4>5, <4>6
      <3> QED
        BY <3>1, <3>2
    <2>8. ASSUME NEW m \in Nodes, m # n, NEW i \in 1 .. Len(log[m])
          PROVE  LET x == FastShard(log[m][i]) IN Aged(log[m], ring'[m][x], slot'[m][x], i)
      <3> DEFINE x == FastShard(log[m][i])
      <3>1. x \in 0 .. Shards - 1
        <4>1. log[m][i] \in Nat
          BY DEF LogOK
        <4> QED
          BY <4>1, ShardOf
      <3>2. ring'[m][x] = ring[m][x] /\ slot'[m][x] = slot[m][x]
        BY <1>3, <2>8, <3>1, RememberFastChanges
      <3> QED
        BY <3>2 DEF LogOK
    <2>9. LogOK'
      <3>1. ASSUME NEW m \in Nodes
            PROVE  /\ log'[m] \in Seq(Nat)
                   /\ \A i \in 1 .. Len(log'[m]) :
                        LET x == FastShard(log'[m][i]) IN Aged(log'[m], ring'[m][x], slot'[m][x], i)
        <4>1. CASE m = n
          BY <2>5, <2>6, <2>7, <4>1
        <4>2. CASE m # n
          BY <2>5, <2>8, <4>2 DEF LogOK
        <4> QED
          BY <4>1, <4>2
      <3> QED
        BY <2>5, <3>1 DEF LogOK
    <2> QED
      BY <2>4, <2>9
  <1> QED
    BY <1>1, <1>2, <1>3, DedupCases

-----------------------------------------------------------------------------
(* The invariant, and the types. *)

\* Nothing has been sent, queued or taken in.
LEMMA HeldInit == Init => HeldInv
  <1> SUFFICES ASSUME Init PROVE HeldInv
    OBVIOUS
  <1>1. IInv
    BY PathsInit
  <1>2. CountersOK
    <2>1. sent = {} /\ next = 1 /\ faults = 0 /\ budget \in Budgets
      BY DEF Init
    <2>2. IsFiniteSet(sent) /\ Cardinality(sent) = 0
      BY <2>1, FS_EmptySet
    <2>3. budget.sealed \in Nat /\ budget.control \in Nat /\ MaxFaults \in Nat
      BY <2>1, DataPlaneConstants
    <2> QED
      BY <2>1, <2>2, <2>3 DEF CountersOK
  <1>3. NetOK
    BY DEF Init, NetOK
  <1>4. KnownOK
    <2>1. IsFiniteSet({}) /\ Cardinality({}) = 0 /\ 0 <= SeenCap
      BY FS_EmptySet, DataPlaneConstants
    <2> QED
      BY <2>1 DEF Init, KnownOK, Addresses
  <1>5. Len(<<>>) = 0 /\ 0 <= QueueCap /\ \A S : <<>> \in Seq(S)
    BY DataPlaneConstants
  <1>6. QueuesOK
    BY <1>5 DEF Init, QueuesOK
  <1>7. WorkersOK
    BY DEF Init, WorkersOK, WorkerOK
  <1>8. DeliverOK
    BY <1>5 DEF Init, DeliverOK
  <1>9. RingsOK
    BY EmptyRing DEF Init, RingsOK
  <1>10. LogOK
    BY <1>5 DEF Init, LogOK
  <1> QED
    BY <1>1, <1>2, <1>3, <1>4, <1>6, <1>7, <1>8, <1>9, <1>10 DEF HeldInv

\* Every step preserves the invariant.
LEMMA HeldStep == HeldInv /\ [Next]_vars => HeldInv'
  BY PathsStep, CountersStep, NetStep, KnownStep, QueuesStep, WorkersStep, DeliverStep, DedupStep
  DEF HeldInv

\* The invariant holds in every state the data plane reaches.
THEOREM HeldInvariant == Spec => []HeldInv
  BY HeldInit, HeldStep, PTL DEF Spec

\* Whatever is lost, doubled, relayed in circles or restarted, no queue outgrows
\* its channel, no table its cap, and the ring and the set of a shard of
\* duplicate suppression hold the same ids.
THEOREM DataTypeCorrect == Spec => []TypeOK
  <1>1. HeldInv => TypeOK
    <2> SUFFICES ASSUME HeldInv PROVE TypeOK
      OBVIOUS
    <2>1. next \in 1 .. budget.sealed + budget.control + 1 /\ faults \in 0 .. MaxFaults
      <3>1. CountersOK /\ Cardinality(sent) \in Nat
        BY FS_CardinalityType DEF HeldInv, CountersOK
      <3>2. budget.sealed \in Nat /\ budget.control \in Nat
        BY <3>1, BudgetTyped
      <3> QED
        BY <3>1, <3>2 DEF CountersOK
    <2>2. \A f \in net : f.id \in Ids /\ f.to \in Nodes /\ f.ttl \in 0 .. DefaultTTL
      BY DEF HeldInv, NetOK, Sound
    <2>3. path \in [Nodes -> [Nodes -> Addresses]]
      BY DEF HeldInv, IInv, PathsOK, Addresses
    <2>4. ASSUME NEW n \in Nodes, NEW s \in 0 .. Shards - 1
          PROVE  Len(ring[n][s]) <= RingCap /\ slot[n][s] < RingCap /\ fastSeen[n][s] = Range(ring[n][s])
      <3>1. RingOK(ring[n][s], slot[n][s], fastSeen[n][s])
        BY DEF HeldInv, RingsOK
      <3> QED
        BY <3>1, DataPlaneConstants DEF RingOK
    <2>5. ASSUME NEW n \in Nodes, NEW w \in Workers[n]
          PROVE  worker[n][w] = Idle \/ worker[n][w].frame.to = n
      BY DEF HeldInv, WorkersOK, WorkerOK, Arriving
    <2> QED
      BY <2>1, <2>2, <2>3, <2>4, <2>5 DEF HeldInv, KnownOK, QueuesOK, DeliverOK, TypeOK
  <1> QED
    BY <1>1, HeldInvariant, PTL

-----------------------------------------------------------------------------
(* The packets of one flow in a queue. *)

\* Induction up to n, on the set of the numbers for which a fact holds.
LEMMA CountUp ==
    ASSUME NEW n \in Nat, NEW B, 0 \in B, \A i \in 0 .. n - 1 : i \in B => i + 1 \in B
    PROVE  \A i \in 0 .. n : i \in B
  <1> DEFINE R == {ss \in Nat \X Nat : ss[1] < ss[2]}
             Bad == {i \in 0 .. n : i \notin B}
  <1> SUFFICES ASSUME Bad # {} PROVE FALSE
    OBVIOUS
  <1>1. IsWellFoundedOn(R, Nat)
    BY NatLessThanWellFounded, Zenon DEF OpToRel
  <1> HIDE DEF R
  <1>2. Bad \in SUBSET Nat
    OBVIOUS
  <1>3. PICK x \in Bad : \A y \in Bad : ~ (<<y, x>> \in R)
    BY <1>1, <1>2, WFMin
  <1>4. x \in 0 .. n /\ x \notin B /\ x # 0
    OBVIOUS
  <1>5. x - 1 \in 0 .. n - 1 /\ x - 1 \in 0 .. n /\ x - 1 \in Nat /\ x - 1 < x
    BY <1>4
  <1>6. <<x - 1, x>> \in R
    BY <1>5, <1>4 DEF R
  <1>7. x - 1 \in B
    BY <1>3, <1>5, <1>6
  <1>8. x - 1 + 1 \in B
    BY <1>5, <1>7
  <1> QED
    BY <1>4, <1>8

\* The next value of the recursion in OnlyFlow.
Chosen(q, f, i, s) == IF q[i].flow = f THEN Append(s, q[i]) ELSE s

\* OnlyFlow goes through the queue from its head.
LEMMA OnlyFlowUpTo ==
    ASSUME NEW S, NEW q \in Seq(S), NEW f
    PROVE  \E F : /\ F[0] = <<>>
                  /\ \A i \in 1 .. Len(q) : F[i] = Chosen(q, f, i, F[i - 1])
                  /\ \A i \in 0 .. Len(q) : F[i] \in Seq(S)
                  /\ OnlyFlow(q, f) = F[Len(q)]
  <1> DEFINE n == Len(q)
             Rec(F, m) == F = [i \in 0 .. m |-> IF i = 0 THEN <<>> ELSE Chosen(q, f, i, F[i - 1])]
             B == {m \in 0 .. n : \E F : Rec(F, m)}
  <1>0. n \in Nat
    OBVIOUS
  <1>1. 0 \in B
    <2> DEFINE F0 == [i \in 0 .. 0 |-> <<>>]
    <2>1. F0 = [i \in 0 .. 0 |-> IF i = 0 THEN <<>> ELSE Chosen(q, f, i, F0[i - 1])]
      OBVIOUS
    <2>2. \E F : Rec(F, 0)
      BY <2>1
    <2> QED
      BY <2>2
  <1>2. ASSUME NEW m \in 0 .. n - 1, m \in B PROVE m + 1 \in B
    <2>1. PICK F : Rec(F, m)
      BY <1>2
    <2> DEFINE G == [i \in 0 .. m + 1 |-> IF i = m + 1 THEN Chosen(q, f, i, F[m]) ELSE F[i]]
    <2>2. ASSUME NEW i \in 0 .. m + 1
          PROVE  G[i] = IF i = 0 THEN <<>> ELSE Chosen(q, f, i, G[i - 1])
      <3>1. CASE i = m + 1
        <4>1. i # 0 /\ i - 1 = m /\ m \in 0 .. m + 1 /\ m # m + 1
          BY <3>1
        <4>2. G[m] = F[m]
          BY <4>1
        <4> QED
          BY <3>1, <4>1, <4>2
      <3>2. CASE i # m + 1
        <4>1. i \in 0 .. m /\ G[i] = F[i]
          BY <3>2
        <4>2. F[i] = IF i = 0 THEN <<>> ELSE Chosen(q, f, i, F[i - 1])
          BY <2>1, <4>1
        <4>3. i # 0 => i - 1 \in 0 .. m + 1 /\ i - 1 # m + 1
          BY <4>1
        <4>4. i # 0 => G[i - 1] = F[i - 1]
          BY <4>3
        <4> QED
          BY <4>1, <4>2, <4>4
      <3> QED
        BY <3>1, <3>2
    <2>3. DOMAIN G = 0 .. m + 1 /\ G = [i \in 0 .. m + 1 |-> G[i]]
      OBVIOUS
    <2>4. Rec(G, m + 1)
      BY <2>2, <2>3
    <2>5. m + 1 \in 0 .. n
      BY <1>0
    <2> QED
      BY <2>4, <2>5
  <1> HIDE DEF B
  <1>3. \A m \in 0 .. n : m \in B
    BY <1>0, <1>1, <1>2, CountUp
  <1>4. n \in B
    BY <1>0, <1>3
  <1>5. \E F : Rec(F, n)
    BY <1>4 DEF B
  <1>6. PICK F : Rec(F, n) /\ OnlyFlow(q, f) = F[n]
    <2> DEFINE U == CHOOSE F : Rec(F, n)
    <2>1. Rec(U, n)
      BY <1>5
    <2>2. OnlyFlow(q, f) = U[n]
      BY DEF OnlyFlow, Chosen
    <2> QED
      BY <2>1, <2>2
  <1>7. F[0] = <<>> /\ \A i \in 1 .. n : F[i] = Chosen(q, f, i, F[i - 1])
    BY <1>0, <1>6
  <1>8. \A i \in 0 .. n : F[i] \in Seq(S)
    <2> DEFINE C == {i \in 0 .. n : F[i] \in Seq(S)}
    <2>1. 0 \in C
      <3>1. 0 \in 0 .. n /\ <<>> \in Seq(S)
        BY <1>0
      <3> QED
        BY <1>7, <3>1
    <2>2. ASSUME NEW i \in 0 .. n - 1, i \in C PROVE i + 1 \in C
      <3>1. i + 1 \in 1 .. n /\ i + 1 - 1 = i
        BY <1>0
      <3>2. F[i + 1] = Chosen(q, f, i + 1, F[i])
        BY <1>7, <3>1
      <3>3. q[i + 1] \in S /\ F[i] \in Seq(S)
        BY <2>2, <3>1
      <3>4. F[i + 1] \in Seq(S)
        BY <3>2, <3>3 DEF Chosen
      <3> QED
        BY <3>1, <3>4
    <2> HIDE DEF C
    <2>3. \A i \in 0 .. n : i \in C
      BY <1>0, <2>1, <2>2, CountUp
    <2> QED
      BY <2>3 DEF C
  <1> QED
    BY <1>6, <1>7, <1>8

\* A packet that joins the queue joins its flow, at the end.
LEMMA OnlyFlowAppend ==
    ASSUME NEW S, NEW q \in Seq(S), NEW x \in S, NEW f
    PROVE  OnlyFlow(Append(q, x), f) =
             IF x.flow = f THEN Append(OnlyFlow(q, f), x) ELSE OnlyFlow(q, f)
  <1> DEFINE n == Len(q)
             p == Append(q, x)
  <1>1. n \in Nat /\ p \in Seq(S) /\ Len(p) = n + 1 /\ p[n + 1] = x /\ \A i \in 1 .. n : p[i] = q[i]
    OBVIOUS
  <1>2. PICK F : /\ F[0] = <<>>
                 /\ \A i \in 1 .. n : F[i] = Chosen(q, f, i, F[i - 1])
                 /\ OnlyFlow(q, f) = F[n]
    BY OnlyFlowUpTo
  <1> HIDE DEF n, p
  <1>3. PICK G : /\ G[0] = <<>>
                 /\ \A i \in 1 .. n + 1 : G[i] = Chosen(p, f, i, G[i - 1])
                 /\ OnlyFlow(p, f) = G[n + 1]
    BY <1>1, OnlyFlowUpTo
  <1> DEFINE B == {i \in 0 .. n : G[i] = F[i]}
  <1>4. 0 \in B
    BY <1>1, <1>2, <1>3
  <1>5. ASSUME NEW i \in 0 .. n - 1, i \in B PROVE i + 1 \in B
    <2>1. i + 1 \in 1 .. n /\ i + 1 \in 1 .. n + 1 /\ i + 1 - 1 = i /\ i + 1 \in 0 .. n
      BY <1>1
    <2>2. F[i + 1] = Chosen(q, f, i + 1, F[i]) /\ G[i + 1] = Chosen(p, f, i + 1, G[i])
      BY <1>2, <1>3, <2>1
    <2>3. G[i] = F[i] /\ p[i + 1] = q[i + 1]
      BY <1>1, <1>5, <2>1
    <2>4. G[i + 1] = F[i + 1]
      BY <2>2, <2>3 DEF Chosen
    <2> QED
      BY <2>1, <2>4
  <1> HIDE DEF B
  <1>6. n \in B
    <2>1. \A i \in 0 .. n : i \in B
      BY <1>1, <1>4, <1>5, CountUp
    <2> QED
      BY <1>1, <2>1
  <1>7. G[n] = F[n]
    BY <1>6 DEF B
  <1>8. n + 1 \in 1 .. n + 1 /\ n + 1 - 1 = n
    BY <1>1
  <1>9. G[n + 1] = Chosen(p, f, n + 1, G[n])
    <2>1. G[n + 1] = Chosen(p, f, n + 1, G[n + 1 - 1])
      BY <1>1, <1>3, <1>8
    <2> QED
      BY <1>8, <2>1
  <1>10. OnlyFlow(p, f) = IF x.flow = f THEN Append(OnlyFlow(q, f), x) ELSE OnlyFlow(q, f)
    BY <1>1, <1>2, <1>3, <1>7, <1>9 DEF Chosen
  <1> QED
    BY <1>10 DEF p

\* The head of the queue is the head of its flow; without it the rest of the
\* flow, and every other flow, is as it was.
LEMMA OnlyFlowTail ==
    ASSUME NEW S, NEW q \in Seq(S), q # <<>>, NEW f
    PROVE  IF Head(q).flow = f
           THEN /\ OnlyFlow(q, f) # <<>> /\ Head(OnlyFlow(q, f)) = Head(q)
                /\ Tail(OnlyFlow(q, f)) = OnlyFlow(Tail(q), f)
           ELSE OnlyFlow(q, f) = OnlyFlow(Tail(q), f)
  <1> DEFINE t == Tail(q)
             n == Len(t)
             h == Head(q)
  <1>1. /\ t \in Seq(S) /\ n \in Nat /\ Len(q) = n + 1 /\ h \in S /\ q[1] = h
        /\ \A i \in 1 .. n : t[i] = q[i + 1]
    OBVIOUS
  <1>2. PICK G : /\ G[0] = <<>>
                 /\ \A i \in 1 .. Len(q) : G[i] = Chosen(q, f, i, G[i - 1])
                 /\ OnlyFlow(q, f) = G[Len(q)]
    BY OnlyFlowUpTo
  <1> HIDE DEF n, t, h
  <1>3. PICK F : /\ F[0] = <<>>
                 /\ \A i \in 1 .. n : F[i] = Chosen(t, f, i, F[i - 1])
                 /\ \A i \in 0 .. n : F[i] \in Seq(S)
                 /\ OnlyFlow(t, f) = F[n]
    BY <1>1, OnlyFlowUpTo DEF n
  <1>4. G[1] = IF h.flow = f THEN Append(<<>>, h) ELSE <<>>
    <2>1. 1 \in 1 .. Len(q) /\ 1 - 1 = 0
      BY <1>1
    <2>2. G[1] = Chosen(q, f, 1, G[0])
      BY <1>2, <2>1
    <2> QED
      BY <1>1, <1>2, <2>2 DEF Chosen
  <1> DEFINE B == {i \in 0 .. n : G[i + 1] = IF h.flow = f THEN <<h>> \o F[i] ELSE F[i]}
  <1>5. 0 \in B
    <2>1. 0 \in 0 .. n /\ 0 + 1 = 1
      BY <1>1
    <2>2. Append(<<>>, h) = <<h>> \o <<>>
      BY <1>1
    <2> QED
      BY <1>3, <1>4, <2>1, <2>2
  <1>6. ASSUME NEW i \in 0 .. n - 1, i \in B PROVE i + 1 \in B
    <2>1. /\ i + 1 \in 1 .. n /\ i + 1 \in 0 .. n /\ i + 1 - 1 = i /\ i \in 0 .. n
          /\ i + 1 + 1 \in 1 .. Len(q) /\ i + 1 + 1 - 1 = i + 1
      BY <1>1
    <2>2. F[i + 1] = Chosen(t, f, i + 1, F[i]) /\ G[i + 1 + 1] = Chosen(q, f, i + 1 + 1, G[i + 1])
      BY <1>2, <1>3, <2>1
    <2>3. t[i + 1] = q[i + 1 + 1] /\ F[i] \in Seq(S) /\ t[i + 1] \in S
      BY <1>1, <1>3, <2>1 DEF n
    <2>4. Append(<<h>> \o F[i], t[i + 1]) = <<h>> \o Append(F[i], t[i + 1])
      BY <1>1, <2>3
    <2>5. G[i + 1] = IF h.flow = f THEN <<h>> \o F[i] ELSE F[i]
      BY <1>6
    <2>6. G[i + 1 + 1] = IF h.flow = f THEN <<h>> \o F[i + 1] ELSE F[i + 1]
      BY <2>2, <2>3, <2>4, <2>5 DEF Chosen
    <2> QED
      BY <2>1, <2>6
  <1> HIDE DEF B
  <1>7. n \in B
    <2>1. \A i \in 0 .. n : i \in B
      BY <1>1, <1>5, <1>6, CountUp
    <2> QED
      BY <1>1, <2>1
  <1>8. G[n + 1] = IF h.flow = f THEN <<h>> \o F[n] ELSE F[n]
    BY <1>7 DEF B
  <1>9. F[n] \in Seq(S)
    <2>1. n \in 0 .. n
      BY <1>1
    <2> QED
      BY <1>3, <2>1
  <1>10. /\ <<h>> \o F[n] # <<>> /\ Head(<<h>> \o F[n]) = h /\ Tail(<<h>> \o F[n]) = F[n]
    BY <1>1, <1>9
  <1>11. OnlyFlow(q, f) = G[n + 1]
    BY <1>1, <1>2
  <1>12. IF h.flow = f
         THEN /\ OnlyFlow(q, f) # <<>> /\ Head(OnlyFlow(q, f)) = h
              /\ Tail(OnlyFlow(q, f)) = OnlyFlow(t, f)
         ELSE OnlyFlow(q, f) = OnlyFlow(t, f)
    BY <1>3, <1>8, <1>10, <1>11
  <1> QED
    BY <1>12 DEF h, t

\* An empty queue holds no flow.
LEMMA OnlyFlowEmpty == ASSUME NEW f PROVE OnlyFlow(<<>>, f) = <<>>
  <1>0. <<>> \in Seq(Nat)
    OBVIOUS
  <1>1. PICK q \in Seq(Nat) : q = <<>>
    BY <1>0, Zenon
  <1>2. PICK F : F[0] = <<>> /\ OnlyFlow(q, f) = F[Len(q)]
    BY OnlyFlowUpTo
  <1>3. Len(q) = 0
    BY <1>1
  <1> QED
    BY <1>1, <1>2, <1>3

-----------------------------------------------------------------------------
(* The data plane implements MeshDelivery. *)

\* What a worker in the given state has taken in.
Hold(x) == IF x.stage = "remembered" THEN Packet(x.frame) ELSE Nothing

\* The packets in hand, one by one.
LEMMA HeldValues ==
    /\ \A n \in Nodes, w \in AllWorkers :
         held[n][w] = IF w \in Workers[n] THEN Hold(worker[n][w]) ELSE Nothing
    /\ \A n \in Nodes : \A w \in Workers[n] : w \in AllWorkers
    /\ held \in [Nodes -> [AllWorkers -> UNION {{held[n][w] : w \in AllWorkers} : n \in Nodes}]]
  <1>1. \A n \in Nodes : \A w \in Workers[n] : w \in AllWorkers
    BY DEF AllWorkers
  <1>2. \A n \in Nodes, w \in AllWorkers :
          held[n][w] = IF w \in Workers[n] THEN Hold(worker[n][w]) ELSE Nothing
    BY DEF held, Hold
  <1>3. held \in [Nodes -> [AllWorkers -> UNION {{held[n][w] : w \in AllWorkers} : n \in Nodes}]]
    BY DEF held
  <1> QED
    BY <1>1, <1>2, <1>3

\* One worker changes what it holds.
LEMMA HeldChanges ==
    ASSUME WorkersOK, NEW n \in Nodes, NEW w \in Workers[n], NEW x,
           worker' = [worker EXCEPT ![n][w] = x]
    PROVE  held' = [held EXCEPT ![n][w] = Hold(x)]
  <1>1. \A m \in Nodes : \A v \in Workers[m] :
          worker'[m][v] = IF m = n /\ v = w THEN x ELSE worker[m][v]
    BY DEF WorkersOK
  <1>2. w \in AllWorkers
    BY DEF AllWorkers
  <1>3. held' = [m \in Nodes |-> [v \in AllWorkers |->
                  IF v \in Workers[m] /\ worker'[m][v].stage = "remembered"
                  THEN Packet(worker'[m][v].frame) ELSE Nothing]]
    BY DEF held
  <1>4. [held EXCEPT ![n][w] = Hold(x)] =
          [m \in Nodes |-> [v \in AllWorkers |->
             IF m = n /\ v = w THEN Hold(x) ELSE
             IF v \in Workers[m] /\ worker[m][v].stage = "remembered"
             THEN Packet(worker[m][v].frame) ELSE Nothing]]
    BY <1>2 DEF held
  <1>5. ASSUME NEW m \in Nodes, NEW v \in AllWorkers
        PROVE  (IF v \in Workers[m] /\ worker'[m][v].stage = "remembered"
                THEN Packet(worker'[m][v].frame) ELSE Nothing)
               = (IF m = n /\ v = w THEN Hold(x) ELSE
                  IF v \in Workers[m] /\ worker[m][v].stage = "remembered"
                  THEN Packet(worker[m][v].frame) ELSE Nothing)
    BY <1>1 DEF Hold
  <1> QED
    BY <1>3, <1>4, <1>5

\* The flows of the queues, one by one.
LEMMA QueueChanges ==
    ASSUME DeliverOK, NEW n \in Nodes, NEW q \in Queues, NEW s,
           deliverQueues' = [deliverQueues EXCEPT ![n][q] = s],
           NEW m \in Nodes, NEW f \in Flows
    PROVE  OnlyFlow(deliverQueues'[m][QueueOf[f]], f) =
             IF m = n /\ QueueOf[f] = q THEN OnlyFlow(s, f) ELSE queue[m][f]
  <1>1. \A r \in Queues : deliverQueues'[m][r] = IF m = n /\ r = q THEN s ELSE deliverQueues[m][r]
    BY DEF DeliverOK
  <1>2. QueueOf[f] \in Queues
    BY DataPlaneConstants
  <1>3. queue[m][f] = OnlyFlow(deliverQueues[m][QueueOf[f]], f)
    BY DEF queue
  <1> QED
    BY <1>1, <1>2, <1>3

\* At first nothing is sent, held or queued.
LEMMA DeliveryInit == Init => Delivery!Init
  <1> SUFFICES ASSUME Init PROVE Delivery!Init
    OBVIOUS
  <1>1. \A f \in Flows : QueueOf[f] \in Queues
    BY DataPlaneConstants
  <1>2. queue = [n \in Nodes |-> [f \in Flows |-> <<>>]]
    BY <1>1, OnlyFlowEmpty DEF Init, queue
  <1>3. held = [n \in Nodes |-> [w \in AllWorkers |-> Nothing]]
    BY DEF Init, held, Idle
  <1> QED
    BY <1>2, <1>3 DEF Init, Delivery!Init

\* Steps that MeshDelivery does not see.
LEMMA Unseen ==
    ASSUME UNCHANGED <<deliverQueues, sent, log, tun>>, held' = held
    PROVE  UNCHANGED Delivery!vars
  BY DEF Delivery!vars, queue

\* A packet that is sealed is sent.
LEMMA SealIsSend ==
    ASSUME HeldInv, NEW n \in Nodes, NEW t \in Traffic, SendIP(n, t) PROVE Delivery!Send
  <1>1. PICK p : p \notin sent /\ sent' = sent \cup {p}
    BY SealStep DEF HeldInv
  <1>2. UNCHANGED <<log, tun, worker, deliverQueues>>
    BY DEF SendIP
  <1> QED
    BY <1>1, <1>2 DEF Delivery!Send, held, queue

\* rememberFast lets an id through only when it is not among the last RingCap
\* ids of the process: the heart of the implementation.
LEMMA NotDuplicateIsFresh ==
    ASSUME HeldInv, NEW n \in Nodes, NEW id \in Nat, ~Duplicate(n, id) PROVE Delivery!Fresh(n, id)
  <1> SUFFICES ASSUME NEW i \in DOMAIN log[n], log[n][i] = id PROVE i + RingCap <= Len(log[n])
    BY DEF Delivery!Fresh
  <1>1. i \in 1 .. Len(log[n])
    BY DEF HeldInv, LogOK
  <1>2. FastShard(id) \in 0 .. Shards - 1
    BY ShardOf
  <1>3. RingOK(ring[n][FastShard(id)], slot[n][FastShard(id)], fastSeen[n][FastShard(id)])
    BY <1>2 DEF HeldInv, RingsOK
  <1>4. id \notin Range(ring[n][FastShard(id)])
    BY <1>3 DEF Duplicate, RingOK
  <1>5. Aged(log[n], ring[n][FastShard(id)], slot[n][FastShard(id)], i)
    BY <1>1 DEF HeldInv, LogOK
  <1> QED
    BY <1>4, <1>5 DEF Aged

\* A worker that remembers the id of a frame takes its packet in; one that
\* drops the frame does nothing MeshDelivery sees.
LEMMA HandleIsTakeIn ==
    ASSUME HeldInv, NEW n \in Nodes, NEW w \in Workers[n], HandleFast(n, w)
    PROVE  Delivery!TakeIn(n, w) \/ UNCHANGED Delivery!vars
  <1> DEFINE f == worker[n][w].frame
             x == worker[n][w]
  <1>1. /\ x.stage = "taken" /\ UNCHANGED <<deliverQueues, sent, tun>>
        /\ x \in [stage : {"taken", "remembered"}, frame : Arriving(n)]
        /\ f \in Frames /\ Packet(f) \in sent /\ f.id \in Nat
    BY HoldsAFrame DEF HandleFast, HeldInv
  <1>2. held[n][w] = Nothing /\ w \in AllWorkers
    BY <1>1, HeldValues DEF Hold
  <1>3. WorkersOK
    BY DEF HeldInv
  <1>4. CASE worker' = [worker EXCEPT ![n][w] = Idle] /\ log' = log
    <2>1. held' = [held EXCEPT ![n][w] = Hold(Idle)]
      BY <1>3, <1>4, HeldChanges
    <2>2. Hold(Idle) = Nothing
      BY DEF Hold, Idle
    <2>3. held' = held
      BY <1>2, <2>1, <2>2, HeldValues
    <2> QED
      BY <1>1, <1>4, <2>3, Unseen
  <1>5. CASE /\ ~Duplicate(n, f.id) /\ log' = [log EXCEPT ![n] = Append(@, f.id)]
             /\ worker' = [worker EXCEPT ![n][w].stage = "remembered"]
    <2> DEFINE y == [x EXCEPT !.stage = "remembered"]
    <2>1. worker' = [worker EXCEPT ![n][w] = y]
      BY <1>5
    <2>2. Hold(y) = Packet(f)
      BY <1>1 DEF Hold
    <2> HIDE DEF y
    <2>3. held' = [held EXCEPT ![n][w] = Packet(f)]
      BY <1>3, <2>1, <2>2, HeldChanges
    <2>4. Packet(f).id = f.id
      BY DEF Packet
    <2>5. Delivery!Fresh(n, Packet(f).id)
      BY <1>1, <1>5, <2>4, NotDuplicateIsFresh
    <2>6. log' = [log EXCEPT ![n] = Append(@, Packet(f).id)]
      BY <1>5, <2>4
    <2>7. queue' = queue
      BY <1>1 DEF queue
    <2> QED
      BY <1>1, <1>2, <2>3, <2>5, <2>6, <2>7 DEF Delivery!TakeIn
  <1> QED
    BY <1>4, <1>5 DEF HandleFast, dedup

\* A relay passes a packet on without queueing it.
LEMMA RelayIsPassOn ==
    ASSUME HeldInv, NEW n \in Nodes, NEW w \in Workers[n], RelayFast(n, w)
    PROVE  Delivery!PassOn(n, w)
  <1> DEFINE f == worker[n][w].frame
  <1>1. /\ worker[n][w].stage = "remembered" /\ UNCHANGED <<deliverQueues, sent, log, tun>>
        /\ worker' = [worker EXCEPT ![n][w] = Idle]
    BY DEF RelayFast
  <1>2. Packet(f) \in sent /\ Packet(f) # Nothing
    BY <1>1, HoldsAFrame, DataPlaneConstants DEF HeldInv, CountersOK, Packets
  <1>3. held[n][w] = Packet(f)
    BY <1>1, HeldValues DEF Hold
  <1>4. held' = [held EXCEPT ![n][w] = Hold(Idle)] /\ Hold(Idle) = Nothing
    BY <1>1, HeldChanges DEF HeldInv, Hold, Idle
  <1>5. queue' = queue
    BY <1>1 DEF queue
  <1> QED
    BY <1>1, <1>2, <1>3, <1>4, <1>5 DEF Delivery!PassOn

\* The destination queues a packet behind those of its flow, and leaves the
\* flows that share the queue alone; a full queue drops it.
LEMMA EnqueueIsPassOn ==
    ASSUME HeldInv, NEW n \in Nodes, NEW w \in Workers[n], EnqueueDeliver(n, w)
    PROVE  Delivery!PassOn(n, w)
  <1> DEFINE f == worker[n][w].frame
             p == Packet(f)
             q == QueueOf[f.flow]
             s == Enqueued(deliverQueues[n][q], p)
  <1>1. /\ worker[n][w].stage = "remembered" /\ f.dst = n /\ UNCHANGED <<sent, log, tun>>
        /\ worker' = [worker EXCEPT ![n][w] = Idle]
        /\ deliverQueues' = [deliverQueues EXCEPT ![n][q] = s]
    BY DEF EnqueueDeliver
  <1>2. f \in Frames /\ p \in sent /\ p # Nothing
    BY <1>1, HoldsAFrame, DataPlaneConstants DEF HeldInv, CountersOK, Packets
  <1>3. held[n][w] = p
    BY <1>1, HeldValues DEF Hold
  <1>4. held' = [held EXCEPT ![n][w] = Nothing]
    <2>1. held' = [held EXCEPT ![n][w] = Hold(Idle)] /\ Hold(Idle) = Nothing
      BY <1>1, HeldChanges DEF HeldInv, Hold, Idle
    <2> QED
      BY <2>1
  <1>5. p.flow = f.flow /\ p.dst = n /\ f.flow \in Flows /\ q \in Queues
    BY <1>1, <1>2, DataPlaneConstants DEF Packet, Frames
  <1>6. deliverQueues[n][q] \in Seq(sent)
    <2>1. deliverQueues[n][q] \in Seq(Waiting(n, q)) /\ Waiting(n, q) \subseteq sent
      BY <1>5 DEF HeldInv, DeliverOK, Waiting
    <2> QED
      BY <2>1, QueueGrows
  <1> HIDE DEF p, q
  <1>7. ASSUME NEW m \in Nodes, NEW g \in Flows
        PROVE  OnlyFlow(deliverQueues'[m][QueueOf[g]], g) =
                 IF m = n /\ QueueOf[g] = q THEN OnlyFlow(s, g) ELSE queue[m][g]
    <2>1. DeliverOK
      BY DEF HeldInv
    <2>2. PICK x : x = s
      OBVIOUS
    <2>3. PICK r \in Queues : r = q
      BY <1>5
    <2>4. deliverQueues' = [deliverQueues EXCEPT ![n][r] = x]
      BY <1>1, <2>2, <2>3
    <2> HIDE DEF s
    <2>5. OnlyFlow(deliverQueues'[m][QueueOf[g]], g) =
            IF m = n /\ QueueOf[g] = r THEN OnlyFlow(x, g) ELSE queue[m][g]
      BY <2>1, <2>4, QueueChanges
    <2> QED
      BY <2>2, <2>3, <2>5
  <1>8. ASSUME NEW m \in Nodes, NEW g \in Flows, m = n, QueueOf[g] = q
        PROVE  queue[m][g] = OnlyFlow(deliverQueues[n][q], g)
    BY <1>8 DEF queue
  <1>9. /\ queue = [m \in Nodes |-> [g \in Flows |-> queue[m][g]]]
        /\ queue' = [m \in Nodes |-> [g \in Flows |-> OnlyFlow(deliverQueues'[m][QueueOf[g]], g)]]
    BY DEF queue, OnlyFlow
  <1>10. CASE ~HasRoom(deliverQueues[n][q])
    <2>1. s = deliverQueues[n][q]
      BY <1>10 DEF Enqueued
    <2>2. ASSUME NEW m \in Nodes, NEW g \in Flows
          PROVE  OnlyFlow(deliverQueues'[m][QueueOf[g]], g) = queue[m][g]
      BY <1>7, <1>8, <2>1
    <2>3. queue' = queue
      BY <1>9, <2>2
    <2> QED
      BY <1>1, <1>2, <1>3, <1>4, <2>3 DEF Delivery!PassOn
  <1>11. CASE HasRoom(deliverQueues[n][q])
    <2>1. s = Append(deliverQueues[n][q], p)
      BY <1>11 DEF Enqueued
    <2>2. \A g : OnlyFlow(s, g) = IF p.flow = g THEN Append(OnlyFlow(deliverQueues[n][q], g), p)
                                  ELSE OnlyFlow(deliverQueues[n][q], g)
      <3> HIDE DEF s
      <3>1. ASSUME NEW g
            PROVE  OnlyFlow(Append(deliverQueues[n][q], p), g) =
                     IF p.flow = g THEN Append(OnlyFlow(deliverQueues[n][q], g), p)
                     ELSE OnlyFlow(deliverQueues[n][q], g)
        BY <1>2, <1>6, OnlyFlowAppend
      <3> QED
        BY <2>1, <3>1
    <2> HIDE DEF s
    <2>3. q = QueueOf[p.flow] /\ p.flow \in Flows
      BY <1>5 DEF q
    <2>4. ASSUME NEW m \in Nodes, NEW g \in Flows
          PROVE  OnlyFlow(deliverQueues'[m][QueueOf[g]], g) =
                   IF m = n /\ g = p.flow THEN Append(queue[n][p.flow], p) ELSE queue[m][g]
      <3>1. CASE m = n /\ QueueOf[g] = q
        <4>1. OnlyFlow(deliverQueues'[m][QueueOf[g]], g) = OnlyFlow(s, g)
          BY <1>7, <3>1
        <4>2. queue[m][g] = OnlyFlow(deliverQueues[n][q], g)
          BY <1>8, <3>1
        <4>3. OnlyFlow(s, g) = IF p.flow = g THEN Append(queue[m][g], p) ELSE queue[m][g]
          BY <2>2, <4>2
        <4> QED
          BY <3>1, <4>1, <4>3
      <3>2. CASE ~(m = n /\ QueueOf[g] = q)
        <4>1. OnlyFlow(deliverQueues'[m][QueueOf[g]], g) = queue[m][g]
          BY <1>7, <3>2
        <4> QED
          BY <2>3, <3>2, <4>1
      <3> QED
        BY <3>1, <3>2
    <2>5. queue' = [m \in Nodes |-> [g \in Flows |->
                      IF m = n /\ g = p.flow THEN Append(queue[n][p.flow], p) ELSE queue[m][g]]]
      BY <1>9, <2>4
    <2>6. [queue EXCEPT ![n][p.flow] = Append(@, p)] =
            [m \in Nodes |-> [g \in Flows |->
               IF m = n /\ g = p.flow THEN Append(queue[n][p.flow], p) ELSE queue[m][g]]]
      BY <2>3 DEF queue
    <2>7. queue' = [queue EXCEPT ![n][p.flow] = Append(@, p)]
      BY <2>5, <2>6
    <2> QED
      BY <1>1, <1>2, <1>3, <1>4, <1>5, <2>7 DEF Delivery!PassOn
  <1> QED
    BY <1>10, <1>11

\* The oldest packet of a TUN queue is the oldest of its flow.
LEMMA DeliverIsWrite ==
    ASSUME HeldInv, NEW n \in Nodes, NEW q \in Queues, Deliver(n, q)
    PROVE  \E f \in Flows : Delivery!Write(n, f)
  <1> DEFINE b == deliverQueues[n][q]
             p == Head(b)
             f == p.flow
  <1>1. /\ b # <<>> /\ UNCHANGED <<worker, sent, log>>
        /\ tun' = tun \/ tun' = [tun EXCEPT ![n] = Append(@, p)]
        /\ deliverQueues' = [deliverQueues EXCEPT ![n][q] = Tail(b)]
    BY DEF Deliver
  <1>2. b \in Seq(Waiting(n, q))
    BY DEF HeldInv, DeliverOK
  <1>3. p \in Waiting(n, q)
    BY <1>1, <1>2, QueueEnds
  <1>4. f \in Flows /\ QueueOf[f] = q
    BY <1>3 DEF Waiting, HeldInv, CountersOK, Packets
  <1>5. held' = held
    BY <1>1 DEF held
  <1>6. \A g : IF p.flow = g
               THEN /\ OnlyFlow(b, g) # <<>> /\ Head(OnlyFlow(b, g)) = p
                    /\ Tail(OnlyFlow(b, g)) = OnlyFlow(Tail(b), g)
               ELSE OnlyFlow(b, g) = OnlyFlow(Tail(b), g)
    BY <1>1, <1>2, OnlyFlowTail
  <1>7. ASSUME NEW m \in Nodes, NEW g \in Flows
        PROVE  OnlyFlow(deliverQueues'[m][QueueOf[g]], g) =
                 IF m = n /\ QueueOf[g] = q THEN OnlyFlow(Tail(b), g) ELSE queue[m][g]
    <2>1. DeliverOK
      BY DEF HeldInv
    <2>2. PICK s : s = Tail(b)
      OBVIOUS
    <2>3. deliverQueues' = [deliverQueues EXCEPT ![n][q] = s]
      BY <1>1, <2>2
    <2> QED
      BY <2>1, <2>2, <2>3, QueueChanges
  <1>8. ASSUME NEW m \in Nodes, NEW g \in Flows, m = n, QueueOf[g] = q
        PROVE  queue[m][g] = OnlyFlow(b, g)
    BY <1>8 DEF queue
  <1> HIDE DEF b, p
  <1>9. queue[n][f] # <<>> /\ Head(queue[n][f]) = p
    BY <1>4, <1>6, <1>8
  <1>10. ASSUME NEW m \in Nodes, NEW g \in Flows
         PROVE  OnlyFlow(deliverQueues'[m][QueueOf[g]], g) =
                  IF m = n /\ g = f THEN Tail(queue[n][f]) ELSE queue[m][g]
    <2>1. CASE m = n /\ QueueOf[g] = q
      <3>1. OnlyFlow(deliverQueues'[m][QueueOf[g]], g) = OnlyFlow(Tail(b), g)
        BY <1>7, <2>1
      <3>2. queue[m][g] = OnlyFlow(b, g)
        BY <1>8, <2>1
      <3>3. OnlyFlow(Tail(b), g) = IF p.flow = g THEN Tail(queue[m][g]) ELSE queue[m][g]
        BY <1>6, <3>2
      <3> QED
        BY <2>1, <3>1, <3>3
    <2>2. CASE ~(m = n /\ QueueOf[g] = q)
      <3>1. OnlyFlow(deliverQueues'[m][QueueOf[g]], g) = queue[m][g]
        BY <1>7, <2>2
      <3> QED
        BY <1>4, <2>2, <3>1
    <2> QED
      BY <2>1, <2>2
  <1>11. queue' = [m \in Nodes |-> [g \in Flows |->
                     IF m = n /\ g = f THEN Tail(queue[n][f]) ELSE queue[m][g]]]
    <2>1. queue' = [m \in Nodes |-> [g \in Flows |-> OnlyFlow(deliverQueues'[m][QueueOf[g]], g)]]
      BY DEF queue, OnlyFlow
    <2> QED
      BY <1>10, <2>1
  <1>12. [queue EXCEPT ![n][f] = Tail(@)] =
           [m \in Nodes |-> [g \in Flows |->
              IF m = n /\ g = f THEN Tail(queue[n][f]) ELSE queue[m][g]]]
    BY <1>4 DEF queue
  <1>13. queue' = [queue EXCEPT ![n][f] = Tail(@)]
    BY <1>11, <1>12
  <1>14. tun' \in {tun, [tun EXCEPT ![n] = Append(@, Head(queue[n][f]))]}
    BY <1>1, <1>9
  <1>15. Delivery!Write(n, f)
    BY <1>1, <1>5, <1>9, <1>13, <1>14 DEF Delivery!Write
  <1> QED
    BY <1>4, <1>15

\* A new process holds nothing, and remembers nothing.
LEMMA NewProcessIsRestart ==
    ASSUME HeldInv, NEW n \in Nodes, NewProcess(n) PROVE Delivery!Restart(n)
  <1>1. /\ worker' = [worker EXCEPT ![n] = [w \in Workers[n] |-> Idle]]
        /\ deliverQueues' = [deliverQueues EXCEPT ![n] = [q \in Queues |-> <<>>]]
        /\ log' = [log EXCEPT ![n] = <<>>] /\ UNCHANGED <<sent, tun>>
    BY DEF NewProcess
  <1>2. held' = [held EXCEPT ![n] = [w \in AllWorkers |-> Nothing]]
    <2>1. \A m \in Nodes : \A v \in Workers[m] :
            worker'[m][v] = IF m = n THEN Idle ELSE worker[m][v]
      BY <1>1 DEF HeldInv, WorkersOK
    <2>2. held' = [m \in Nodes |-> [v \in AllWorkers |->
                     IF v \in Workers[m] /\ worker'[m][v].stage = "remembered"
                     THEN Packet(worker'[m][v].frame) ELSE Nothing]]
      BY DEF held
    <2>3. ASSUME NEW m \in Nodes, NEW v \in AllWorkers
          PROVE  (IF v \in Workers[m] /\ worker'[m][v].stage = "remembered"
                  THEN Packet(worker'[m][v].frame) ELSE Nothing)
                 = (IF m = n THEN Nothing ELSE
                    IF v \in Workers[m] /\ worker[m][v].stage = "remembered"
                    THEN Packet(worker[m][v].frame) ELSE Nothing)
      BY <2>1 DEF Idle
    <2>4. [held EXCEPT ![n] = [w \in AllWorkers |-> Nothing]] =
            [m \in Nodes |-> [v \in AllWorkers |->
               IF m = n THEN Nothing ELSE
               IF v \in Workers[m] /\ worker[m][v].stage = "remembered"
               THEN Packet(worker[m][v].frame) ELSE Nothing]]
      BY DEF held
    <2> QED
      BY <2>2, <2>3, <2>4
  <1>3. queue' = [queue EXCEPT ![n] = [f \in Flows |-> <<>>]]
    <2>1. \A m \in Nodes, r \in Queues :
            deliverQueues'[m][r] = IF m = n THEN <<>> ELSE deliverQueues[m][r]
      BY <1>1 DEF HeldInv, DeliverOK
    <2>2. \A f \in Flows : QueueOf[f] \in Queues
      BY DataPlaneConstants
    <2>3. queue' = [m \in Nodes |-> [f \in Flows |-> OnlyFlow(deliverQueues'[m][QueueOf[f]], f)]]
      BY DEF queue, OnlyFlow
    <2>4. ASSUME NEW m \in Nodes, NEW f \in Flows
          PROVE  OnlyFlow(deliverQueues'[m][QueueOf[f]], f) =
                   IF m = n THEN <<>> ELSE OnlyFlow(deliverQueues[m][QueueOf[f]], f)
      BY <2>1, <2>2, OnlyFlowEmpty
    <2>5. [queue EXCEPT ![n] = [f \in Flows |-> <<>>]] =
            [m \in Nodes |-> [f \in Flows |->
               IF m = n THEN <<>> ELSE OnlyFlow(deliverQueues[m][QueueOf[f]], f)]]
      BY DEF queue
    <2> QED
      BY <2>3, <2>4, <2>5
  <1> QED
    BY <1>1, <1>2, <1>3 DEF Delivery!Restart

\* A worker that takes a frame has not taken its packet in yet.
LEMMA TakeIsUnseen ==
    ASSUME HeldInv, NEW n \in Nodes, NEW w \in Workers[n], TakeFast(n, w)
    PROVE  UNCHANGED Delivery!vars
  <1> DEFINE x == [stage |-> "taken", frame |-> Head(fastQueue[n])]
  <1>1. /\ worker' = [worker EXCEPT ![n][w] = x] /\ worker[n][w] = Idle
        /\ UNCHANGED <<deliverQueues, sent, log, tun>>
    BY DEF TakeFast
  <1>2. Hold(x) = Nothing
    BY DEF Hold
  <1> HIDE DEF x
  <1>3. held' = [held EXCEPT ![n][w] = Nothing]
    <2>1. WorkersOK
      BY DEF HeldInv
    <2>2. held' = [held EXCEPT ![n][w] = Hold(x)]
      BY <1>1, <2>1, HeldChanges
    <2> QED
      BY <1>2, <2>2
  <1>4. held[n][w] = Nothing
    <2>1. Hold(worker[n][w]) = Nothing
      BY <1>1 DEF Hold, Idle
    <2> QED
      BY <2>1, HeldValues
  <1>5. held' = held
    BY <1>3, <1>4, HeldValues
  <1> QED
    BY <1>1, <1>5, Unseen

\* Every step of the data plane is one of MeshDelivery, or one it does not see.
LEMMA DeliveryStep ==
    ASSUME HeldInv, [Next]_vars PROVE [Delivery!Next]_(Delivery!vars)
  <1>1. CASE UNCHANGED vars
    <2>1. UNCHANGED <<worker, deliverQueues, sent, log, tun>>
      BY <1>1 DEF vars, queues
    <2> QED
      BY <2>1, Unseen DEF held
  <1>2. ASSUME NEW n \in Nodes,
               \/ \E p \in Nodes : Hello(n, p) \/ Ping(n, p)
               \/ \E f \in net : HandleDatagram(n, f) \/ EnqueueFast(n, f)
               \/ UDPSend(n)
               \/ \E p \in Nodes : DirectoryDrops(n, p)
        PROVE  UNCHANGED Delivery!vars
    <2>1. UNCHANGED <<worker, deliverQueues, sent, log, tun>>
      BY <1>2 DEF Hello, Ping, HandleDatagram, EnqueueFast, UDPSend, DirectoryDrops, queues
    <2> QED
      BY <2>1, Unseen DEF held
  <1>3. ASSUME NEW n \in Nodes, NEW w \in Workers[n], HandleFast(n, w)
        PROVE  [Delivery!Next]_(Delivery!vars)
    <2>1. w \in AllWorkers
      BY DEF AllWorkers
    <2> QED
      BY <1>3, <2>1, HandleIsTakeIn DEF Delivery!Next
  <1>4. ASSUME NEW n \in Nodes, NEW w \in Workers[n], RelayFast(n, w) \/ EnqueueDeliver(n, w)
        PROVE  Delivery!Next
    <2>1. w \in AllWorkers
      BY DEF AllWorkers
    <2> QED
      BY <1>4, <2>1, RelayIsPassOn, EnqueueIsPassOn DEF Delivery!Next
  <1>5. ASSUME NEW n \in Nodes, Restart(n) \/ \E w \in Workers[n] : FastPanics(n, w)
        PROVE  Delivery!Next
    BY <1>5, NewProcessIsRestart DEF Restart, FastPanics, Delivery!Next
  <1>6. ASSUME NEW n \in Nodes, NEW q \in Queues, Deliver(n, q) PROVE Delivery!Next
    BY <1>6, DeliverIsWrite DEF Delivery!Next
  <1>7. ASSUME NEW n \in Nodes, NEW t \in Traffic, SendIP(n, t) PROVE Delivery!Next
    BY <1>7, SealIsSend DEF Delivery!Next
  <1>8. ASSUME NEW n \in Nodes, NEW w \in Workers[n], TakeFast(n, w)
        PROVE  UNCHANGED Delivery!vars
    BY <1>8, TakeIsUnseen
  <1> QED
    BY <1>1, <1>2, <1>3, <1>4, <1>5, <1>6, <1>7, <1>8 DEF Next

\* The fast data plane implements MeshDelivery, for any mesh, any number of
\* workers, queues and shards, and whatever the network does.
THEOREM DataPlaneDelivers == Spec => Delivers
  BY DeliveryInit, DeliveryStep, HeldInvariant, PTL DEF Spec, Delivers, Delivery!Spec
=============================================================================
