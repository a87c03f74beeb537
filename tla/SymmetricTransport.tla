------------------------- MODULE SymmetricTransport -------------------------
(***************************************************************************)
(* The UDP sockets of one node behind a symmetric NAT (nat = "symmetric"): *)
(* the primary socket n.conn, one punched socket per superpeer in          *)
(* n.symmetricConns, and the goroutines that replace them.                 *)
(*                                                                         *)
(* Two kinds of goroutine run concurrently once start() has returned:      *)
(*   - Pass, the holder of recoveryMu: recoverNetwork, roamRefresh,        *)
(*     refreshEndpointAttempt and verifyEndpoint are mutually exclusive    *)
(*     (recoveryMu.TryLock), so one thread stands for whichever holds it;  *)
(*   - for each superpeer r, the goroutine of retryDeadEdge(r), at most    *)
(*     one at a time (edgeRetries).  The thread is named by its relay.     *)
(* Both call establishSymmetricTransportOnce, which shares one burst per   *)
(* relay through symmetricBurstInFlight.                                   *)
(*                                                                         *)
(* A step is the code between two points at which another goroutine can    *)
(* be seen: a lock region, or the use of a value read in an earlier one.   *)
(* Locals that have gone out of scope are reset, so that they do not tell  *)
(* states apart.                                                           *)
(***************************************************************************)
EXTENDS FiniteSets, Functions

CONSTANTS Relays,     \* the superpeers among the node's neighbors
          Pass,       \* the thread that holds recoveryMu
          Socks,      \* identities of UDP sockets
          BurstSize,  \* symmetricBurstSize: sockets opened by one burst
          NoSock,     \* a nil *net.UDPConn
          NoThread,   \* no burst in flight
          NoRelay     \* Pass is not establishing a transport

Threads == Relays \cup {Pass}

ASSUME ConstantsDistinct ==
    /\ Pass \notin Relays
    /\ NoSock \notin Socks
    /\ NoThread \notin Threads
    /\ NoRelay \notin Relays

VARIABLES
    open,       \* sockets whose descriptor is open
    conn,       \* n.conn, the primary socket
    conns,      \* n.symmetricConns
    readers,    \* n.receiveSockets: sockets with a running receive loop
    displaced,  \* history: open transports overwritten by a second install
    live,       \* a datagram of r arrived within linkTimeout (n.usable), or
                \* over the LAN within lanHoldTimeout (relayLANLive)
    backoff,    \* n.symmetricBackoff[r] is in the future
    inFlight,   \* n.symmetricBurstInFlight
    genMoved,   \* networkGen differs from the generation of t's burst
    probes,     \* sockets opened by t's burst
    held,       \* a *net.UDPConn local of thread t
    recovering, \* the holder of recoveryMu is recoverNetwork
    todo,       \* relays Pass has still to try in this round
    target,     \* the relay Pass is establishing a transport to
    pc          \* where each thread is

sockVars  == <<open, conn, conns, readers, displaced>>
peerVars  == <<live, backoff>>
burstVars == <<inFlight, genMoved, probes>>
passVars  == <<recovering, todo, target>>
vars == <<sockVars, peerVars, burstVars, passVars, held, pc>>

PassStates  == {"idle", "rebind", "detect", "forget", "reset", "rejoin",
                "pick"}
EdgeStates  == {"off", "due", "drop", "promote", "discard"}
BurstStates == {"check", "join", "rendezvous", "probe", "install", "swap",
                "finish"}

\* Sockets that some variable of the program still points to.  Any other
\* identity may be returned by the next net.ListenUDP.
Referenced == open \cup {conn} \cup Range(conns) \cup Range(held)
                   \cup UNION Range(probes)
Free == Socks \ Referenced

\* conn.Close() on every socket of S.  The receive loop of a closed socket
\* reads net.ErrClosed and returns without touching anything else, so the
\* model ends it with the close.
Close(S) == /\ open' = open \ S
            /\ readers' = readers \ S
            /\ displaced' = displaced \ S

\* Mutant: the loop started on a closed socket does not notice.
ReplaceUDPConnLoopStays(s) ==
    /\ conn' = s
    /\ open' = open \ {conn}
    /\ readers' = (readers \ {conn}) \cup {s}
    /\ displaced' = displaced \ {conn}

\* n.replaceUDPConn(s): the swap under connMu, the close of the old socket
\* (also when the old socket is s itself) and addReceiveSocket(s).  A loop
\* started on a closed socket ends at once.
ReplaceUDPConn(s) ==
    /\ conn' = s
    /\ open' = open \ {conn}
    /\ readers' = (readers \ {conn}) \cup ({s} \cap open')
    /\ displaced' = displaced \ {conn}

\* n.connForPeer(r)
ConnForPeer(r) == IF conns[r] # NoSock THEN conns[r] ELSE conn

Goto(t, label) == pc' = [pc EXCEPT ![t] = label]
Hold(t, s) == held' = [held EXCEPT ![t] = s]

\* The relay thread t establishes a transport to.
Tgt(t) == IF t = Pass THEN target ELSE t

\* After start(): one open primary, which is the first punched transport
\* unless a relay answered over the LAN and no burst was needed.
Init ==
    /\ \E s \in Socks :
        /\ open = {s} /\ conn = s /\ readers = {s}
        /\ conns \in {f \in [Relays -> {s, NoSock}] :
                        \A r, q \in Relays : f[r] = s /\ f[q] = s => r = q}
    /\ displaced = {}
    /\ live = [r \in Relays |-> FALSE]
    /\ backoff = [r \in Relays |-> FALSE]
    /\ inFlight = [r \in Relays |-> NoThread]
    /\ genMoved = [t \in Threads |-> FALSE]
    /\ probes = [t \in Threads |-> {}]
    /\ held = [t \in Threads |-> NoSock]
    /\ recovering = FALSE /\ todo = {} /\ target = NoRelay
    /\ pc = [t \in Threads |-> IF t = Pass THEN "idle" ELSE "off"]

(***************************************************************************)
(* establishSymmetricTransportOnce(Tgt(t), ...), run by thread t.          *)
(***************************************************************************)

\* Back to the caller with the result ok.  Pass takes its next relay; a
\* retry goroutine ends when a transport is there or the edgeRetryAttempts
\* are used up, and tries again otherwise.
ReturnToCaller(t, ok) ==
    /\ \/ t = Pass /\ Goto(t, "pick")
       \/ t # Pass /\ Goto(t, "off")
       \/ t # Pass /\ ~ok /\ Goto(t, "check")
    /\ target' = IF t = Pass THEN NoRelay ELSE target
    /\ UNCHANGED <<recovering, todo>>

\* The early returns: a transport is installed, the relay answers over the
\* LAN, or the backoff is pending.
OnceReturnEarly(t) ==
    LET r == Tgt(t) IN
    /\ pc[t] = "check"
    /\ \/ /\ conns[r] # NoSock \/ live[r]
          /\ ReturnToCaller(t, TRUE)
       \/ /\ conns[r] = NoSock /\ backoff[r]
          /\ ReturnToCaller(t, FALSE)
    /\ UNCHANGED <<sockVars, peerVars, burstVars, held>>

OncePassChecks(t) ==
    /\ pc[t] = "check"
    /\ conns[Tgt(t)] = NoSock
    /\ ~backoff[Tgt(t)]
    /\ Goto(t, "join")
    /\ UNCHANGED <<sockVars, peerVars, burstVars, passVars, held>>

\* symmetricBurstMu: a burst is running, so wait for its outcome.  The wait
\* changes nothing the node shares.
JoinBurst(t) ==
    /\ pc[t] = "join"
    /\ inFlight[Tgt(t)] # NoThread
    /\ \E ok \in BOOLEAN : ReturnToCaller(t, ok)
    /\ UNCHANGED <<sockVars, peerVars, burstVars, held>>

\* Mutant: the burst in flight is overwritten instead of joined.
StartBurstUnshared(t) ==
    /\ pc[t] = "join"
    /\ inFlight' = [inFlight EXCEPT ![Tgt(t)] = t]
    /\ Goto(t, "rendezvous")
    /\ UNCHANGED <<sockVars, peerVars, genMoved, probes, passVars, held>>

\* symmetricBurstMu: own the burst, then load the network generation.
StartBurst(t) ==
    /\ pc[t] = "join"
    /\ inFlight[Tgt(t)] = NoThread
    /\ inFlight' = [inFlight EXCEPT ![Tgt(t)] = t]
    /\ Goto(t, "rendezvous")
    /\ UNCHANGED <<sockVars, peerVars, genMoved, probes, passVars, held>>

\* The deferred function and the end of the burst's locals.
EndBurst(t, ok) ==
    /\ inFlight' = [inFlight EXCEPT ![Tgt(t)] = NoThread]
    /\ genMoved' = [genMoved EXCEPT ![t] = FALSE]
    /\ probes' = [probes EXCEPT ![t] = {}]
    /\ ReturnToCaller(t, ok)

\* symmetricBurstFailed and symmetricBurstSucceeded
SetBackoff(t, pending) ==
    /\ backoff' = [backoff EXCEPT ![Tgt(t)] = pending]
    /\ UNCHANGED live

\* requestSymmetricScan failed or its ACK timed out; or, without a backoff,
\* the relay's endpoint could not be resolved.
RendezvousFails(t) ==
    /\ pc[t] = "rendezvous"
    /\ \E pending \in {TRUE, backoff[Tgt(t)]} : SetBackoff(t, pending)
    /\ EndBurst(t, FALSE)
    /\ UNCHANGED <<sockVars, held>>

\* Mutant: the burst may also probe from the primary socket.
OpenProbesOnPrimary(t) ==
    /\ pc[t] = "rendezvous"
    /\ \E P \in SUBSET (Free \cup ({conn} \cap open)) :
        /\ Cardinality(P) <= BurstSize
        /\ probes' = [probes EXCEPT ![t] = P]
        /\ open' = open \cup P
    /\ Goto(t, "probe")
    /\ UNCHANGED <<conn, conns, readers, displaced, peerVars, inFlight,
                   genMoved, passVars, held>>

\* The ACK arrived (or the coordinator is an old one): open the probes.  A
\* ListenUDP, bind or write that fails only makes the set smaller.
OpenProbes(t) ==
    /\ pc[t] = "rendezvous"
    /\ \E P \in SUBSET Free :
        /\ Cardinality(P) <= BurstSize
        /\ probes' = [probes EXCEPT ![t] = P]
        /\ open' = open \cup P
    /\ Goto(t, "probe")
    /\ UNCHANGED <<conn, conns, readers, displaced, peerVars, inFlight,
                   genMoved, passVars, held>>

\* awaitSymmetricHello delivered a reply, but the network changed under the
\* burst: drop every probe.
AbandonBurst(t) ==
    /\ pc[t] = "probe"
    /\ genMoved[t]
    /\ probes[t] # {}
    /\ Close(probes[t])
    /\ EndBurst(t, FALSE)
    /\ UNCHANGED <<conn, conns, peerVars, held>>

\* Mutant: the probes that were not selected stay open.
SelectProbeKeepsLosers(t) ==
    /\ pc[t] = "probe"
    /\ ~genMoved[t]
    /\ \E s \in probes[t] : Hold(t, s)
    /\ probes' = [probes EXCEPT ![t] = {}]
    /\ live' = [live EXCEPT ![Tgt(t)] = TRUE]
    /\ Goto(t, "install")
    /\ UNCHANGED <<sockVars, backoff, inFlight, genMoved, passVars>>

\* The first HELLO selects a probe: the relay is touched and all the other
\* probes are closed.
SelectProbe(t) ==
    /\ pc[t] = "probe"
    /\ ~genMoved[t]
    /\ \E s \in probes[t] : Hold(t, s) /\ Close(probes[t] \ {s})
    /\ probes' = [probes EXCEPT ![t] = {}]
    /\ live' = [live EXCEPT ![Tgt(t)] = TRUE]
    /\ Goto(t, "install")
    /\ UNCHANGED <<conn, conns, backoff, inFlight, genMoved, passVars>>

\* symmetricBurstTimeout without a HELLO.
BurstTimesOut(t) ==
    /\ pc[t] = "probe"
    /\ Close(probes[t])
    /\ SetBackoff(t, TRUE)
    /\ EndBurst(t, FALSE)
    /\ UNCHANGED <<conn, conns, held>>

\* Mutant: no receive loop for a transport that is not the primary.
InstallSymmetricConnDeaf(t) ==
    LET r == Tgt(t) IN
    /\ pc[t] = "install"
    /\ conns' = [conns EXCEPT ![r] = held[t]]
    /\ displaced' = displaced \cup ({conns[r]} \cap open)
    /\ \/ /\ \A q \in Relays : conns[q] = NoSock
          /\ Goto(t, "swap")
          /\ UNCHANGED held
       \/ /\ \E q \in Relays : conns[q] # NoSock
          /\ Hold(t, NoSock)
          /\ Goto(t, "finish")
    /\ UNCHANGED <<open, conn, readers, peerVars, burstVars, passVars>>

\* installSymmetricConn, the region under symmetricConnMu.  The first
\* transport is to become the primary socket; for any other one the receive
\* loop is started here.
InstallSymmetricConn(t) ==
    LET r == Tgt(t) IN
    /\ pc[t] = "install"
    /\ conns' = [conns EXCEPT ![r] = held[t]]
    /\ displaced' = displaced \cup ({conns[r]} \cap open)
    /\ \/ /\ \A q \in Relays : conns[q] = NoSock
          /\ Goto(t, "swap")
          /\ UNCHANGED <<readers, held>>
       \/ /\ \E q \in Relays : conns[q] # NoSock
          /\ readers' = readers \cup ({held[t]} \cap open)
          /\ Hold(t, NoSock)
          /\ Goto(t, "finish")
    /\ UNCHANGED <<open, conn, peerVars, burstVars, passVars>>

SwapPrimary(t) ==
    /\ pc[t] = "swap"
    /\ ReplaceUDPConn(held[t])
    /\ Hold(t, NoSock)
    /\ Goto(t, "finish")
    /\ UNCHANGED <<conns, peerVars, burstVars, passVars>>

\* STUN, register and bootstrap after a new primary, then
\* symmetricBurstSucceeded.
FinishBurst(t) ==
    /\ pc[t] = "finish"
    /\ SetBackoff(t, FALSE)
    /\ EndBurst(t, TRUE)
    /\ UNCHANGED <<sockVars, held>>

Burst(t) ==
    \/ OnceReturnEarly(t) \/ OncePassChecks(t)
    \/ JoinBurst(t) \/ StartBurst(t)
    \/ RendezvousFails(t) \/ OpenProbes(t)
    \/ AbandonBurst(t) \/ SelectProbe(t) \/ BurstTimesOut(t)
    \/ InstallSymmetricConn(t) \/ SwapPrimary(t) \/ FinishBurst(t)

(***************************************************************************)
(* retryDeadEdge(r): the goroutine of one dead superpeer edge.             *)
(***************************************************************************)

\* linkHealth finds the edge dead, or pingAll cannot even send the probe,
\* and no retry goroutine is running.
RetryDeadEdge(r) ==
    /\ pc[r] = "off"
    /\ ~live[r] \/ ConnForPeer(r) \notin open
    /\ Goto(r, "due")
    /\ UNCHANGED <<sockVars, peerVars, burstVars, passVars, held>>

\* symmetricEdgeNeedsRescan is false: fresh traffic revived the edge.
EdgeRecovered(r) ==
    /\ pc[r] = "due"
    /\ live[r]
    /\ Goto(r, "off")
    /\ UNCHANGED <<sockVars, peerVars, burstVars, passVars, held>>

\* The edge is still dead and the backoff wait is over; resetSymmetricRelay
\* reads the primary socket.
ReadPrimary(r) ==
    /\ pc[r] = "due"
    /\ ~live[r]
    /\ ~backoff[r]
    /\ Hold(r, conn)
    /\ Goto(r, "drop")
    /\ UNCHANGED <<sockVars, peerVars, burstVars, passVars>>

\* Mutant: the dead transport is closed but stays in n.symmetricConns.
DropTransportKeepsEntry(r) ==
    /\ pc[r] = "drop"
    /\ \/ /\ conns[r] = NoSock
          /\ Hold(r, NoSock)
          /\ Goto(r, "check")
       \/ /\ conns[r] # NoSock
          /\ Hold(r, conns[r])
          /\ Goto(r, "discard")
    /\ UNCHANGED <<sockVars, peerVars, burstVars, passVars>>

\* resetSymmetricRelay, the region under symmetricConnMu.  The promoted
\* socket comes from a range over the map that still holds the dead relay's
\* own entry, so there always is one and no fresh socket is ever created.
DropTransport(r) ==
    /\ pc[r] = "drop"
    /\ \/ /\ conns[r] = NoSock
          /\ Hold(r, NoSock)
          /\ Goto(r, "check")
       \/ /\ conns[r] # NoSock
          /\ conns[r] = held[r]
          /\ \E s \in Range(conns) \ {NoSock} : Hold(r, s)
          /\ Goto(r, "promote")
       \/ /\ conns[r] # NoSock
          /\ conns[r] # held[r]
          /\ Hold(r, conns[r])
          /\ Goto(r, "discard")
    /\ conns' = [conns EXCEPT ![r] = NoSock]
    /\ UNCHANGED <<open, conn, readers, displaced, peerVars, burstVars,
                   passVars>>

PromoteTransport(r) ==
    /\ pc[r] = "promote"
    /\ ReplaceUDPConn(held[r])
    /\ Hold(r, NoSock)
    /\ Goto(r, "check")
    /\ UNCHANGED <<conns, peerVars, burstVars, passVars>>

DiscardTransport(r) ==
    /\ pc[r] = "discard"
    /\ Close({held[r]})
    /\ Hold(r, NoSock)
    /\ Goto(r, "check")
    /\ UNCHANGED <<conn, conns, peerVars, burstVars, passVars>>

Edge(r) ==
    \/ RetryDeadEdge(r) \/ EdgeRecovered(r) \/ ReadPrimary(r)
    \/ DropTransport(r) \/ PromoteTransport(r) \/ DiscardTransport(r)

(***************************************************************************)
(* The holder of recoveryMu.                                               *)
(***************************************************************************)

\* Mutant: a node without a working socket does not start a recovery.
RecoverNetworkNeedsSocket ==
    /\ pc[Pass] = "idle"
    /\ conn \in open
    /\ \A r \in Relays : ~live[r]
    /\ recovering' = TRUE
    /\ Goto(Pass, "rebind")
    /\ UNCHANGED <<sockVars, peerVars, burstVars, todo, target, held>>

\* recoverNetwork: every neighbor is stale, recoveryNext has passed.
RecoverNetwork ==
    /\ pc[Pass] = "idle"
    /\ \A r \in Relays : ~live[r]
    /\ recovering' = TRUE
    /\ Goto(Pass, "rebind")
    /\ UNCHANGED <<sockVars, peerVars, burstVars, todo, target, held>>

\* roamRefresh after a network change, refreshEndpointAttempt after a
\* control reconnect (and their timed retries).
RefreshEndpoint ==
    /\ pc[Pass] = "idle"
    /\ Goto(Pass, "rebind")
    /\ UNCHANGED <<sockVars, peerVars, burstVars, passVars, held>>

\* verifyEndpoint keeps the socket.
VerifyEndpoint ==
    /\ pc[Pass] = "idle"
    /\ Goto(Pass, "detect")
    /\ UNCHANGED <<sockVars, peerVars, burstVars, passVars, held>>

EndPass ==
    /\ Goto(Pass, "idle")
    /\ recovering' = FALSE
    /\ UNCHANGED <<todo, target>>

\* rebindUDPConn under udpReadMu and connMu: the old socket is closed first,
\* so a failing ListenUDP leaves a closed primary behind.
RebindFails ==
    /\ pc[Pass] = "rebind"
    /\ Close({conn})
    /\ EndPass
    /\ UNCHANGED <<conn, conns, peerVars, burstVars, held>>

\* The bump of networkGen is seen by every burst in flight; the receive
\* loop of the new socket is started at the end.
RebindUDPConn ==
    /\ pc[Pass] = "rebind"
    /\ \E s \in Free :
        /\ conn' = s
        /\ open' = (open \ {conn}) \cup {s}
        /\ readers' = (readers \ {conn}) \cup {s}
    /\ displaced' = displaced \ {conn}
    /\ genMoved' = [t \in Threads |-> \E r \in Relays : inFlight[r] = t]
    /\ Goto(Pass, IF recovering THEN "forget" ELSE "detect")
    /\ UNCHANGED <<conns, peerVars, inFlight, probes, passVars, held>>

\* STUN, the TUN restore, register or bootstrap failed; or a refresh or a
\* verification found the same endpoint, or only another port.
PassStops ==
    /\ pc[Pass] \in {"detect", "rejoin"}
    /\ EndPass
    /\ UNCHANGED <<sockVars, peerVars, burstVars, held>>

\* STUN answered through the open primary; the IP changed, or the pass is a
\* roamRefresh, which rebuilds the transport in any case.
EndpointChanged ==
    /\ pc[Pass] = "detect"
    /\ conn \in open
    /\ Goto(Pass, "forget")
    /\ UNCHANGED <<sockVars, peerVars, burstVars, passVars, held>>

\* resetTransportState: forget the peers, then read the current primary.
ForgetPeers ==
    /\ pc[Pass] = "forget"
    /\ live' = [r \in Relays |-> FALSE]
    /\ Hold(Pass, conn)
    /\ Goto(Pass, "reset")
    /\ UNCHANGED <<sockVars, backoff, burstVars, passVars>>

\* resetTransportState under symmetricConnMu, then symmetricMu: close every
\* transport but the primary read above, empty the map, clear the backoff.
ResetTransports ==
    /\ pc[Pass] = "reset"
    /\ Close(Range(conns) \ {held[Pass]})
    /\ conns' = [r \in Relays |-> NoSock]
    /\ backoff' = [r \in Relays |-> FALSE]
    /\ Hold(Pass, NoSock)
    /\ Goto(Pass, "rejoin")
    /\ UNCHANGED <<conn, live, burstVars, passVars>>

\* STUN (recoverNetwork only now), register and bootstrap succeeded:
\* establishSymmetricTransport.  Its own generation check cannot fire here:
\* the thread holds recoveryMu, and only its holder rebinds.
Rejoin ==
    /\ pc[Pass] = "rejoin"
    /\ recovering => conn \in open
    /\ recovering' = FALSE
    /\ todo' = Relays
    /\ Goto(Pass, "pick")
    /\ UNCHANGED <<sockVars, peerVars, burstVars, target, held>>

PickRelay ==
    /\ pc[Pass] = "pick"
    /\ \E r \in todo : target' = r /\ todo' = todo \ {r}
    /\ Goto(Pass, "check")
    /\ UNCHANGED <<sockVars, peerVars, burstVars, recovering, held>>

\* Another of the symmetricBurstRetries rounds.
NextRound ==
    /\ pc[Pass] = "pick"
    /\ todo = {}
    /\ todo' = Relays
    /\ UNCHANGED <<sockVars, peerVars, burstVars, recovering, target, held, pc>>

PassDone ==
    /\ pc[Pass] = "pick"
    /\ todo = {}
    /\ EndPass
    /\ UNCHANGED <<sockVars, peerVars, burstVars, held>>

\* A pass that has begun.
PassSteps ==
    \/ RebindFails \/ RebindUDPConn
    \/ PassStops \/ EndpointChanged
    \/ ForgetPeers \/ ResetTransports
    \/ Rejoin \/ PickRelay \/ NextRound \/ PassDone

Recovery == RecoverNetwork \/ RefreshEndpoint \/ VerifyEndpoint \/ PassSteps

(***************************************************************************)
(* Time and the network.                                                   *)
(***************************************************************************)

\* A datagram of relay r can reach the node: r sends to the mapping of the
\* socket it was last heard on, or to the port of the primary (over the LAN,
\* or because rebindUDPConn reused the port of a punched primary).
CanHear(r) == {conn, ConnForPeer(r)} \cap readers # {}

\* handleDatagram and touch.
Traffic(r) ==
    /\ CanHear(r)
    /\ live' = [live EXCEPT ![r] = TRUE]
    /\ UNCHANGED <<sockVars, backoff, burstVars, passVars, held, pc>>

\* linkTimeout passes without a datagram of r.
LinkTimesOut(r) ==
    /\ live[r]
    /\ live' = [live EXCEPT ![r] = FALSE]
    /\ UNCHANGED <<sockVars, backoff, burstVars, passVars, held, pc>>

BackoffElapses(r) ==
    /\ backoff[r]
    /\ backoff' = [backoff EXCEPT ![r] = FALSE]
    /\ UNCHANGED <<sockVars, live, burstVars, passVars, held, pc>>

Environment ==
    \E r \in Relays : Traffic(r) \/ LinkTimesOut(r) \/ BackoffElapses(r)

Next == \/ \E t \in Threads : Burst(t)
        \/ \E r \in Relays : Edge(r)
        \/ Recovery
        \/ Environment

Spec == Init /\ [][Next]_vars

\* What the code's loops and timeouts guarantee.  A burst has a timeout in
\* every phase and linkHealth runs every five seconds; a pass ends because
\* its rounds are bounded by symmetricBurstRetries; the keepalive loop calls
\* recoverNetwork for ever and ListenUDP does not fail for ever.  A link
\* times out when nothing of the relay can arrive any more.
Fairness ==
    /\ \A t \in Threads : WF_vars(Burst(t))
    /\ \A r \in Relays : /\ WF_vars(Edge(r))
                         /\ WF_vars(BackoffElapses(r))
                         /\ WF_vars(LinkTimesOut(r) /\ ~CanHear(r))
    /\ WF_vars(PassSteps)
    /\ SF_vars(PassDone)
    /\ SF_vars(RecoverNetwork)
    /\ SF_vars(RebindUDPConn)

FairSpec == Spec /\ Fairness

-----------------------------------------------------------------------------
(***************************************************************************)
(* Properties                                                              *)
(***************************************************************************)

\* The variables have the values the code gives them; in particular receive
\* loops and displaced transports are of sockets that are open.
TypeOK ==
    /\ open \subseteq Socks
    /\ conn \in Socks
    /\ conns \in [Relays -> Socks \cup {NoSock}]
    /\ readers \subseteq open
    /\ displaced \subseteq open
    /\ live \in [Relays -> BOOLEAN]
    /\ backoff \in [Relays -> BOOLEAN]
    /\ inFlight \in [Relays -> Threads \cup {NoThread}]
    /\ genMoved \in [Threads -> BOOLEAN]
    /\ probes \in [Threads -> SUBSET Socks]
    /\ held \in [Threads -> Socks \cup {NoSock}]
    /\ recovering \in BOOLEAN
    /\ todo \subseteq Relays
    /\ target \in Relays \cup {NoRelay}
    /\ pc \in [Threads -> PassStates \cup EdgeStates \cup BurstStates]

\* The burst of thread t is past the point where it registered itself.
InBurst(t) == pc[t] \in BurstStates \ {"check", "join"}

\* symmetricBurstMu shares one burst per relay: recovery and edge retries
\* never scan the same superpeer at the same time (their rendezvous would
\* cancel each other on the relay).
OneBurstPerRelay ==
    \A t, u \in Threads :
        InBurst(t) /\ InBurst(u) /\ Tgt(t) = Tgt(u) => t = u

\* No descriptor is lost by install, reset or rebind: every open socket is
\* the primary, a relay's transport, or in the hands of a running burst or
\* reset.  The only exception is a transport that a second burst of the same
\* relay overwrote (see the ready check before symmetricBurstMu).
SocketsAccountedFor ==
    \A s \in open : \/ s = conn
                     \/ \E r \in Relays : s = conns[r]
                     \/ \E t \in Threads : s = held[t] \/ s \in probes[t]
                     \/ s \in displaced

\* The node is never deaf on a socket it sends from: an open primary or
\* transport has a receive loop, or the thread that installed it is about
\* to start one (addReceiveSocket follows every install and replacement).
EveryTransportIsRead ==
    \A s \in open \cap ({conn} \cup Range(conns)) :
        \/ s \in readers
        \/ \E t \in Threads : held[t] = s /\ pc[t] = "swap"

\* establishSymmetricTransport gives each superpeer its own mapping: two
\* relays never share a socket (a symmetric NAT maps per destination).
TransportsDistinct ==
    \A r, q \in Relays : conns[r] = conns[q] /\ conns[r] # NoSock => r = q

\* A superpeer that stays silent is scanned again and again: an installed
\* but dead transport never blocks the retries of retryDeadEdge.
SilentRelayIsRescanned ==
    \A r \in Relays : []<>(live[r] \/ inFlight[r] # NoThread)

\* A node that hears nobody and lost its primary (a failed rebind, or a
\* promotion of a dead socket) gets an open one back from recoverNetwork.
DarkNodeRecovers ==
    (conn \notin open /\ \A r \in Relays : ~live[r])
        ~> (conn \in open \/ \E r \in Relays : live[r])

-----------------------------------------------------------------------------
(***************************************************************************)
(* What a comment of the code claims and the code does not do.             *)
(***************************************************************************)

\* resetSymmetricRelay: "Move the node onto a replacement socket before
\* closing it: closing the primary outright kills the whole mesh data path."
ResetKeepsPrimaryUsable ==
    [][\A r \in Relays :
        PromoteTransport(r) /\ conn \in open => conn' \in open']_vars
=============================================================================
