------------------------ MODULE SymmetricRendezvous -------------------------
(***************************************************************************)
(* How a node behind a symmetric NAT (a peer) meets one superpeer (the     *)
(* relay) through the coordinator:                                         *)
(*                                                                         *)
(*   peer    requestSymmetricScan: register a waiter, ask the coordinator, *)
(*           wait for the ACK, then send a burst of probes;                *)
(*   coord.  symmetricScanRequest records the session and pushes an event  *)
(*           to the relay; symmetricScanACK consumes the session and       *)
(*           pushes the ACK to the peer;                                   *)
(*   relay   handleSymmetricScanEvent arms the session, starts a scan and  *)
(*           acknowledges, each event in a goroutine of its own; a burst   *)
(*           packet may restart the scan; a HELLO_ACK completes it.        *)
(*                                                                         *)
(* Sessions are the random identifiers of one peer in the order of their   *)
(* creation.  UDP packets may be lost, duplicated and delayed: what has    *)
(* been sent may arrive at any later time, any number of times or never.   *)
(* The five second filter for repeated burst packets only thins them out.  *)
(* Times are not modelled: a deadline may pass whenever it is running.     *)
(***************************************************************************)
EXTENDS Naturals, FiniteSets

CONSTANTS Peers,      \* nodes behind a symmetric NAT
          MaxSession, \* bound on the sessions of one peer
          Scans,      \* identities of scans (their cancel channels)
          NoScan,     \* a nil cancel channel
          Slots,      \* capacity of symmetricScanSlots
          Repeated    \* bound: sessions whose request may be sent twice

ASSUME RendezvousConstants == /\ MaxSession \in Nat
                              /\ NoScan \notin Scans
                              /\ Slots \in Nat \ {0}
                              /\ Repeated \subseteq 1 .. MaxSession

Sessions == 1 .. MaxSession
None == 0                  \* the empty session identifier
Tries == 1 .. 2            \* request() sends a frame at most twice

VARIABLES
    sess,      \* peer: its latest session
    spc,       \* peer: where requestSymmetricScan and the burst are
    frames,    \* scan requests on their way to the coordinator
    pending,   \* coordinator: s.symmetricRendezvous
    acks,      \* ACK events on their way to the peers
    handler,   \* relay: the handleSymmetricScanEvent goroutines
    bursts,    \* relay: handleSymmetricBurst calls past their checks
    neighbor,  \* relay: the peer is in n.neighbors
    missing,   \* relay: peers not in the snapshot of n.neighbors that
               \* cancelObsoleteSymmetricScans works from
    scan,      \* relay: n.symmetricScans
    session,   \* relay: n.symmetricSessions
    connected, \* relay: n.symmetricConnected
    job,       \* relay: the scanSymmetricNeighbor goroutine of a scan
    closed,    \* relay: closed cancel channels
    udp,       \* UDP packets that have been sent
    scanned    \* history: sessions the relay has started to scan for

peerVars  == <<sess, spc>>
coordVars == <<frames, pending, acks>>
scanVars  == <<scan, session, connected, job, closed, scanned>>
topoVars  == <<neighbor, missing>>
relayVars == <<scanVars, topoVars, handler, bursts>>
vars == <<peerVars, coordVars, relayVars, udp>>

NoJob == [st |-> "none"]
Job(st, p, n) == [st |-> st, peer |-> p, sess |-> n]
Alive == {s \in Scans : job[s].st # "none"}

Init ==
    /\ sess = [p \in Peers |-> None]
    /\ spc = [p \in Peers |-> "idle"]
    /\ frames = {} /\ pending = {} /\ acks = {} /\ udp = {} /\ scanned = {}
    /\ bursts = {} /\ missing = {}
    /\ handler = [e \in Peers \X Sessions \X Tries |-> "none"]
    /\ neighbor = [p \in Peers |-> TRUE]
    /\ scan = [p \in Peers |-> NoScan]
    /\ session = [p \in Peers |-> None]
    /\ connected = [p \in Peers |-> FALSE]
    /\ job = [s \in Scans |-> NoJob]
    /\ closed = {}

(***************************************************************************)
(* The peer.                                                               *)
(***************************************************************************)

\* A burst starts: a new session, its waiter, and the request.
RequestSymmetricScan(p) ==
    /\ spc[p] \in {"idle", "up"}
    /\ sess[p] < MaxSession
    /\ sess' = [sess EXCEPT ![p] = @ + 1]
    /\ spc' = [spc EXCEPT ![p] = "asking"]
    /\ frames' = frames \cup {<<p, sess[p] + 1, 1>>}
    /\ UNCHANGED <<pending, acks, relayVars, udp>>

\* No reply within ten seconds: request() sends the frame again.
RepeatRequest(p) ==
    /\ spc[p] = "asking"
    /\ sess[p] \in Repeated
    /\ spc' = [spc EXCEPT ![p] = "repeated"]
    /\ frames' = frames \cup {<<p, sess[p], 2>>}
    /\ UNCHANGED <<sess, pending, acks, relayVars, udp>>

\* The request failed, the ACK did not come within ten seconds, or no HELLO
\* came before symmetricBurstTimeout.
BurstFails(p) ==
    /\ spc[p] \in {"asking", "repeated", "probing"}
    /\ spc' = [spc EXCEPT ![p] = "idle"]
    /\ UNCHANGED <<sess, coordVars, relayVars, udp>>

\* readControl finds the waiter of the session: the probes are sent.  An ACK
\* of any other session has no waiter and is dropped.
AckArrives(p, n) ==
    /\ <<p, n>> \in acks
    /\ acks' = acks \ {<<p, n>>}
    /\ IF n = sess[p] /\ spc[p] \in {"asking", "repeated"}
       THEN /\ spc' = [spc EXCEPT ![p] = "probing"]
            /\ udp' = udp \cup {<<"SYMMETRIC_BURST", p, n>>}
       ELSE UNCHANGED <<spc, udp>>
    /\ UNCHANGED <<sess, frames, pending, relayVars>>

\* awaitSymmetricHello accepts a HELLO of its session only; the burst answers
\* with a HELLO_ACK.
HelloArrives(p) ==
    /\ spc[p] = "probing"
    /\ <<"HELLO", p, sess[p]>> \in udp
    /\ spc' = [spc EXCEPT ![p] = "up"]
    /\ udp' = udp \cup {<<"HELLO_ACK", p, sess[p]>>}
    /\ UNCHANGED <<sess, coordVars, relayVars>>

(***************************************************************************)
(* The coordinator.                                                        *)
(***************************************************************************)

\* The session is recorded and the event delivered; when the relay is not
\* connected the record is deleted again, and a pair that does not qualify is
\* refused before.
SymmetricScanRequest(p, n, k) ==
    /\ <<p, n, k>> \in frames
    /\ frames' = frames \ {<<p, n, k>>}
    /\ \/ /\ pending' = pending \cup {<<p, n>>}
          /\ handler' = [handler EXCEPT ![<<p, n, k>>] = "arrived"]
       \/ /\ pending' \in {pending, pending \ {<<p, n>>}}
          /\ UNCHANGED handler
    /\ UNCHANGED <<peerVars, acks, scanVars, topoVars, bursts, udp>>

\* The ACK of handler (p, n, k), which then ends.  A session that is unknown
\* or older than thirty seconds is refused (such an entry is only good to be
\* pruned, so the model deletes it here), and the ACK of a peer that is not
\* connected is lost.
SymmetricScanACK(p, n, k) ==
    /\ handler[<<p, n, k>>] = "started"
    /\ handler' = [handler EXCEPT ![<<p, n, k>>] = "none"]
    /\ pending' = pending \ {<<p, n>>}
    /\ \/ <<p, n>> \in pending /\ acks' = acks \cup {<<p, n>>}
       \/ UNCHANGED acks
    /\ UNCHANGED <<peerVars, frames, scanVars, topoVars, bursts, udp>>

(***************************************************************************)
(* The relay.                                                              *)
(***************************************************************************)

\* Mutant: close(cancel) without looking whether there is a scan.
CancelScanUnchecked(p) == closed' = closed \cup {scan[p]}

\* delete(n.symmetricScans, p) and close(cancel), when there is a scan.
CancelScan(p) == closed' = closed \cup ({scan[p]} \ {NoScan})

\* Mutant: the new scan replaces the old one without cancelling it.
StartSymmetricScanBeside(p, n, force, live) ==
    /\ scan[p] = NoScan \/ force \/ session[p] # n
    /\ \E s \in Scans \ (Alive \cup closed) :
        /\ scan' = [scan EXCEPT ![p] = s]
        /\ job' = [job EXCEPT ![s] = Job("queued", p, n)]
    /\ session' = [session EXCEPT ![p] = n]
    /\ scanned' = scanned \cup {<<p, n>>}
    /\ UNCHANGED <<connected, closed>>

\* startSymmetricScan(p, endpoint, n, force), under symmetricMu.  live is
\* n.usable(peer), read before.
StartSymmetricScan(p, n, force, live) ==
    \/ \* the scan of this session is running
       /\ scan[p] # NoScan /\ ~force /\ session[p] = n
       /\ UNCHANGED scanVars
    \/ /\ scan[p] = NoScan \/ force \/ session[p] # n
       /\ CancelScan(p)
       /\ connected' = [connected EXCEPT ![p] = @ /\ live]
       /\ \/ \* already connected
             /\ connected'[p] /\ ~force
             /\ scan' = [scan EXCEPT ![p] = NoScan]
             /\ session' = [session EXCEPT
                    ![p] = IF scan[p] = NoScan THEN @ ELSE None]
             /\ UNCHANGED <<job, scanned>>
          \/ /\ ~connected'[p] \/ force
             /\ \E s \in Scans \ (Alive \cup closed) :
                    /\ scan' = [scan EXCEPT ![p] = s]
                    /\ job' = [job EXCEPT ![s] = Job("queued", p, n)]
             /\ session' = [session EXCEPT ![p] = n]
             /\ scanned' = scanned \cup {<<p, n>>}

\* handleSymmetricScanEvent, under n.mu: the event of a peer that is not a
\* neighbor is ignored.
CheckEventPeer(p, n, k) ==
    /\ handler[<<p, n, k>>] = "arrived"
    /\ handler' = [handler EXCEPT
            ![<<p, n, k>>] = IF neighbor[p] THEN "known" ELSE "none"]
    /\ UNCHANGED <<peerVars, coordVars, scanVars, topoVars, bursts, udp>>

\* Mutant: the event is acknowledged before the scan has started.
ArmSessionAcks(p, n, k) ==
    /\ handler[<<p, n, k>>] = "known"
    /\ handler' = [handler EXCEPT ![<<p, n, k>>] = "started"]
    /\ CancelScan(p)
    /\ scan' = [scan EXCEPT ![p] = NoScan]
    /\ session' = [session EXCEPT ![p] = n]
    /\ connected' = [connected EXCEPT ![p] = FALSE]
    /\ UNCHANGED <<peerVars, coordVars, job, scanned, topoVars, bursts, udp>>

\* Then, under symmetricMu: the session is armed and its scan cancelled.
ArmSession(p, n, k) ==
    /\ handler[<<p, n, k>>] = "known"
    /\ handler' = [handler EXCEPT ![<<p, n, k>>] = "armed"]
    /\ CancelScan(p)
    /\ scan' = [scan EXCEPT ![p] = NoScan]
    /\ session' = [session EXCEPT ![p] = n]
    /\ connected' = [connected EXCEPT ![p] = FALSE]
    /\ UNCHANGED <<peerVars, coordVars, job, scanned, topoVars, bursts, udp>>

\* Then its call of startSymmetricScan.
StartArmedScan(p, n, k) ==
    /\ handler[<<p, n, k>>] = "armed"
    /\ \E live \in BOOLEAN : StartSymmetricScan(p, n, TRUE, live)
    /\ handler' = [handler EXCEPT ![<<p, n, k>>] = "started"]
    /\ UNCHANGED <<peerVars, coordVars, topoVars, bursts, udp>>

\* handleSymmetricBurst, up to its Unlock: a packet of another session than
\* the armed one is dropped.
CheckBurst(p, n) ==
    /\ <<"SYMMETRIC_BURST", p, n>> \in udp
    /\ neighbor[p]
    /\ session[p] \in {None, n}
    /\ bursts' = bursts \cup {<<p, n>>}
    /\ UNCHANGED <<peerVars, coordVars, scanVars, topoVars, handler, udp>>

\* Its call of startSymmetricScan, when the armed session may have changed;
\* refine says that the observed mapping is a new one.
StartBurstScan(p, n) ==
    /\ <<p, n>> \in bursts
    /\ bursts' = bursts \ {<<p, n>>}
    /\ \E refine, live \in BOOLEAN : StartSymmetricScan(p, n, refine, live)
    /\ UNCHANGED <<peerVars, coordVars, topoVars, handler, udp>>

\* scanSymmetricNeighbor waits for a slot; both cases of the select may be
\* ready, so a cancelled scan may still take one.
TakeSlot(s) ==
    /\ job[s].st = "queued"
    /\ Cardinality({t \in Scans : job[t].st = "running"}) < Slots
    /\ job' = [job EXCEPT ![s].st = "running"]
    /\ UNCHANGED <<peerVars, coordVars, scan, session, connected, closed,
                   scanned, handler, topoVars, bursts, udp>>

\* The queued scan is cancelled: it leaves without the deferred clean-up.
LeaveQueue(s) ==
    /\ job[s].st = "queued"
    /\ s \in closed
    /\ job' = [job EXCEPT ![s] = NoJob]
    /\ closed' = closed \ {s}
    /\ UNCHANGED <<peerVars, coordVars, scan, session, connected, scanned,
                   handler, topoVars, bursts, udp>>

\* One more HELLO to one more port.
SendHello(s) ==
    /\ job[s].st = "running"
    /\ s \notin closed
    /\ udp' = udp \cup {<<"HELLO", job[s].peer, job[s].sess>>}
    /\ UNCHANGED <<peerVars, coordVars, relayVars>>

\* The ports are exhausted, the window expired or the scan was cancelled: the
\* deferred functions clear the maps if they still hold this scan, and free
\* the slot.
ScanReturns(s) ==
    /\ job[s].st = "running"
    /\ LET p == job[s].peer IN
       /\ scan' = [scan EXCEPT ![p] = IF @ = s THEN NoScan ELSE @]
       /\ session' = [session EXCEPT ![p] = IF scan[p] = s THEN None ELSE @]
    /\ job' = [job EXCEPT ![s] = NoJob]
    /\ closed' = closed \ {s}
    /\ UNCHANGED <<peerVars, coordVars, connected, scanned, handler, topoVars,
                   bursts, udp>>

\* Mutant: the scan is cancelled but stays in n.symmetricScans.
CompleteSymmetricScanKeeps(p, n) ==
    /\ <<"HELLO_ACK", p, n>> \in udp
    /\ scan[p] # NoScan
    /\ session[p] = n
    /\ CancelScan(p)
    /\ connected' = [connected EXCEPT ![p] = TRUE]
    /\ UNCHANGED <<peerVars, coordVars, scan, session, job, scanned, handler,
                   topoVars, bursts, udp>>

\* completeSymmetricScan: the HELLO_ACK of the armed session ends its scan.
CompleteSymmetricScan(p, n) ==
    /\ <<"HELLO_ACK", p, n>> \in udp
    /\ scan[p] # NoScan
    /\ session[p] = n
    /\ CancelScan(p)
    /\ scan' = [scan EXCEPT ![p] = NoScan]
    /\ session' = [session EXCEPT ![p] = None]
    /\ connected' = [connected EXCEPT ![p] = TRUE]
    /\ UNCHANGED <<peerVars, coordVars, job, scanned, handler, topoVars,
                   bursts, udp>>

\* applyTopology, under n.mu: the peer leaves or enters n.neighbors.
ApplyTopology(p) ==
    /\ neighbor' = [neighbor EXCEPT ![p] = ~ @]
    /\ UNCHANGED <<peerVars, coordVars, scanVars, missing, handler, bursts,
                   udp>>

\* At its end, cancelObsoleteSymmetricScans copies n.neighbors, lets n.mu
\* go ...
SnapshotNeighbors(p) ==
    /\ ~ neighbor[p]
    /\ missing' = missing \cup {p}
    /\ UNCHANGED <<peerVars, coordVars, scanVars, neighbor, handler, bursts,
                   udp>>

\* ... and cancels by the copy.  Only the peers that have a scan are cleaned
\* up.  (Calls may overlap and scans of different peers are independent, so
\* each peer is handled on its own.)
CancelObsoleteSymmetricScans(p) ==
    /\ p \in missing
    /\ missing' = missing \ {p}
    /\ CancelScan(p)
    /\ scan' = [scan EXCEPT ![p] = NoScan]
    /\ session' = [session EXCEPT ![p] = IF scan[p] = NoScan THEN @ ELSE None]
    /\ connected' = [connected EXCEPT ![p] = @ /\ scan[p] = NoScan]
    /\ UNCHANGED <<peerVars, coordVars, job, scanned, neighbor, handler,
                   bursts, udp>>

\* resetTransportState on the relay: every scan is cancelled.
RelayResets ==
    /\ closed' = closed \cup ({scan[p] : p \in Peers} \ {NoScan})
    /\ scan' = [p \in Peers |-> NoScan]
    /\ session' = [p \in Peers |-> None]
    /\ connected' = [p \in Peers |-> FALSE]
    /\ UNCHANGED <<peerVars, coordVars, job, scanned, handler, topoVars,
                   bursts, udp>>

ScanSteps(s) == TakeSlot(s) \/ LeaveQueue(s) \/ SendHello(s) \/ ScanReturns(s)

HandlerSteps(p, n, k) == \/ SymmetricScanRequest(p, n, k)
                         \/ CheckEventPeer(p, n, k)
                         \/ ArmSession(p, n, k)
                         \/ StartArmedScan(p, n, k)
                         \/ SymmetricScanACK(p, n, k)

Next ==
    \/ \E p \in Peers :
        \/ RequestSymmetricScan(p) \/ RepeatRequest(p) \/ BurstFails(p)
        \/ HelloArrives(p)
        \/ ApplyTopology(p) \/ SnapshotNeighbors(p)
        \/ CancelObsoleteSymmetricScans(p)
        \/ \E n \in Sessions :
            \/ AckArrives(p, n)
            \/ CheckBurst(p, n) \/ StartBurstScan(p, n)
            \/ CompleteSymmetricScan(p, n)
            \/ \E k \in Tries : HandlerSteps(p, n, k)
    \/ \E s \in Scans : ScanSteps(s)
    \/ RelayResets

Spec == Init /\ [][Next]_vars

-----------------------------------------------------------------------------
(***************************************************************************)
(* Properties                                                              *)
(***************************************************************************)

\* The variables have the values the code gives them; in particular only
\* channels of scans are closed, never the nil of an absent map entry.
TypeOK ==
    /\ sess \in [Peers -> 0 .. MaxSession]
    /\ spc \in [Peers -> {"idle", "asking", "repeated", "probing", "up"}]
    /\ frames \subseteq Peers \X Sessions \X Tries
    /\ pending \subseteq Peers \X Sessions
    /\ acks \subseteq Peers \X Sessions
    /\ handler \in [Peers \X Sessions \X Tries ->
                    {"none", "arrived", "known", "armed", "started"}]
    /\ bursts \subseteq Peers \X Sessions
    /\ missing \subseteq Peers
    /\ neighbor \in [Peers -> BOOLEAN]
    /\ scan \in [Peers -> Scans \cup {NoScan}]
    /\ session \in [Peers -> 0 .. MaxSession]
    /\ connected \in [Peers -> BOOLEAN]
    /\ job \in [Scans -> {NoJob} \cup
                [st : {"queued", "running"}, peer : Peers, sess : Sessions]]
    /\ closed \subseteq Scans
    /\ udp \subseteq {"SYMMETRIC_BURST", "HELLO", "HELLO_ACK"}
                        \X Peers \X Sessions
    /\ scanned \subseteq Peers \X Sessions

\* The rendezvous barrier: a peer sends its expensive burst only after the
\* relay has begun to scan for that very session ("begin scanning before
\* acknowledging it").
BurstsMeetAScan ==
    \A p \in Peers : spc[p] \in {"probing", "up"} => <<p, sess[p]>> \in scanned

\* Every scan that has not been cancelled is the one the maps know, for the
\* session that is armed: it can be cancelled and completed, and there is at
\* most one per peer.
NoOrphanScan ==
    \A s \in Alive \ closed :
        scan[job[s].peer] = s /\ session[job[s].peer] = job[s].sess

\* The cancel channel in n.symmetricScans is open and its goroutine runs: no
\* interleaving of events, bursts, completions and resets closes a channel
\* twice, which would panic.
RegisteredScanIsOpen ==
    \A p \in Peers : scan[p] # NoScan => scan[p] \in Alive \ closed
=============================================================================
