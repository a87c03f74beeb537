--------------------- MODULE SymmetricRendezvousProofs ----------------------
(***************************************************************************)
(* Safety of SymmetricRendezvous for any number of peers, sessions, scans  *)
(* and slots.                                                              *)
(***************************************************************************)
EXTENDS SymmetricRendezvous, TLAPS

\* The registered scan of a peer runs for that peer.
ScanOwned ==
    \A p \in Peers : scan[p] # NoScan => job[scan[p]].peer = p

\* The barrier along the way of an ACK: handler, push, peer.
AckFollowsScan ==
    /\ \A p \in Peers, n \in Sessions, k \in Tries :
        handler[<<p, n, k>>] = "started" => <<p, n>> \in scanned
    /\ acks \subseteq scanned
    /\ BurstsMeetAScan

ScanInv == NoOrphanScan /\ RegisteredScanIsOpen /\ ScanOwned

IInv == TypeOK /\ ScanInv /\ AckFollowsScan

HandlerStates == {"none", "arrived", "known", "armed", "started"}

\* One handler moves, the others stay.
LEMMA HandlerMoves ==
    ASSUME TypeOK, NEW p \in Peers, NEW n \in Sessions, NEW k \in Tries,
           NEW v \in HandlerStates,
           handler' = [handler EXCEPT ![<<p, n, k>>] = v]
    PROVE  /\ handler' \in [Peers \X Sessions \X Tries -> HandlerStates]
           /\ \A q \in Peers, m \in Sessions, j \in Tries :
                handler'[<<q, m, j>>] = IF <<q, m, j>> = <<p, n, k>> THEN v
                                        ELSE handler[<<q, m, j>>]
BY DEF TypeOK, HandlerStates

\* A handler that moves elsewhere starts no other one.
LEMMA HandlerLeaves ==
    ASSUME TypeOK, NEW p \in Peers, NEW n \in Sessions, NEW k \in Tries,
           NEW v \in HandlerStates \ {"started"},
           handler' = [handler EXCEPT ![<<p, n, k>>] = v]
    PROVE  \A q \in Peers, m \in Sessions, j \in Tries :
             handler'[<<q, m, j>>] = "started"
                => handler[<<q, m, j>>] = "started"
BY DEF TypeOK, HandlerStates

\* What startSymmetricScan does: nothing, a cancellation, or a new scan.
LEMMA StartCases ==
    ASSUME NEW p \in Peers, NEW n \in Sessions,
           NEW force \in BOOLEAN, NEW lv \in BOOLEAN,
           StartSymmetricScan(p, n, force, lv)
    PROVE  \/ UNCHANGED scanVars
           \/ /\ CancelScan(p)
              /\ connected' = [connected EXCEPT ![p] = @ /\ lv]
              /\ scan' = [scan EXCEPT ![p] = NoScan]
              /\ session' = [session EXCEPT
                      ![p] = IF scan[p] = NoScan THEN @ ELSE None]
              /\ UNCHANGED <<job, scanned>>
           \/ /\ CancelScan(p)
              /\ connected' = [connected EXCEPT ![p] = @ /\ lv]
              /\ \E s \in Scans \ (Alive \cup closed) :
                    /\ scan' = [scan EXCEPT ![p] = s]
                    /\ job' = [job EXCEPT ![s] = Job("queued", p, n)]
              /\ session' = [session EXCEPT ![p] = n]
              /\ scanned' = scanned \cup {<<p, n>>}
BY DEF StartSymmetricScan

\* startSymmetricScan keeps the types.
LEMMA StartType ==
    ASSUME TypeOK, NEW p \in Peers, NEW n \in Sessions,
           NEW force \in BOOLEAN, NEW lv \in BOOLEAN,
           StartSymmetricScan(p, n, force, lv)
    PROVE  /\ scan' \in [Peers -> Scans \cup {NoScan}]
           /\ session' \in [Peers -> 0 .. MaxSession]
           /\ connected' \in [Peers -> BOOLEAN]
           /\ job' \in [Scans -> {NoJob} \cup
                 [st : {"queued", "running"}, peer : Peers, sess : Sessions]]
           /\ closed' \subseteq Scans
           /\ scanned' \subseteq Peers \X Sessions
<1>1. CASE UNCHANGED scanVars
    BY <1>1 DEF scanVars, TypeOK
<1>2. CASE CancelScan(p) /\ connected' = [connected EXCEPT ![p] = @ /\ lv]
    <2> USE RendezvousConstants DEF TypeOK, Sessions, None
    <2>1. closed' \subseteq Scans
        BY <1>2 DEF CancelScan
    <2>2. connected' \in [Peers -> BOOLEAN]
        BY <1>2
    <2>3. CASE /\ scan' = [scan EXCEPT ![p] = NoScan]
               /\ session' = [session EXCEPT
                      ![p] = IF scan[p] = NoScan THEN @ ELSE None]
               /\ UNCHANGED <<job, scanned>>
        BY <2>1, <2>2, <2>3
    <2>4. CASE /\ \E s \in Scans \ (Alive \cup closed) :
                      /\ scan' = [scan EXCEPT ![p] = s]
                      /\ job' = [job EXCEPT ![s] = Job("queued", p, n)]
               /\ session' = [session EXCEPT ![p] = n]
               /\ scanned' = scanned \cup {<<p, n>>}
        BY <2>1, <2>2, <2>4 DEF Job
    <2> HIDE RendezvousConstants DEF TypeOK, Sessions, None
    <2> QED BY <1>1, <2>3, <2>4, StartCases
<1> QED BY <1>1, <1>2, StartCases

\* startSymmetricScan keeps the books: the scan it starts is the only one of
\* its peer that has not been cancelled.
LEMMA StartScanInv ==
    ASSUME TypeOK, ScanInv, NEW p \in Peers, NEW n \in Sessions,
           NEW force \in BOOLEAN, NEW lv \in BOOLEAN,
           StartSymmetricScan(p, n, force, lv)
    PROVE  ScanInv'
<1>1. CASE UNCHANGED scanVars
    BY <1>1 DEF scanVars, ScanInv, ScanOwned, NoOrphanScan,
        RegisteredScanIsOpen, Alive
<1>2. ASSUME CancelScan(p),
             scan' = [scan EXCEPT ![p] = NoScan],
             session' = [session EXCEPT
                     ![p] = IF scan[p] = NoScan THEN @ ELSE None],
             UNCHANGED <<job, scanned>>
      PROVE  ScanInv'
    BY <1>2, RendezvousConstants DEF CancelScan, TypeOK, ScanInv, ScanOwned,
        NoOrphanScan, RegisteredScanIsOpen, Alive
<1>3. ASSUME CancelScan(p), NEW s \in Scans \ (Alive \cup closed),
             scan' = [scan EXCEPT ![p] = s],
             job' = [job EXCEPT ![s] = Job("queued", p, n)],
             session' = [session EXCEPT ![p] = n]
      PROVE  ScanInv'
    <2> USE RendezvousConstants DEF TypeOK, ScanInv, ScanOwned, NoOrphanScan,
            RegisteredScanIsOpen, Alive
    <2>1. closed' = closed \cup ({scan[p]} \ {NoScan})
        BY <1>3 DEF CancelScan
    <2>2. /\ job'[s].st = "queued" /\ job'[s].peer = p /\ job'[s].sess = n
          /\ s \notin closed' /\ s # NoScan
        BY <1>3, <2>1 DEF Job
    <2>3. \A t \in Scans \ {s} : job'[t] = job[t]
        BY <1>3
    <2>4. NoOrphanScan'
        BY <1>3, <2>1, <2>2, <2>3
    <2>5. \A q \in Peers \ {p} : scan'[q] = scan[q] /\ scan[q] # s
        BY <1>3
    <2>6. RegisteredScanIsOpen'
        BY <1>3, <2>1, <2>2, <2>3, <2>5
    <2>7. ScanOwned'
        BY <1>3, <2>2, <2>3, <2>5
    <2> QED BY <2>4, <2>6, <2>7
<1> QED BY <1>1, <1>2, <1>3, StartCases

\* The history of scans only grows, and a forced start always adds to it.
LEMMA StartScanned ==
    ASSUME NEW p \in Peers, NEW n \in Sessions,
           NEW force \in BOOLEAN, NEW lv \in BOOLEAN,
           StartSymmetricScan(p, n, force, lv)
    PROVE  scanned \subseteq scanned' /\ (force => <<p, n>> \in scanned')
BY DEF StartSymmetricScan, scanVars

\* So does the start by a burst packet.
LEMMA BurstScanned ==
    ASSUME NEW p \in Peers, NEW n \in Sessions, StartBurstScan(p, n)
    PROVE  scanned \subseteq scanned'
<1>1. PICK force, lv \in BOOLEAN : StartSymmetricScan(p, n, force, lv)
    BY DEF StartBurstScan
<1> QED BY <1>1, StartScanned

LEMMA InitInv == Init => IInv
BY RendezvousConstants DEF Init, IInv, TypeOK, ScanInv, NoOrphanScan,
   RegisteredScanIsOpen, ScanOwned, AckFollowsScan, BurstsMeetAScan, Alive,
   Sessions, Tries, None, NoJob

\* The type invariant.
LEMMA TypeStep ==
    ASSUME IInv, [Next]_vars
    PROVE  TypeOK'
<1> USE RendezvousConstants DEF IInv, TypeOK, vars, peerVars, coordVars,
            relayVars, topoVars, scanVars, Sessions, None
<1>1. ASSUME NEW p \in Peers,
           RequestSymmetricScan(p)
    PROVE  TypeOK'
    <2>1. sess[p] + 1 \in Sessions /\ 1 \in Tries
        BY <1>1 DEF RequestSymmetricScan, Tries
    <2>2. frames' \subseteq Peers \X Sessions \X Tries
        BY <1>1, <2>1 DEF RequestSymmetricScan
    <2> QED BY <1>1, <2>1, <2>2 DEF RequestSymmetricScan
<1>2. ASSUME NEW p \in Peers,
           RepeatRequest(p)
    PROVE  TypeOK'
    <2>1. sess[p] \in Sessions /\ 2 \in Tries
        BY <1>2 DEF RepeatRequest, Tries
    <2>2. frames' \subseteq Peers \X Sessions \X Tries
        BY <1>2, <2>1 DEF RepeatRequest
    <2> QED BY <1>2, <2>1, <2>2 DEF RepeatRequest
<1>3. ASSUME NEW p \in Peers,
           BurstFails(p)
    PROVE  TypeOK'
    BY <1>3 DEF BurstFails
<1>4. ASSUME NEW p \in Peers,
           HelloArrives(p)
    PROVE  TypeOK'
    BY <1>4 DEF HelloArrives
<1>5. ASSUME NEW p \in Peers,
           ApplyTopology(p)
    PROVE  TypeOK'
    BY <1>5 DEF ApplyTopology
<1>6. ASSUME NEW p \in Peers,
           SnapshotNeighbors(p)
    PROVE  TypeOK'
    BY <1>6 DEF SnapshotNeighbors
<1>7. ASSUME NEW p \in Peers,
           CancelObsoleteSymmetricScans(p)
    PROVE  TypeOK'
    BY <1>7 DEF CancelObsoleteSymmetricScans, CancelScan
<1>8. ASSUME NEW p \in Peers, NEW n \in Sessions,
           AckArrives(p, n)
    PROVE  TypeOK'
    BY <1>8 DEF AckArrives
<1>9. ASSUME NEW p \in Peers, NEW n \in Sessions,
           CheckBurst(p, n)
    PROVE  TypeOK'
    BY <1>9 DEF CheckBurst
<1>10. ASSUME NEW p \in Peers, NEW n \in Sessions,
           StartBurstScan(p, n)
    PROVE  TypeOK'
    <2>1. PICK force, lv \in BOOLEAN : StartSymmetricScan(p, n, force, lv)
        BY <1>10 DEF StartBurstScan
    <2>2. /\ scan' \in [Peers -> Scans \cup {NoScan}]
          /\ session' \in [Peers -> 0 .. MaxSession]
          /\ connected' \in [Peers -> BOOLEAN]
          /\ job' \in [Scans -> {NoJob} \cup
                [st : {"queued", "running"}, peer : Peers, sess : Sessions]]
          /\ closed' \subseteq Scans
          /\ scanned' \subseteq Peers \X Sessions
        BY <2>1, StartType
    <2> QED BY <1>10, <2>2 DEF StartBurstScan
<1>11. ASSUME NEW p \in Peers, NEW n \in Sessions,
           CompleteSymmetricScan(p, n)
    PROVE  TypeOK'
    BY <1>11 DEF CompleteSymmetricScan, CancelScan
<1>12. ASSUME NEW p \in Peers, NEW n \in Sessions, NEW k \in Tries,
           SymmetricScanRequest(p, n, k)
    PROVE  TypeOK'
    <2>1. handler' \in [Peers \X Sessions \X Tries -> HandlerStates]
        BY <1>12, HandlerMoves DEF SymmetricScanRequest, HandlerStates
    <2> QED BY <1>12, <2>1 DEF SymmetricScanRequest, HandlerStates
<1>13. ASSUME NEW p \in Peers, NEW n \in Sessions, NEW k \in Tries,
           CheckEventPeer(p, n, k)
    PROVE  TypeOK'
    <2>1. handler' \in [Peers \X Sessions \X Tries -> HandlerStates]
        BY <1>13, HandlerMoves DEF CheckEventPeer, HandlerStates
    <2> QED BY <1>13, <2>1 DEF CheckEventPeer, HandlerStates
<1>14. ASSUME NEW p \in Peers, NEW n \in Sessions, NEW k \in Tries,
           ArmSession(p, n, k)
    PROVE  TypeOK'
    <2>1. handler' \in [Peers \X Sessions \X Tries -> HandlerStates]
        BY <1>14, HandlerMoves DEF ArmSession, HandlerStates
    <2>2. /\ scan' \in [Peers -> Scans \cup {NoScan}]
          /\ session' \in [Peers -> 0 .. MaxSession]
          /\ closed' \subseteq Scans
        BY <1>14 DEF ArmSession, CancelScan
    <2>3. connected' \in [Peers -> BOOLEAN]
        BY <1>14 DEF ArmSession
    <2> QED BY <1>14, <2>1, <2>2, <2>3 DEF ArmSession, HandlerStates
<1>15. ASSUME NEW p \in Peers, NEW n \in Sessions, NEW k \in Tries,
           StartArmedScan(p, n, k)
    PROVE  TypeOK'
    <2>1. handler' \in [Peers \X Sessions \X Tries -> HandlerStates]
        BY <1>15, HandlerMoves DEF StartArmedScan, HandlerStates
    <2>2. PICK force, lv \in BOOLEAN :
            force /\ StartSymmetricScan(p, n, force, lv)
        BY <1>15 DEF StartArmedScan
    <2>3. /\ scan' \in [Peers -> Scans \cup {NoScan}]
          /\ session' \in [Peers -> 0 .. MaxSession]
          /\ connected' \in [Peers -> BOOLEAN]
          /\ job' \in [Scans -> {NoJob} \cup
                [st : {"queued", "running"}, peer : Peers, sess : Sessions]]
          /\ closed' \subseteq Scans
          /\ scanned' \subseteq Peers \X Sessions
        <3>1. StartSymmetricScan(p, n, force, lv)
            BY <2>2
        <3> QED BY <3>1, StartType
    <2> QED BY <1>15, <2>1, <2>3 DEF StartArmedScan, HandlerStates
<1>16. ASSUME NEW p \in Peers, NEW n \in Sessions, NEW k \in Tries,
           SymmetricScanACK(p, n, k)
    PROVE  TypeOK'
    <2>1. handler' \in [Peers \X Sessions \X Tries -> HandlerStates]
        BY <1>16, HandlerMoves DEF SymmetricScanACK, HandlerStates
    <2> QED BY <1>16, <2>1 DEF SymmetricScanACK, HandlerStates
<1>17. ASSUME NEW s \in Scans,
           TakeSlot(s)
    PROVE  TypeOK'
    <2>1. job[s] # NoJob
        BY <1>17 DEF TakeSlot, NoJob
    <2>2. job' \in [Scans -> {NoJob} \cup
             [st : {"queued", "running"}, peer : Peers, sess : Sessions]]
        BY <1>17, <2>1 DEF TakeSlot
    <2> QED BY <1>17, <2>2 DEF TakeSlot
<1>18. ASSUME NEW s \in Scans,
           LeaveQueue(s)
    PROVE  TypeOK'
    BY <1>18 DEF LeaveQueue
<1>19. ASSUME NEW s \in Scans,
           SendHello(s)
    PROVE  TypeOK'
    <2>1. job[s].peer \in Peers /\ job[s].sess \in Sessions
        BY <1>19 DEF SendHello, NoJob
    <2> QED BY <1>19, <2>1 DEF SendHello
<1>20. ASSUME NEW s \in Scans,
           ScanReturns(s)
    PROVE  TypeOK'
    <2>1. job[s].peer \in Peers
        BY <1>20 DEF ScanReturns, NoJob
    <2>2. job' \in [Scans -> {NoJob} \cup
             [st : {"queued", "running"}, peer : Peers, sess : Sessions]]
        BY <1>20 DEF ScanReturns
    <2> QED BY <1>20, <2>1, <2>2 DEF ScanReturns
<1>21. CASE RelayResets
    BY <1>21 DEF RelayResets
<1>22. CASE UNCHANGED vars
    BY <1>22
<1> QED
    BY <1>1, <1>2, <1>3, <1>4, <1>5, <1>6, <1>7, <1>8, <1>9, <1>10, <1>11,
       <1>12, <1>13, <1>14, <1>15, <1>16, <1>17, <1>18, <1>19, <1>20, <1>21,
       <1>22
       DEF Next, ScanSteps, HandlerSteps

\* The books of the relay.
LEMMA ScanStep ==
    ASSUME IInv, [Next]_vars
    PROVE  ScanInv'
<1> USE RendezvousConstants DEF IInv, TypeOK, vars, peerVars, coordVars,
            relayVars, topoVars, scanVars,
            ScanInv, NoOrphanScan, RegisteredScanIsOpen, ScanOwned, Alive,
            NoJob
<1>1. ASSUME NEW p \in Peers,
           RequestSymmetricScan(p)
    PROVE  ScanInv'
    BY <1>1 DEF RequestSymmetricScan
<1>2. ASSUME NEW p \in Peers,
           RepeatRequest(p)
    PROVE  ScanInv'
    BY <1>2 DEF RepeatRequest
<1>3. ASSUME NEW p \in Peers,
           BurstFails(p)
    PROVE  ScanInv'
    BY <1>3 DEF BurstFails
<1>4. ASSUME NEW p \in Peers,
           HelloArrives(p)
    PROVE  ScanInv'
    BY <1>4 DEF HelloArrives
<1>5. ASSUME NEW p \in Peers,
           ApplyTopology(p)
    PROVE  ScanInv'
    BY <1>5 DEF ApplyTopology
<1>6. ASSUME NEW p \in Peers,
           SnapshotNeighbors(p)
    PROVE  ScanInv'
    BY <1>6 DEF SnapshotNeighbors
<1>7. ASSUME NEW p \in Peers,
           CancelObsoleteSymmetricScans(p)
    PROVE  ScanInv'
    BY <1>7 DEF CancelObsoleteSymmetricScans, CancelScan
<1>8. ASSUME NEW p \in Peers, NEW n \in Sessions,
           AckArrives(p, n)
    PROVE  ScanInv'
    BY <1>8 DEF AckArrives
<1>9. ASSUME NEW p \in Peers, NEW n \in Sessions,
           CheckBurst(p, n)
    PROVE  ScanInv'
    BY <1>9 DEF CheckBurst
<1>10. ASSUME NEW p \in Peers, NEW n \in Sessions,
           StartBurstScan(p, n)
    PROVE  ScanInv'
    <2>1. PICK force, lv \in BOOLEAN : StartSymmetricScan(p, n, force, lv)
        BY <1>10 DEF StartBurstScan
    <2> QED BY <2>1, StartScanInv DEF IInv
<1>11. ASSUME NEW p \in Peers, NEW n \in Sessions,
           CompleteSymmetricScan(p, n)
    PROVE  ScanInv'
    BY <1>11 DEF CompleteSymmetricScan, CancelScan
<1>12. ASSUME NEW p \in Peers, NEW n \in Sessions, NEW k \in Tries,
           SymmetricScanRequest(p, n, k)
    PROVE  ScanInv'
    BY <1>12 DEF SymmetricScanRequest
<1>13. ASSUME NEW p \in Peers, NEW n \in Sessions, NEW k \in Tries,
           CheckEventPeer(p, n, k)
    PROVE  ScanInv'
    BY <1>13 DEF CheckEventPeer
<1>14. ASSUME NEW p \in Peers, NEW n \in Sessions, NEW k \in Tries,
           ArmSession(p, n, k)
    PROVE  ScanInv'
    BY <1>14 DEF ArmSession, CancelScan
<1>15. ASSUME NEW p \in Peers, NEW n \in Sessions, NEW k \in Tries,
           StartArmedScan(p, n, k)
    PROVE  ScanInv'
    <2>1. PICK force, lv \in BOOLEAN :
            force /\ StartSymmetricScan(p, n, force, lv)
        BY <1>15 DEF StartArmedScan
    <2>2. StartSymmetricScan(p, n, force, lv)
        BY <2>1
    <2> QED BY <2>2, StartScanInv DEF IInv
<1>16. ASSUME NEW p \in Peers, NEW n \in Sessions, NEW k \in Tries,
           SymmetricScanACK(p, n, k)
    PROVE  ScanInv'
    BY <1>16 DEF SymmetricScanACK
<1>17. ASSUME NEW s \in Scans,
           TakeSlot(s)
    PROVE  ScanInv'
    BY <1>17 DEF TakeSlot
<1>18. ASSUME NEW s \in Scans,
           LeaveQueue(s)
    PROVE  ScanInv'
    BY <1>18 DEF LeaveQueue
<1>19. ASSUME NEW s \in Scans,
           SendHello(s)
    PROVE  ScanInv'
    BY <1>19 DEF SendHello
<1>20. ASSUME NEW s \in Scans,
           ScanReturns(s)
    PROVE  ScanInv'
    <2>1. /\ job[s].peer \in Peers
          /\ scan' = [scan EXCEPT ![job[s].peer] = IF @ = s THEN NoScan ELSE @]
          /\ session' = [session EXCEPT ![job[s].peer] =
                            IF scan[job[s].peer] = s THEN None ELSE @]
          /\ job' = [job EXCEPT ![s] = NoJob]
          /\ closed' = closed \ {s}
        BY <1>20 DEF ScanReturns
    <2>2. NoOrphanScan'
        BY <2>1
    <2>3. RegisteredScanIsOpen' /\ ScanOwned'
        BY <2>1
    <2> QED BY <2>2, <2>3
<1>21. CASE RelayResets
    BY <1>21 DEF RelayResets
<1>22. CASE UNCHANGED vars
    BY <1>22
<1> QED
    BY <1>1, <1>2, <1>3, <1>4, <1>5, <1>6, <1>7, <1>8, <1>9, <1>10, <1>11,
       <1>12, <1>13, <1>14, <1>15, <1>16, <1>17, <1>18, <1>19, <1>20, <1>21,
       <1>22
       DEF Next, ScanSteps, HandlerSteps

\* The barrier.
LEMMA BarrierStep ==
    ASSUME IInv, [Next]_vars
    PROVE  AckFollowsScan'
<1> USE RendezvousConstants DEF IInv, TypeOK, vars, peerVars, coordVars,
            relayVars, topoVars, scanVars,
            AckFollowsScan, BurstsMeetAScan, Sessions
<1>1. ASSUME NEW p \in Peers,
           RequestSymmetricScan(p)
    PROVE  AckFollowsScan'
    BY <1>1 DEF RequestSymmetricScan
<1>2. ASSUME NEW p \in Peers,
           RepeatRequest(p)
    PROVE  AckFollowsScan'
    BY <1>2 DEF RepeatRequest
<1>3. ASSUME NEW p \in Peers,
           BurstFails(p)
    PROVE  AckFollowsScan'
    BY <1>3 DEF BurstFails
<1>4. ASSUME NEW p \in Peers,
           HelloArrives(p)
    PROVE  AckFollowsScan'
    BY <1>4 DEF HelloArrives
<1>5. ASSUME NEW p \in Peers,
           ApplyTopology(p)
    PROVE  AckFollowsScan'
    BY <1>5 DEF ApplyTopology
<1>6. ASSUME NEW p \in Peers,
           SnapshotNeighbors(p)
    PROVE  AckFollowsScan'
    BY <1>6 DEF SnapshotNeighbors
<1>7. ASSUME NEW p \in Peers,
           CancelObsoleteSymmetricScans(p)
    PROVE  AckFollowsScan'
    BY <1>7 DEF CancelObsoleteSymmetricScans
<1>8. ASSUME NEW p \in Peers, NEW n \in Sessions,
           AckArrives(p, n)
    PROVE  AckFollowsScan'
    BY <1>8 DEF AckArrives
<1>9. ASSUME NEW p \in Peers, NEW n \in Sessions,
           CheckBurst(p, n)
    PROVE  AckFollowsScan'
    BY <1>9 DEF CheckBurst
<1>10. ASSUME NEW p \in Peers, NEW n \in Sessions,
           StartBurstScan(p, n)
    PROVE  AckFollowsScan'
    <2>1. scanned \subseteq scanned'
        BY <1>10, BurstScanned
    <2> QED BY <1>10, <2>1 DEF StartBurstScan
<1>11. ASSUME NEW p \in Peers, NEW n \in Sessions,
           CompleteSymmetricScan(p, n)
    PROVE  AckFollowsScan'
    BY <1>11 DEF CompleteSymmetricScan
<1>12. ASSUME NEW p \in Peers, NEW n \in Sessions, NEW k \in Tries,
           SymmetricScanRequest(p, n, k)
    PROVE  AckFollowsScan'
    <2>1. \A q \in Peers, m \in Sessions, j \in Tries :
            handler'[<<q, m, j>>] = "started" => handler[<<q, m, j>>] = "started"
        BY <1>12, HandlerLeaves DEF SymmetricScanRequest, HandlerStates
    <2> QED BY <1>12, <2>1 DEF SymmetricScanRequest
<1>13. ASSUME NEW p \in Peers, NEW n \in Sessions, NEW k \in Tries,
           CheckEventPeer(p, n, k)
    PROVE  AckFollowsScan'
    <2>1. \A q \in Peers, m \in Sessions, j \in Tries :
            handler'[<<q, m, j>>] = "started" => handler[<<q, m, j>>] = "started"
        BY <1>13, HandlerLeaves DEF CheckEventPeer, HandlerStates
    <2> QED BY <1>13, <2>1 DEF CheckEventPeer
<1>14. ASSUME NEW p \in Peers, NEW n \in Sessions, NEW k \in Tries,
           ArmSession(p, n, k)
    PROVE  AckFollowsScan'
    <2>1. \A q \in Peers, m \in Sessions, j \in Tries :
            handler'[<<q, m, j>>] = "started" => handler[<<q, m, j>>] = "started"
        BY <1>14, HandlerLeaves DEF ArmSession, HandlerStates
    <2> QED BY <1>14, <2>1 DEF ArmSession
<1>15. ASSUME NEW p \in Peers, NEW n \in Sessions, NEW k \in Tries,
           StartArmedScan(p, n, k)
    PROVE  AckFollowsScan'
    <2>1. PICK force, lv \in BOOLEAN :
            force /\ StartSymmetricScan(p, n, force, lv)
        BY <1>15 DEF StartArmedScan
    <2>2. scanned \subseteq scanned' /\ <<p, n>> \in scanned'
        BY <2>1, StartScanned
    <2>3. \A q \in Peers, m \in Sessions, j \in Tries :
            handler'[<<q, m, j>>] = "started"
                => handler[<<q, m, j>>] = "started" \/ <<q, m>> = <<p, n>>
        <3>1. handler' = [handler EXCEPT ![<<p, n, k>>] = "started"]
            BY <1>15 DEF StartArmedScan
        <3> QED BY <3>1
    <2> QED BY <1>15, <2>2, <2>3 DEF StartArmedScan
<1>16. ASSUME NEW p \in Peers, NEW n \in Sessions, NEW k \in Tries,
           SymmetricScanACK(p, n, k)
    PROVE  AckFollowsScan'
    <2>1. \A q \in Peers, m \in Sessions, j \in Tries :
            handler'[<<q, m, j>>] = "started" => handler[<<q, m, j>>] = "started"
        BY <1>16, HandlerLeaves DEF SymmetricScanACK, HandlerStates
    <2> QED BY <1>16, <2>1 DEF SymmetricScanACK
<1>17. ASSUME NEW s \in Scans,
           TakeSlot(s)
    PROVE  AckFollowsScan'
    BY <1>17 DEF TakeSlot
<1>18. ASSUME NEW s \in Scans,
           LeaveQueue(s)
    PROVE  AckFollowsScan'
    BY <1>18 DEF LeaveQueue
<1>19. ASSUME NEW s \in Scans,
           SendHello(s)
    PROVE  AckFollowsScan'
    BY <1>19 DEF SendHello
<1>20. ASSUME NEW s \in Scans,
           ScanReturns(s)
    PROVE  AckFollowsScan'
    BY <1>20 DEF ScanReturns
<1>21. CASE RelayResets
    BY <1>21 DEF RelayResets
<1>22. CASE UNCHANGED vars
    BY <1>22
<1> QED
    BY <1>1, <1>2, <1>3, <1>4, <1>5, <1>6, <1>7, <1>8, <1>9, <1>10, <1>11,
       <1>12, <1>13, <1>14, <1>15, <1>16, <1>17, <1>18, <1>19, <1>20, <1>21,
       <1>22
       DEF Next, ScanSteps, HandlerSteps

\* The inductive invariant.
THEOREM RendezvousInvariant == Spec => []IInv
<1>1. IInv /\ [Next]_vars => IInv'
    BY TypeStep, ScanStep, BarrierStep DEF IInv
<1> QED BY <1>1, InitInv, PTL DEF Spec

\* The variables of SymmetricRendezvous keep their types: among others, no nil
\* cancel channel is ever closed.
THEOREM RendezvousTypeCorrect == Spec => []TypeOK
<1>1. IInv => TypeOK
    BY DEF IInv
<1> QED BY <1>1, RendezvousInvariant, PTL

\* Whatever is lost, delayed or repeated, a peer that sends its burst has met
\* a relay that has begun to scan for the session of this burst.
THEOREM Barrier == Spec => []BurstsMeetAScan
<1>1. IInv => BurstsMeetAScan
    BY DEF IInv, AckFollowsScan
<1> QED BY <1>1, RendezvousInvariant, PTL

\* A scan that was not cancelled can be cancelled and completed.
THEOREM NoScanEscapes == Spec => []NoOrphanScan
<1>1. IInv => NoOrphanScan
    BY DEF IInv, ScanInv
<1> QED BY <1>1, RendezvousInvariant, PTL

\* No cancel channel is closed twice.
THEOREM NoDoubleClose == Spec => []RegisteredScanIsOpen
<1>1. IInv => RegisteredScanIsOpen
    BY DEF IInv, ScanInv
<1> QED BY <1>1, RendezvousInvariant, PTL
=============================================================================
