----------------------- MODULE SymmetricTransportProofs -----------------------
(***************************************************************************)
(* Safety of SymmetricTransport for any sets of relays and sockets.        *)
(*                                                                         *)
(* None of the invariants is inductive alone.  The parts that make their   *)
(* conjunction inductive say what the locals of a goroutine mean at each   *)
(* of its control points.                                                  *)
(***************************************************************************)
EXTENDS SymmetricTransport, TLAPS

\* Where each kind of thread can be, and when its locals are set.
ThreadOK ==
    /\ pc[Pass] \in PassStates \cup BurstStates
    /\ \A r \in Relays : pc[r] \in EdgeStates \cup BurstStates
    /\ pc[Pass] \in BurstStates => target \in Relays
    /\ \A t \in Threads :
        pc[t] \in {"install", "swap", "promote", "discard"} =>
            held[t] \in Socks

\* The owner of a burst is the thread registered for its relay.
BurstOwned == \A t \in Threads : InBurst(t) => inFlight[Tgt(t)] = t

\* A local that is out of scope points to nothing.
LocalsReset ==
    \A t \in Threads :
        /\ held[t] # NoSock => pc[t] \in {"install", "swap", "drop", "promote",
                                          "discard", "reset"}
        /\ probes[t] # {} => pc[t] = "probe"

\* A reset that read the primary before it took symmetricConnMu still holds
\* the primary, or a socket that the replacement of the primary has closed.
PrimaryReadOrClosed ==
    \A t \in Threads :
        pc[t] \in {"drop", "reset"} => held[t] = conn \/ held[t] \notin open

\* The sockets a burst has not published yet.
Private(t) == {s \in Socks : \/ s \in probes[t]
                             \/ pc[t] = "install" /\ s = held[t]}

\* They belong to one burst, and no relay uses them.
PrivateSockets ==
    /\ \A t, u \in Threads : t # u => Private(t) \cap Private(u) = {}
    /\ \A t \in Threads, r \in Relays : conns[r] \notin Private(t)

IInv == /\ TypeOK
        /\ ThreadOK
        /\ BurstOwned
        /\ LocalsReset
        /\ PrimaryReadOrClosed
        /\ PrivateSockets
        /\ SocketsAccountedFor
        /\ EveryTransportIsRead
        /\ TransportsDistinct

\* The type invariant.  The value a goroutine holds is a socket wherever
\* it becomes the primary, and Pass has a target wherever it runs a
\* burst.
LEMMA TypeStep ==
    ASSUME IInv, [Next]_vars
    PROVE  TypeOK'
<1> USE ConstantsDistinct DEF IInv, TypeOK, ThreadOK, Threads, Tgt,
        PassStates, EdgeStates, BurstStates, vars, sockVars, peerVars,
        burstVars, passVars
<1>1. ASSUME NEW t \in Threads,
             OnceReturnEarly(t) \/ OncePassChecks(t) \/ JoinBurst(t)
      PROVE  TypeOK'
    BY <1>1 DEF OnceReturnEarly, OncePassChecks, JoinBurst,
        ReturnToCaller, Goto
<1>2. ASSUME NEW t \in Threads, StartBurst(t) PROVE TypeOK'
    BY <1>2 DEF StartBurst, Goto
<1>3. ASSUME NEW t \in Threads, RendezvousFails(t) PROVE TypeOK'
    <2>1. backoff' \in [Relays -> BOOLEAN]
        BY <1>3 DEF RendezvousFails, SetBackoff
    <2> QED BY <1>3, <2>1 DEF RendezvousFails, SetBackoff, EndBurst,
                ReturnToCaller, Goto
<1>4. ASSUME NEW t \in Threads, OpenProbes(t) PROVE TypeOK'
    BY <1>4 DEF OpenProbes, Free, Referenced, Goto
<1>5. ASSUME NEW t \in Threads, AbandonBurst(t) PROVE TypeOK'
    BY <1>5 DEF AbandonBurst, Close, EndBurst, ReturnToCaller, Goto
<1>6. ASSUME NEW t \in Threads, SelectProbe(t) PROVE TypeOK'
    BY <1>6 DEF SelectProbe, Hold, Close, Goto
<1>7. ASSUME NEW t \in Threads, BurstTimesOut(t) PROVE TypeOK'
    BY <1>7 DEF BurstTimesOut, Close, SetBackoff, EndBurst,
        ReturnToCaller, Goto
<1>8. ASSUME NEW t \in Threads, InstallSymmetricConn(t) PROVE TypeOK'
    BY <1>8 DEF InstallSymmetricConn, Goto, Hold
<1>9. ASSUME NEW t \in Threads, SwapPrimary(t) PROVE TypeOK'
    BY <1>9 DEF SwapPrimary, ReplaceUDPConn, Hold, Goto
<1>10. ASSUME NEW t \in Threads, FinishBurst(t) PROVE TypeOK'
    BY <1>10 DEF FinishBurst, SetBackoff, EndBurst, ReturnToCaller, Goto
<1>11. ASSUME NEW r \in Relays,
             RetryDeadEdge(r) \/ EdgeRecovered(r)
      PROVE  TypeOK'
    BY <1>11 DEF RetryDeadEdge, EdgeRecovered, Goto
<1>12. ASSUME NEW r \in Relays, ReadPrimary(r) PROVE TypeOK'
    BY <1>12 DEF ReadPrimary, Hold, Goto
<1>13. ASSUME NEW r \in Relays, DropTransport(r) PROVE TypeOK'
    BY <1>13 DEF DropTransport, Hold, Goto, Range
<1>14. ASSUME NEW r \in Relays, PromoteTransport(r) PROVE TypeOK'
    BY <1>14 DEF PromoteTransport, ReplaceUDPConn, Hold, Goto
<1>15. ASSUME NEW r \in Relays, DiscardTransport(r) PROVE TypeOK'
    BY <1>15 DEF DiscardTransport, Close, Hold, Goto
<1>16. CASE RecoverNetwork \/ RefreshEndpoint \/ VerifyEndpoint \/
            EndpointChanged
    <2>1. CASE RecoverNetwork
        BY <2>1 DEF RecoverNetwork, Goto
    <2>2. CASE RefreshEndpoint
        BY <2>2 DEF RefreshEndpoint, Goto
    <2>3. CASE VerifyEndpoint
        BY <2>3 DEF VerifyEndpoint, Goto
    <2>4. CASE EndpointChanged
        BY <2>4 DEF EndpointChanged, Goto
    <2> QED BY <1>16, <2>1, <2>2, <2>3, <2>4
<1>17. CASE RebindFails
    BY <1>17 DEF RebindFails, Close, EndPass, Goto
<1>18. CASE RebindUDPConn
    BY <1>18 DEF RebindUDPConn, Free, Referenced, Goto
<1>19. CASE ForgetPeers
    BY <1>19 DEF ForgetPeers, Hold, Goto
<1>20. CASE ResetTransports
    BY <1>20 DEF ResetTransports, Close, Hold, Goto
<1>21. CASE PassStops \/ PassDone
    <2>1. CASE PassStops
        BY <2>1 DEF PassStops, EndPass, Goto
    <2>2. CASE PassDone
        BY <2>2 DEF PassDone, EndPass, Goto
    <2> QED BY <1>21, <2>1, <2>2
<1>22. CASE Rejoin \/ PickRelay \/ NextRound
    <2>1. CASE Rejoin
        BY <2>1 DEF Rejoin, Goto
    <2>2. CASE PickRelay
        BY <2>2 DEF PickRelay, Goto
    <2>3. CASE NextRound
        BY <2>3 DEF NextRound
    <2> QED BY <1>22, <2>1, <2>2, <2>3
<1>23. ASSUME NEW r \in Relays,
             Traffic(r) \/ LinkTimesOut(r) \/ BackoffElapses(r)
      PROVE  TypeOK'
    <2>1. CASE Traffic(r)
        BY <2>1 DEF Traffic
    <2>2. CASE LinkTimesOut(r)
        BY <2>2 DEF LinkTimesOut
    <2>3. CASE BackoffElapses(r)
        BY <2>3 DEF BackoffElapses
    <2> QED BY <1>23, <2>1, <2>2, <2>3
<1>24. CASE UNCHANGED vars
    BY <1>24
<1> QED BY <1>1, <1>2, <1>3, <1>4, <1>5, <1>6, <1>7, <1>8, <1>9, <1>10,
        <1>11, <1>12, <1>13, <1>14, <1>15, <1>16, <1>17, <1>18, <1>19,
        <1>20, <1>21, <1>22, <1>23, <1>24 DEF Next, Burst, Edge, Recovery,
        PassSteps, Environment

\* Control points and locals.
LEMMA ThreadStep ==
    ASSUME IInv, [Next]_vars
    PROVE  ThreadOK'
<1> USE ConstantsDistinct DEF IInv, TypeOK, ThreadOK, LocalsReset,
        Threads, Tgt, PassStates, EdgeStates, BurstStates, vars, sockVars,
        peerVars, burstVars, passVars
<1>1. ASSUME NEW t \in Threads,
             OnceReturnEarly(t) \/ OncePassChecks(t) \/ JoinBurst(t)
      PROVE  ThreadOK'
    BY <1>1 DEF OnceReturnEarly, OncePassChecks, JoinBurst,
        ReturnToCaller, Goto
<1>2. ASSUME NEW t \in Threads, StartBurst(t) PROVE ThreadOK'
    BY <1>2 DEF StartBurst, Goto
<1>3. ASSUME NEW t \in Threads, RendezvousFails(t) PROVE ThreadOK'
    BY <1>3 DEF RendezvousFails, SetBackoff, EndBurst, ReturnToCaller,
        Goto
<1>4. ASSUME NEW t \in Threads, OpenProbes(t) PROVE ThreadOK'
    BY <1>4 DEF OpenProbes, Free, Referenced, Goto
<1>5. ASSUME NEW t \in Threads, AbandonBurst(t) PROVE ThreadOK'
    BY <1>5 DEF AbandonBurst, Close, EndBurst, ReturnToCaller, Goto
<1>6. ASSUME NEW t \in Threads, SelectProbe(t) PROVE ThreadOK'
    BY <1>6 DEF SelectProbe, Hold, Close, Goto
<1>7. ASSUME NEW t \in Threads, BurstTimesOut(t) PROVE ThreadOK'
    BY <1>7 DEF BurstTimesOut, Close, SetBackoff, EndBurst,
        ReturnToCaller, Goto
<1>8. ASSUME NEW t \in Threads, InstallSymmetricConn(t) PROVE ThreadOK'
    BY <1>8 DEF InstallSymmetricConn, Goto, Hold
<1>9. ASSUME NEW t \in Threads, SwapPrimary(t) PROVE ThreadOK'
    BY <1>9 DEF SwapPrimary, ReplaceUDPConn, Hold, Goto
<1>10. ASSUME NEW t \in Threads, FinishBurst(t) PROVE ThreadOK'
    BY <1>10 DEF FinishBurst, SetBackoff, EndBurst, ReturnToCaller, Goto
<1>11. ASSUME NEW r \in Relays,
             RetryDeadEdge(r) \/ EdgeRecovered(r)
      PROVE  ThreadOK'
    BY <1>11 DEF RetryDeadEdge, EdgeRecovered, Goto
<1>12. ASSUME NEW r \in Relays, ReadPrimary(r) PROVE ThreadOK'
    BY <1>12 DEF ReadPrimary, Hold, Goto
<1>13. ASSUME NEW r \in Relays, DropTransport(r) PROVE ThreadOK'
    BY <1>13 DEF DropTransport, Hold, Goto, Range
<1>14. ASSUME NEW r \in Relays, PromoteTransport(r) PROVE ThreadOK'
    BY <1>14 DEF PromoteTransport, ReplaceUDPConn, Hold, Goto
<1>15. ASSUME NEW r \in Relays, DiscardTransport(r) PROVE ThreadOK'
    BY <1>15 DEF DiscardTransport, Close, Hold, Goto
<1>16. CASE RecoverNetwork \/ RefreshEndpoint \/ VerifyEndpoint \/
            EndpointChanged
    BY <1>16 DEF RecoverNetwork, RefreshEndpoint, VerifyEndpoint,
        EndpointChanged, Goto
<1>17. CASE RebindFails
    BY <1>17 DEF RebindFails, Close, EndPass, Goto
<1>18. CASE RebindUDPConn
    BY <1>18 DEF RebindUDPConn, Free, Referenced, Goto
<1>19. CASE ForgetPeers
    BY <1>19 DEF ForgetPeers, Hold, Goto
<1>20. CASE ResetTransports
    BY <1>20 DEF ResetTransports, Close, Hold, Goto
<1>21. CASE PassStops \/ PassDone
    BY <1>21 DEF PassStops, PassDone, EndPass, Goto
<1>22. CASE Rejoin \/ PickRelay \/ NextRound
    BY <1>22 DEF Rejoin, PickRelay, NextRound, Goto
<1>23. ASSUME NEW r \in Relays,
             Traffic(r) \/ LinkTimesOut(r) \/ BackoffElapses(r)
      PROVE  ThreadOK'
    BY <1>23 DEF Traffic, LinkTimesOut, BackoffElapses
<1>24. CASE UNCHANGED vars
    BY <1>24
<1> QED BY <1>1, <1>2, <1>3, <1>4, <1>5, <1>6, <1>7, <1>8, <1>9, <1>10,
        <1>11, <1>12, <1>13, <1>14, <1>15, <1>16, <1>17, <1>18, <1>19,
        <1>20, <1>21, <1>22, <1>23, <1>24 DEF Next, Burst, Edge, Recovery,
        PassSteps, Environment

\* symmetricBurstMu: a burst registers itself when no other one of its
\* relay is registered, and only its owner removes it.
LEMMA BurstStep ==
    ASSUME IInv, [Next]_vars
    PROVE  BurstOwned'
<1> USE ConstantsDistinct DEF IInv, TypeOK, ThreadOK, BurstOwned, InBurst,
        Threads, Tgt, PassStates, EdgeStates, BurstStates, vars, sockVars,
        peerVars, burstVars, passVars
<1>1. ASSUME NEW t \in Threads,
             OnceReturnEarly(t) \/ OncePassChecks(t) \/ JoinBurst(t)
      PROVE  BurstOwned'
    BY <1>1 DEF OnceReturnEarly, OncePassChecks, JoinBurst,
        ReturnToCaller, Goto
<1>2. ASSUME NEW t \in Threads, StartBurst(t) PROVE BurstOwned'
    BY <1>2 DEF StartBurst, Goto
<1>3. ASSUME NEW t \in Threads, RendezvousFails(t) PROVE BurstOwned'
    BY <1>3 DEF RendezvousFails, SetBackoff, EndBurst, ReturnToCaller,
        Goto
<1>4. ASSUME NEW t \in Threads, OpenProbes(t) PROVE BurstOwned'
    BY <1>4 DEF OpenProbes, Free, Referenced, Goto
<1>5. ASSUME NEW t \in Threads, AbandonBurst(t) PROVE BurstOwned'
    BY <1>5 DEF AbandonBurst, Close, EndBurst, ReturnToCaller, Goto
<1>6. ASSUME NEW t \in Threads, SelectProbe(t) PROVE BurstOwned'
    BY <1>6 DEF SelectProbe, Hold, Close, Goto
<1>7. ASSUME NEW t \in Threads, BurstTimesOut(t) PROVE BurstOwned'
    BY <1>7 DEF BurstTimesOut, Close, SetBackoff, EndBurst,
        ReturnToCaller, Goto
<1>8. ASSUME NEW t \in Threads, InstallSymmetricConn(t) PROVE BurstOwned'
    BY <1>8 DEF InstallSymmetricConn, Goto, Hold
<1>9. ASSUME NEW t \in Threads, SwapPrimary(t) PROVE BurstOwned'
    BY <1>9 DEF SwapPrimary, ReplaceUDPConn, Hold, Goto
<1>10. ASSUME NEW t \in Threads, FinishBurst(t) PROVE BurstOwned'
    BY <1>10 DEF FinishBurst, SetBackoff, EndBurst, ReturnToCaller, Goto
<1>11. ASSUME NEW r \in Relays,
             RetryDeadEdge(r) \/ EdgeRecovered(r)
      PROVE  BurstOwned'
    BY <1>11 DEF RetryDeadEdge, EdgeRecovered, Goto
<1>12. ASSUME NEW r \in Relays, ReadPrimary(r) PROVE BurstOwned'
    BY <1>12 DEF ReadPrimary, Hold, Goto
<1>13. ASSUME NEW r \in Relays, DropTransport(r) PROVE BurstOwned'
    BY <1>13 DEF DropTransport, Hold, Goto
<1>14. ASSUME NEW r \in Relays, PromoteTransport(r) PROVE BurstOwned'
    BY <1>14 DEF PromoteTransport, ReplaceUDPConn, Hold, Goto
<1>15. ASSUME NEW r \in Relays, DiscardTransport(r) PROVE BurstOwned'
    BY <1>15 DEF DiscardTransport, Close, Hold, Goto
<1>16. CASE RecoverNetwork \/ RefreshEndpoint \/ VerifyEndpoint \/
            EndpointChanged
    BY <1>16 DEF RecoverNetwork, RefreshEndpoint, VerifyEndpoint,
        EndpointChanged, Goto
<1>17. CASE RebindFails
    BY <1>17 DEF RebindFails, Close, EndPass, Goto
<1>18. CASE RebindUDPConn
    BY <1>18 DEF RebindUDPConn, Free, Referenced, Goto
<1>19. CASE ForgetPeers
    BY <1>19 DEF ForgetPeers, Hold, Goto
<1>20. CASE ResetTransports
    BY <1>20 DEF ResetTransports, Close, Hold, Goto
<1>21. CASE PassStops \/ PassDone
    BY <1>21 DEF PassStops, PassDone, EndPass, Goto
<1>22. CASE Rejoin \/ PickRelay \/ NextRound
    BY <1>22 DEF Rejoin, PickRelay, NextRound, Goto
<1>23. ASSUME NEW r \in Relays,
             Traffic(r) \/ LinkTimesOut(r) \/ BackoffElapses(r)
      PROVE  BurstOwned'
    BY <1>23 DEF Traffic, LinkTimesOut, BackoffElapses
<1>24. CASE UNCHANGED vars
    BY <1>24
<1> QED BY <1>1, <1>2, <1>3, <1>4, <1>5, <1>6, <1>7, <1>8, <1>9, <1>10,
        <1>11, <1>12, <1>13, <1>14, <1>15, <1>16, <1>17, <1>18, <1>19,
        <1>20, <1>21, <1>22, <1>23, <1>24 DEF Next, Burst, Edge, Recovery,
        PassSteps, Environment

\* Locals are set where they are in scope only.
LEMMA LocalsStep ==
    ASSUME IInv, [Next]_vars
    PROVE  LocalsReset'
<1> USE ConstantsDistinct DEF IInv, TypeOK, ThreadOK, LocalsReset,
        Threads, Tgt, PassStates, EdgeStates, BurstStates, vars, sockVars,
        peerVars, burstVars, passVars
<1>1. ASSUME NEW t \in Threads,
             OnceReturnEarly(t) \/ OncePassChecks(t) \/ JoinBurst(t)
      PROVE  LocalsReset'
    BY <1>1 DEF OnceReturnEarly, OncePassChecks, JoinBurst,
        ReturnToCaller, Goto
<1>2. ASSUME NEW t \in Threads, StartBurst(t) PROVE LocalsReset'
    BY <1>2 DEF StartBurst, Goto
<1>3. ASSUME NEW t \in Threads, RendezvousFails(t) PROVE LocalsReset'
    BY <1>3 DEF RendezvousFails, SetBackoff, EndBurst, ReturnToCaller,
        Goto
<1>4. ASSUME NEW t \in Threads, OpenProbes(t) PROVE LocalsReset'
    BY <1>4 DEF OpenProbes, Free, Referenced, Goto
<1>5. ASSUME NEW t \in Threads, AbandonBurst(t) PROVE LocalsReset'
    BY <1>5 DEF AbandonBurst, Close, EndBurst, ReturnToCaller, Goto
<1>6. ASSUME NEW t \in Threads, SelectProbe(t) PROVE LocalsReset'
    BY <1>6 DEF SelectProbe, Hold, Close, Goto
<1>7. ASSUME NEW t \in Threads, BurstTimesOut(t) PROVE LocalsReset'
    BY <1>7 DEF BurstTimesOut, Close, SetBackoff, EndBurst,
        ReturnToCaller, Goto
<1>8. ASSUME NEW t \in Threads, InstallSymmetricConn(t) PROVE LocalsReset'
    BY <1>8 DEF InstallSymmetricConn, Goto, Hold
<1>9. ASSUME NEW t \in Threads, SwapPrimary(t) PROVE LocalsReset'
    BY <1>9 DEF SwapPrimary, ReplaceUDPConn, Hold, Goto
<1>10. ASSUME NEW t \in Threads, FinishBurst(t) PROVE LocalsReset'
    BY <1>10 DEF FinishBurst, SetBackoff, EndBurst, ReturnToCaller, Goto
<1>11. ASSUME NEW r \in Relays,
             RetryDeadEdge(r) \/ EdgeRecovered(r)
      PROVE  LocalsReset'
    BY <1>11 DEF RetryDeadEdge, EdgeRecovered, Goto
<1>12. ASSUME NEW r \in Relays, ReadPrimary(r) PROVE LocalsReset'
    BY <1>12 DEF ReadPrimary, Hold, Goto
<1>13. ASSUME NEW r \in Relays, DropTransport(r) PROVE LocalsReset'
    BY <1>13 DEF DropTransport, Hold, Goto
<1>14. ASSUME NEW r \in Relays, PromoteTransport(r) PROVE LocalsReset'
    BY <1>14 DEF PromoteTransport, ReplaceUDPConn, Hold, Goto
<1>15. ASSUME NEW r \in Relays, DiscardTransport(r) PROVE LocalsReset'
    BY <1>15 DEF DiscardTransport, Close, Hold, Goto
<1>16. CASE RecoverNetwork \/ RefreshEndpoint \/ VerifyEndpoint \/
            EndpointChanged
    BY <1>16 DEF RecoverNetwork, RefreshEndpoint, VerifyEndpoint,
        EndpointChanged, Goto
<1>17. CASE RebindFails
    BY <1>17 DEF RebindFails, Close, EndPass, Goto
<1>18. CASE RebindUDPConn
    BY <1>18 DEF RebindUDPConn, Free, Referenced, Goto
<1>19. CASE ForgetPeers
    BY <1>19 DEF ForgetPeers, Hold, Goto
<1>20. CASE ResetTransports
    BY <1>20 DEF ResetTransports, Close, Hold, Goto
<1>21. CASE PassStops \/ PassDone
    BY <1>21 DEF PassStops, PassDone, EndPass, Goto
<1>22. CASE Rejoin \/ PickRelay \/ NextRound
    BY <1>22 DEF Rejoin, PickRelay, NextRound, Goto
<1>23. ASSUME NEW r \in Relays,
             Traffic(r) \/ LinkTimesOut(r) \/ BackoffElapses(r)
      PROVE  LocalsReset'
    BY <1>23 DEF Traffic, LinkTimesOut, BackoffElapses
<1>24. CASE UNCHANGED vars
    BY <1>24
<1> QED BY <1>1, <1>2, <1>3, <1>4, <1>5, <1>6, <1>7, <1>8, <1>9, <1>10,
        <1>11, <1>12, <1>13, <1>14, <1>15, <1>16, <1>17, <1>18, <1>19,
        <1>20, <1>21, <1>22, <1>23, <1>24 DEF Next, Burst, Edge, Recovery,
        PassSteps, Environment

\* The primary is replaced by steps that close it, and a new socket is
\* never one that a goroutine still points to.
LEMMA PrimaryStep ==
    ASSUME IInv, [Next]_vars
    PROVE  PrimaryReadOrClosed'
<1> USE ConstantsDistinct DEF IInv, TypeOK, ThreadOK, PrimaryReadOrClosed,
        Threads, Tgt, Range, PassStates, EdgeStates, BurstStates, vars,
        sockVars, peerVars, burstVars, passVars
<1>1. ASSUME NEW t \in Threads,
             OnceReturnEarly(t) \/ OncePassChecks(t) \/ JoinBurst(t)
      PROVE  PrimaryReadOrClosed'
    BY <1>1 DEF OnceReturnEarly, OncePassChecks, JoinBurst,
        ReturnToCaller, Goto
<1>2. ASSUME NEW t \in Threads, StartBurst(t) PROVE PrimaryReadOrClosed'
    BY <1>2 DEF StartBurst, Goto
<1>3. ASSUME NEW t \in Threads, RendezvousFails(t) PROVE PrimaryReadOrClosed'
    BY <1>3 DEF RendezvousFails, SetBackoff, EndBurst, ReturnToCaller,
        Goto
<1>4. ASSUME NEW t \in Threads, OpenProbes(t) PROVE PrimaryReadOrClosed'
    BY <1>4 DEF OpenProbes, Free, Referenced, Goto
<1>5. ASSUME NEW t \in Threads, AbandonBurst(t) PROVE PrimaryReadOrClosed'
    BY <1>5 DEF AbandonBurst, Close, EndBurst, ReturnToCaller, Goto
<1>6. ASSUME NEW t \in Threads, SelectProbe(t) PROVE PrimaryReadOrClosed'
    BY <1>6 DEF SelectProbe, Hold, Close, Goto
<1>7. ASSUME NEW t \in Threads, BurstTimesOut(t) PROVE PrimaryReadOrClosed'
    BY <1>7 DEF BurstTimesOut, Close, SetBackoff, EndBurst,
        ReturnToCaller, Goto
<1>8. ASSUME NEW t \in Threads, InstallSymmetricConn(t) PROVE PrimaryReadOrClosed'
    BY <1>8 DEF InstallSymmetricConn, Goto, Hold
<1>9. ASSUME NEW t \in Threads, SwapPrimary(t) PROVE PrimaryReadOrClosed'
    BY <1>9 DEF SwapPrimary, ReplaceUDPConn, Hold, Goto
<1>10. ASSUME NEW t \in Threads, FinishBurst(t) PROVE PrimaryReadOrClosed'
    BY <1>10 DEF FinishBurst, SetBackoff, EndBurst, ReturnToCaller, Goto
<1>11. ASSUME NEW r \in Relays,
             RetryDeadEdge(r) \/ EdgeRecovered(r)
      PROVE  PrimaryReadOrClosed'
    BY <1>11 DEF RetryDeadEdge, EdgeRecovered, Goto
<1>12. ASSUME NEW r \in Relays, ReadPrimary(r) PROVE PrimaryReadOrClosed'
    BY <1>12 DEF ReadPrimary, Hold, Goto
<1>13. ASSUME NEW r \in Relays, DropTransport(r) PROVE PrimaryReadOrClosed'
    BY <1>13 DEF DropTransport, Hold, Goto
<1>14. ASSUME NEW r \in Relays, PromoteTransport(r) PROVE PrimaryReadOrClosed'
    BY <1>14 DEF PromoteTransport, ReplaceUDPConn, Hold, Goto
<1>15. ASSUME NEW r \in Relays, DiscardTransport(r) PROVE PrimaryReadOrClosed'
    BY <1>15 DEF DiscardTransport, Close, Hold, Goto
<1>16. CASE RecoverNetwork \/ RefreshEndpoint \/ VerifyEndpoint \/
            EndpointChanged
    BY <1>16 DEF RecoverNetwork, RefreshEndpoint, VerifyEndpoint,
        EndpointChanged, Goto
<1>17. CASE RebindFails
    BY <1>17 DEF RebindFails, Close, EndPass, Goto
<1>18. CASE RebindUDPConn
    BY <1>18 DEF RebindUDPConn, Free, Referenced, Goto
<1>19. CASE ForgetPeers
    BY <1>19 DEF ForgetPeers, Hold, Goto
<1>20. CASE ResetTransports
    BY <1>20 DEF ResetTransports, Close, Hold, Goto
<1>21. CASE PassStops \/ PassDone
    BY <1>21 DEF PassStops, PassDone, EndPass, Goto
<1>22. CASE Rejoin \/ PickRelay \/ NextRound
    BY <1>22 DEF Rejoin, PickRelay, NextRound, Goto
<1>23. ASSUME NEW r \in Relays,
             Traffic(r) \/ LinkTimesOut(r) \/ BackoffElapses(r)
      PROVE  PrimaryReadOrClosed'
    BY <1>23 DEF Traffic, LinkTimesOut, BackoffElapses
<1>24. CASE UNCHANGED vars
    BY <1>24
<1> QED BY <1>1, <1>2, <1>3, <1>4, <1>5, <1>6, <1>7, <1>8, <1>9, <1>10,
        <1>11, <1>12, <1>13, <1>14, <1>15, <1>16, <1>17, <1>18, <1>19,
        <1>20, <1>21, <1>22, <1>23, <1>24 DEF Next, Burst, Edge, Recovery,
        PassSteps, Environment

\* Probes are fresh sockets, and a burst publishes only its own.
LEMMA PrivateStep ==
    ASSUME IInv, [Next]_vars
    PROVE  PrivateSockets'
<1> USE ConstantsDistinct DEF IInv, TypeOK, ThreadOK, LocalsReset,
        PrivateSockets, Private, Threads, Tgt, Range, PassStates,
        EdgeStates, BurstStates, vars, sockVars, peerVars, burstVars,
        passVars
<1>1. ASSUME NEW t \in Threads,
             OnceReturnEarly(t) \/ OncePassChecks(t) \/ JoinBurst(t)
      PROVE  PrivateSockets'
    <2>1. CASE OnceReturnEarly(t)
        BY <2>1 DEF OnceReturnEarly, ReturnToCaller, Goto
    <2>2. CASE OncePassChecks(t)
        BY <2>2 DEF OncePassChecks, Goto
    <2>3. CASE JoinBurst(t)
        BY <2>3 DEF JoinBurst, ReturnToCaller, Goto
    <2> QED BY <1>1, <2>1, <2>2, <2>3
<1>2. ASSUME NEW t \in Threads, StartBurst(t) PROVE PrivateSockets'
    BY <1>2 DEF StartBurst, Goto
<1>3. ASSUME NEW t \in Threads, RendezvousFails(t) PROVE PrivateSockets'
    BY <1>3 DEF RendezvousFails, SetBackoff, EndBurst, ReturnToCaller,
        Goto
<1>4. ASSUME NEW t \in Threads, OpenProbes(t) PROVE PrivateSockets'
    BY <1>4 DEF OpenProbes, Free, Referenced, Goto
<1>5. ASSUME NEW t \in Threads, AbandonBurst(t) PROVE PrivateSockets'
    BY <1>5 DEF AbandonBurst, Close, EndBurst, ReturnToCaller, Goto
<1>6. ASSUME NEW t \in Threads, SelectProbe(t) PROVE PrivateSockets'
    BY <1>6 DEF SelectProbe, Hold, Close, Goto
<1>7. ASSUME NEW t \in Threads, BurstTimesOut(t) PROVE PrivateSockets'
    BY <1>7 DEF BurstTimesOut, Close, SetBackoff, EndBurst,
        ReturnToCaller, Goto
<1>8. ASSUME NEW t \in Threads, InstallSymmetricConn(t) PROVE PrivateSockets'
    <2>1. /\ pc[t] = "install" /\ pc'[t] \in {"swap", "finish"}
          /\ probes' = probes
          /\ \A u \in Threads \ {t} : pc'[u] = pc[u] /\ held'[u] = held[u]
          /\ Tgt(t) \in Relays
          /\ conns' = [conns EXCEPT ![Tgt(t)] = held[t]]
        BY <1>8 DEF InstallSymmetricConn, Goto, Hold
    <2>2. /\ Private(t)' = probes[t] /\ probes[t] = {}
          /\ \A u \in Threads \ {t} : Private(u)' = Private(u)
        BY <2>1
    <2>3. \A u \in Threads \ {t} : held[t] \notin Private(u)
        BY <2>1
    <2> HIDE DEF Private
    <2> QED BY <2>1, <2>2, <2>3
<1>9. ASSUME NEW t \in Threads, SwapPrimary(t) PROVE PrivateSockets'
    BY <1>9 DEF SwapPrimary, ReplaceUDPConn, Hold, Goto
<1>10. ASSUME NEW t \in Threads, FinishBurst(t) PROVE PrivateSockets'
    BY <1>10 DEF FinishBurst, SetBackoff, EndBurst, ReturnToCaller, Goto
<1>11. ASSUME NEW r \in Relays,
             RetryDeadEdge(r) \/ EdgeRecovered(r)
      PROVE  PrivateSockets'
    BY <1>11 DEF RetryDeadEdge, EdgeRecovered, Goto
<1>12. ASSUME NEW r \in Relays, ReadPrimary(r) PROVE PrivateSockets'
    BY <1>12 DEF ReadPrimary, Hold, Goto
<1>13. ASSUME NEW r \in Relays, DropTransport(r) PROVE PrivateSockets'
    <2>1. /\ pc[r] = "drop" /\ pc'[r] \in {"check", "promote", "discard"}
          /\ probes' = probes
          /\ \A u \in Threads \ {r} : pc'[u] = pc[u] /\ held'[u] = held[u]
          /\ conns' = [conns EXCEPT ![r] = NoSock]
        BY <1>13 DEF DropTransport, Hold, Goto
    <2>2. \A u \in Threads : Private(u)' = Private(u) /\ NoSock \notin Private(u)
        BY <2>1
    <2> HIDE DEF Private
    <2> QED BY <2>1, <2>2
<1>14. ASSUME NEW r \in Relays, PromoteTransport(r) PROVE PrivateSockets'
    BY <1>14 DEF PromoteTransport, ReplaceUDPConn, Hold, Goto
<1>15. ASSUME NEW r \in Relays, DiscardTransport(r) PROVE PrivateSockets'
    BY <1>15 DEF DiscardTransport, Close, Hold, Goto
<1>16. CASE RecoverNetwork \/ RefreshEndpoint \/ VerifyEndpoint \/
            EndpointChanged
    BY <1>16 DEF RecoverNetwork, RefreshEndpoint, VerifyEndpoint,
        EndpointChanged, Goto
<1>17. CASE RebindFails
    BY <1>17 DEF RebindFails, Close, EndPass, Goto
<1>18. CASE RebindUDPConn
    BY <1>18 DEF RebindUDPConn, Free, Referenced, Goto
<1>19. CASE ForgetPeers
    BY <1>19 DEF ForgetPeers, Hold, Goto
<1>20. CASE ResetTransports
    BY <1>20 DEF ResetTransports, Close, Hold, Goto
<1>21. CASE PassStops \/ PassDone
    BY <1>21 DEF PassStops, PassDone, EndPass, Goto
<1>22. CASE Rejoin \/ PickRelay \/ NextRound
    BY <1>22 DEF Rejoin, PickRelay, NextRound, Goto
<1>23. ASSUME NEW r \in Relays,
             Traffic(r) \/ LinkTimesOut(r) \/ BackoffElapses(r)
      PROVE  PrivateSockets'
    BY <1>23 DEF Traffic, LinkTimesOut, BackoffElapses
<1>24. CASE UNCHANGED vars
    BY <1>24
<1> QED BY <1>1, <1>2, <1>3, <1>4, <1>5, <1>6, <1>7, <1>8, <1>9, <1>10,
        <1>11, <1>12, <1>13, <1>14, <1>15, <1>16, <1>17, <1>18, <1>19,
        <1>20, <1>21, <1>22, <1>23, <1>24 DEF Next, Burst, Edge, Recovery,
        PassSteps, Environment

\* Every step that overwrites a pointer closes the socket, keeps it
\* elsewhere, or records it as displaced.
LEMMA AccountStep ==
    ASSUME IInv, [Next]_vars
    PROVE  SocketsAccountedFor'
<1> USE ConstantsDistinct DEF IInv, TypeOK, ThreadOK, LocalsReset,
        PrimaryReadOrClosed, SocketsAccountedFor, Threads, Tgt,
        PassStates, EdgeStates, BurstStates, vars, sockVars, peerVars,
        burstVars, passVars
<1>1. ASSUME NEW t \in Threads,
             OnceReturnEarly(t) \/ OncePassChecks(t) \/ JoinBurst(t)
      PROVE  SocketsAccountedFor'
    BY <1>1 DEF OnceReturnEarly, OncePassChecks, JoinBurst,
        ReturnToCaller, Goto
<1>2. ASSUME NEW t \in Threads, StartBurst(t) PROVE SocketsAccountedFor'
    BY <1>2 DEF StartBurst, Goto
<1>3. ASSUME NEW t \in Threads, RendezvousFails(t) PROVE SocketsAccountedFor'
    BY <1>3 DEF RendezvousFails, SetBackoff, EndBurst, ReturnToCaller,
        Goto
<1>4. ASSUME NEW t \in Threads, OpenProbes(t) PROVE SocketsAccountedFor'
    BY <1>4 DEF OpenProbes, Free, Referenced, Goto
<1>5. ASSUME NEW t \in Threads, AbandonBurst(t) PROVE SocketsAccountedFor'
    BY <1>5 DEF AbandonBurst, Close, EndBurst, ReturnToCaller, Goto
<1>6. ASSUME NEW t \in Threads, SelectProbe(t) PROVE SocketsAccountedFor'
    BY <1>6 DEF SelectProbe, Hold, Close, Goto
<1>7. ASSUME NEW t \in Threads, BurstTimesOut(t) PROVE SocketsAccountedFor'
    BY <1>7 DEF BurstTimesOut, Close, SetBackoff, EndBurst,
        ReturnToCaller, Goto
<1>8. ASSUME NEW t \in Threads, InstallSymmetricConn(t) PROVE SocketsAccountedFor'
    BY <1>8 DEF InstallSymmetricConn, Goto, Hold
<1>9. ASSUME NEW t \in Threads, SwapPrimary(t) PROVE SocketsAccountedFor'
    BY <1>9 DEF SwapPrimary, ReplaceUDPConn, Hold, Goto
<1>10. ASSUME NEW t \in Threads, FinishBurst(t) PROVE SocketsAccountedFor'
    BY <1>10 DEF FinishBurst, SetBackoff, EndBurst, ReturnToCaller, Goto
<1>11. ASSUME NEW r \in Relays,
             RetryDeadEdge(r) \/ EdgeRecovered(r)
      PROVE  SocketsAccountedFor'
    BY <1>11 DEF RetryDeadEdge, EdgeRecovered, Goto
<1>12. ASSUME NEW r \in Relays, ReadPrimary(r) PROVE SocketsAccountedFor'
    BY <1>12 DEF ReadPrimary, Hold, Goto
<1>13. ASSUME NEW r \in Relays, DropTransport(r) PROVE SocketsAccountedFor'
    BY <1>13 DEF DropTransport, Hold, Goto
<1>14. ASSUME NEW r \in Relays, PromoteTransport(r) PROVE SocketsAccountedFor'
    BY <1>14 DEF PromoteTransport, ReplaceUDPConn, Hold, Goto
<1>15. ASSUME NEW r \in Relays, DiscardTransport(r) PROVE SocketsAccountedFor'
    BY <1>15 DEF DiscardTransport, Close, Hold, Goto
<1>16. CASE RecoverNetwork \/ RefreshEndpoint \/ VerifyEndpoint \/
            EndpointChanged
    BY <1>16 DEF RecoverNetwork, RefreshEndpoint, VerifyEndpoint,
        EndpointChanged, Goto
<1>17. CASE RebindFails
    BY <1>17 DEF RebindFails, Close, EndPass, Goto
<1>18. CASE RebindUDPConn
    BY <1>18 DEF RebindUDPConn, Free, Referenced, Goto
<1>19. CASE ForgetPeers
    BY <1>19 DEF ForgetPeers, Hold, Goto
<1>20. CASE ResetTransports
    BY <1>20 DEF ResetTransports, Close, Hold, Goto, Range
<1>21. CASE PassStops \/ PassDone
    BY <1>21 DEF PassStops, PassDone, EndPass, Goto
<1>22. CASE Rejoin \/ PickRelay \/ NextRound
    BY <1>22 DEF Rejoin, PickRelay, NextRound, Goto
<1>23. ASSUME NEW r \in Relays,
             Traffic(r) \/ LinkTimesOut(r) \/ BackoffElapses(r)
      PROVE  SocketsAccountedFor'
    BY <1>23 DEF Traffic, LinkTimesOut, BackoffElapses
<1>24. CASE UNCHANGED vars
    BY <1>24
<1> QED BY <1>1, <1>2, <1>3, <1>4, <1>5, <1>6, <1>7, <1>8, <1>9, <1>10,
        <1>11, <1>12, <1>13, <1>14, <1>15, <1>16, <1>17, <1>18, <1>19,
        <1>20, <1>21, <1>22, <1>23, <1>24 DEF Next, Burst, Edge, Recovery,
        PassSteps, Environment

\* addReceiveSocket follows every publication of a socket.
LEMMA ReadStep ==
    ASSUME IInv, [Next]_vars
    PROVE  EveryTransportIsRead'
<1> USE ConstantsDistinct DEF IInv, TypeOK, ThreadOK,
        EveryTransportIsRead, Threads, Tgt, Range, PassStates, EdgeStates,
        BurstStates, vars, sockVars, peerVars, burstVars, passVars
<1>1. ASSUME NEW t \in Threads,
             OnceReturnEarly(t) \/ OncePassChecks(t) \/ JoinBurst(t)
      PROVE  EveryTransportIsRead'
    BY <1>1 DEF OnceReturnEarly, OncePassChecks, JoinBurst,
        ReturnToCaller, Goto
<1>2. ASSUME NEW t \in Threads, StartBurst(t) PROVE EveryTransportIsRead'
    BY <1>2 DEF StartBurst, Goto
<1>3. ASSUME NEW t \in Threads, RendezvousFails(t) PROVE EveryTransportIsRead'
    BY <1>3 DEF RendezvousFails, SetBackoff, EndBurst, ReturnToCaller,
        Goto
<1>4. ASSUME NEW t \in Threads, OpenProbes(t) PROVE EveryTransportIsRead'
    BY <1>4 DEF OpenProbes, Free, Referenced, Goto
<1>5. ASSUME NEW t \in Threads, AbandonBurst(t) PROVE EveryTransportIsRead'
    BY <1>5 DEF AbandonBurst, Close, EndBurst, ReturnToCaller, Goto
<1>6. ASSUME NEW t \in Threads, SelectProbe(t) PROVE EveryTransportIsRead'
    BY <1>6 DEF SelectProbe, Hold, Close, Goto
<1>7. ASSUME NEW t \in Threads, BurstTimesOut(t) PROVE EveryTransportIsRead'
    BY <1>7 DEF BurstTimesOut, Close, SetBackoff, EndBurst,
        ReturnToCaller, Goto
<1>8. ASSUME NEW t \in Threads, InstallSymmetricConn(t) PROVE EveryTransportIsRead'
    BY <1>8 DEF InstallSymmetricConn, Goto, Hold
<1>9. ASSUME NEW t \in Threads, SwapPrimary(t) PROVE EveryTransportIsRead'
    BY <1>9 DEF SwapPrimary, ReplaceUDPConn, Hold, Goto
<1>10. ASSUME NEW t \in Threads, FinishBurst(t) PROVE EveryTransportIsRead'
    BY <1>10 DEF FinishBurst, SetBackoff, EndBurst, ReturnToCaller, Goto
<1>11. ASSUME NEW r \in Relays,
             RetryDeadEdge(r) \/ EdgeRecovered(r)
      PROVE  EveryTransportIsRead'
    BY <1>11 DEF RetryDeadEdge, EdgeRecovered, Goto
<1>12. ASSUME NEW r \in Relays, ReadPrimary(r) PROVE EveryTransportIsRead'
    BY <1>12 DEF ReadPrimary, Hold, Goto
<1>13. ASSUME NEW r \in Relays, DropTransport(r) PROVE EveryTransportIsRead'
    BY <1>13 DEF DropTransport, Hold, Goto
<1>14. ASSUME NEW r \in Relays, PromoteTransport(r) PROVE EveryTransportIsRead'
    BY <1>14 DEF PromoteTransport, ReplaceUDPConn, Hold, Goto
<1>15. ASSUME NEW r \in Relays, DiscardTransport(r) PROVE EveryTransportIsRead'
    BY <1>15 DEF DiscardTransport, Close, Hold, Goto
<1>16. CASE RecoverNetwork \/ RefreshEndpoint \/ VerifyEndpoint \/
            EndpointChanged
    BY <1>16 DEF RecoverNetwork, RefreshEndpoint, VerifyEndpoint,
        EndpointChanged, Goto
<1>17. CASE RebindFails
    BY <1>17 DEF RebindFails, Close, EndPass, Goto
<1>18. CASE RebindUDPConn
    BY <1>18 DEF RebindUDPConn, Free, Referenced, Goto
<1>19. CASE ForgetPeers
    BY <1>19 DEF ForgetPeers, Hold, Goto
<1>20. CASE ResetTransports
    BY <1>20 DEF ResetTransports, Close, Hold, Goto
<1>21. CASE PassStops \/ PassDone
    BY <1>21 DEF PassStops, PassDone, EndPass, Goto
<1>22. CASE Rejoin \/ PickRelay \/ NextRound
    BY <1>22 DEF Rejoin, PickRelay, NextRound, Goto
<1>23. ASSUME NEW r \in Relays,
             Traffic(r) \/ LinkTimesOut(r) \/ BackoffElapses(r)
      PROVE  EveryTransportIsRead'
    BY <1>23 DEF Traffic, LinkTimesOut, BackoffElapses
<1>24. CASE UNCHANGED vars
    BY <1>24
<1> QED BY <1>1, <1>2, <1>3, <1>4, <1>5, <1>6, <1>7, <1>8, <1>9, <1>10,
        <1>11, <1>12, <1>13, <1>14, <1>15, <1>16, <1>17, <1>18, <1>19,
        <1>20, <1>21, <1>22, <1>23, <1>24 DEF Next, Burst, Edge, Recovery,
        PassSteps, Environment

\* What a burst installs was private to it until then.
LEMMA DistinctStep ==
    ASSUME IInv, [Next]_vars
    PROVE  TransportsDistinct'
<1> USE ConstantsDistinct DEF IInv, TypeOK, ThreadOK, PrivateSockets,
        Private, TransportsDistinct, Threads, Tgt, PassStates, EdgeStates,
        BurstStates, vars, sockVars, peerVars, burstVars, passVars
<1>1. ASSUME NEW t \in Threads,
             OnceReturnEarly(t) \/ OncePassChecks(t) \/ JoinBurst(t)
      PROVE  TransportsDistinct'
    BY <1>1 DEF OnceReturnEarly, OncePassChecks, JoinBurst,
        ReturnToCaller, Goto
<1>2. ASSUME NEW t \in Threads, StartBurst(t) PROVE TransportsDistinct'
    BY <1>2 DEF StartBurst, Goto
<1>3. ASSUME NEW t \in Threads, RendezvousFails(t) PROVE TransportsDistinct'
    BY <1>3 DEF RendezvousFails, SetBackoff, EndBurst, ReturnToCaller,
        Goto
<1>4. ASSUME NEW t \in Threads, OpenProbes(t) PROVE TransportsDistinct'
    BY <1>4 DEF OpenProbes, Free, Referenced, Goto
<1>5. ASSUME NEW t \in Threads, AbandonBurst(t) PROVE TransportsDistinct'
    BY <1>5 DEF AbandonBurst, Close, EndBurst, ReturnToCaller, Goto
<1>6. ASSUME NEW t \in Threads, SelectProbe(t) PROVE TransportsDistinct'
    BY <1>6 DEF SelectProbe, Hold, Close, Goto
<1>7. ASSUME NEW t \in Threads, BurstTimesOut(t) PROVE TransportsDistinct'
    BY <1>7 DEF BurstTimesOut, Close, SetBackoff, EndBurst,
        ReturnToCaller, Goto
<1>8. ASSUME NEW t \in Threads, InstallSymmetricConn(t) PROVE TransportsDistinct'
    BY <1>8 DEF InstallSymmetricConn, Goto, Hold
<1>9. ASSUME NEW t \in Threads, SwapPrimary(t) PROVE TransportsDistinct'
    BY <1>9 DEF SwapPrimary, ReplaceUDPConn, Hold, Goto
<1>10. ASSUME NEW t \in Threads, FinishBurst(t) PROVE TransportsDistinct'
    BY <1>10 DEF FinishBurst, SetBackoff, EndBurst, ReturnToCaller, Goto
<1>11. ASSUME NEW r \in Relays,
             RetryDeadEdge(r) \/ EdgeRecovered(r)
      PROVE  TransportsDistinct'
    BY <1>11 DEF RetryDeadEdge, EdgeRecovered, Goto
<1>12. ASSUME NEW r \in Relays, ReadPrimary(r) PROVE TransportsDistinct'
    BY <1>12 DEF ReadPrimary, Hold, Goto
<1>13. ASSUME NEW r \in Relays, DropTransport(r) PROVE TransportsDistinct'
    BY <1>13 DEF DropTransport, Hold, Goto
<1>14. ASSUME NEW r \in Relays, PromoteTransport(r) PROVE TransportsDistinct'
    BY <1>14 DEF PromoteTransport, ReplaceUDPConn, Hold, Goto
<1>15. ASSUME NEW r \in Relays, DiscardTransport(r) PROVE TransportsDistinct'
    BY <1>15 DEF DiscardTransport, Close, Hold, Goto
<1>16. CASE RecoverNetwork \/ RefreshEndpoint \/ VerifyEndpoint \/
            EndpointChanged
    BY <1>16 DEF RecoverNetwork, RefreshEndpoint, VerifyEndpoint,
        EndpointChanged, Goto
<1>17. CASE RebindFails
    BY <1>17 DEF RebindFails, Close, EndPass, Goto
<1>18. CASE RebindUDPConn
    BY <1>18 DEF RebindUDPConn, Free, Referenced, Goto
<1>19. CASE ForgetPeers
    BY <1>19 DEF ForgetPeers, Hold, Goto
<1>20. CASE ResetTransports
    BY <1>20 DEF ResetTransports, Close, Hold, Goto
<1>21. CASE PassStops \/ PassDone
    BY <1>21 DEF PassStops, PassDone, EndPass, Goto
<1>22. CASE Rejoin \/ PickRelay \/ NextRound
    BY <1>22 DEF Rejoin, PickRelay, NextRound, Goto
<1>23. ASSUME NEW r \in Relays,
             Traffic(r) \/ LinkTimesOut(r) \/ BackoffElapses(r)
      PROVE  TransportsDistinct'
    BY <1>23 DEF Traffic, LinkTimesOut, BackoffElapses
<1>24. CASE UNCHANGED vars
    BY <1>24
<1> QED BY <1>1, <1>2, <1>3, <1>4, <1>5, <1>6, <1>7, <1>8, <1>9, <1>10,
        <1>11, <1>12, <1>13, <1>14, <1>15, <1>16, <1>17, <1>18, <1>19,
        <1>20, <1>21, <1>22, <1>23, <1>24 DEF Next, Burst, Edge, Recovery,
        PassSteps, Environment

\* The initial states.
LEMMA InitInv == Init => IInv
<1> SUFFICES ASSUME Init PROVE IInv
    OBVIOUS
<1> USE ConstantsDistinct DEF Init, Threads
<1>1. TypeOK
    BY DEF TypeOK, PassStates, EdgeStates, BurstStates
<1>2. ThreadOK /\ BurstOwned /\ LocalsReset
    BY DEF ThreadOK, BurstOwned, InBurst, LocalsReset, PassStates,
           EdgeStates, BurstStates
<1>3. PrimaryReadOrClosed /\ PrivateSockets
    BY DEF PrimaryReadOrClosed, PrivateSockets, Private
<1>4. SocketsAccountedFor /\ EveryTransportIsRead /\ TransportsDistinct
    BY DEF SocketsAccountedFor, EveryTransportIsRead, TransportsDistinct, Range
<1> QED BY <1>1, <1>2, <1>3, <1>4 DEF IInv

\* The inductive invariant holds in every reachable state, for any number of
\* superpeers and sockets and any burst size.
THEOREM InvariantHolds == Spec => []IInv
<1>1. IInv /\ [Next]_vars => IInv'
    BY TypeStep, ThreadStep, BurstStep, LocalsStep, PrimaryStep, PrivateStep,
       AccountStep, ReadStep, DistinctStep DEF IInv
<1> QED BY InitInv, <1>1, PTL DEF Spec

\* The node's transport state keeps its shape whatever the interleaving of
\* recovery passes, edge retries and bursts.
THEOREM TypeCorrect == Spec => []TypeOK
<1>1. IInv => TypeOK
    BY DEF IInv
<1> QED BY InvariantHolds, <1>1, PTL

\* establishSymmetricTransportOnce never runs two bursts to one superpeer at
\* the same time, whichever goroutines call it.
THEOREM SingleFlight == Spec => []OneBurstPerRelay
<1>1. IInv => OneBurstPerRelay
    BY DEF IInv, BurstOwned, OneBurstPerRelay
<1> QED BY InvariantHolds, <1>1, PTL

\* install, reset, promote and rebind lose no open descriptor, except the one
\* that a second install overwrites.
THEOREM NoSocketLeak == Spec => []SocketsAccountedFor
<1>1. IInv => SocketsAccountedFor
    BY DEF IInv
<1> QED BY InvariantHolds, <1>1, PTL

\* Every open socket the node sends from is read, or is about to be.
THEOREM NeverDeaf == Spec => []EveryTransportIsRead
<1>1. IInv => EveryTransportIsRead
    BY DEF IInv
<1> QED BY InvariantHolds, <1>1, PTL

\* No two superpeers share a punched socket.
THEOREM OwnTransport == Spec => []TransportsDistinct
<1>1. IInv => TransportsDistinct
    BY DEF IInv
<1> QED BY InvariantHolds, <1>1, PTL
=============================================================================
