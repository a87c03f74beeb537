------------------------ MODULE ControlChannelProofs ------------------------
(***************************************************************************)
(* Safety of ControlChannel for any set of connections, any operations and *)
(* any number of faults.                                                   *)
(***************************************************************************)
EXTENDS ControlChannel, TLAPS

\* The node has its control connection open, and request() works on it or on
\* one that was taken away from it: nothing dials while a call waits.
CallOK ==
    /\ control # NoConn => control \in nodeOpen
    /\ cpc \in {"wait", "close"} <=> ws # NoConn
    /\ ws # NoConn => control \in {ws, NoConn}

\* Any two running handlers are ordered by their session numbers, and what is
\* bound has a running handler.
SessionsOrdered ==
    /\ bound \subseteq Running
    /\ older \subseteq Running \X Running
    /\ \A c, d \in Running : c # d => <<c, d>> \in older \/ <<d, c>> \in older

\* What is on connection c on its way to a caller: nothing, or one frame of
\* operation o.
Quiet(c) == up[c] = <<>> /\ down[c] = <<>> /\ reply[c] = <<>>
InTransit(c, o) ==
    \/ Quiet(c)
    \/ up[c] = <<o>> /\ down[c] = <<>> /\ reply[c] = <<>>
    \/ up[c] = <<>> /\ down[c] = <<o>> /\ reply[c] = <<>>
    \/ up[c] = <<>> /\ down[c] = <<>> /\ reply[c] = <<o>>

\* A connection on which no request timed out carries at most the frame of
\* the current call, and nothing between two calls.
OneInTransit ==
    /\ \A c \in Conns : srv[c] = "off" => up[c] = <<>>
    /\ ws # NoConn /\ ws \notin late => InTransit(ws, op)
    /\ ws = NoConn /\ control # NoConn /\ control \notin late => Quiet(control)

\* A step that moves the binding moves it to a newer session.
Handover ==
    \A c, d \in Conns :
        c \in bound /\ c \notin bound' /\ d \in bound' \ bound => <<c, d>> \in older

IInv == /\ TypeOK
        /\ CallOK
        /\ NoControlSocketLeak
        /\ SessionsOrdered
        /\ OneBinding
        /\ OneInTransit

\* Sequences of at most one element.
LEMMA Singletons ==
    ASSUME NEW x
    PROVE  /\ Append(<<>>, x) = <<x>>
           /\ Tail(<<x>>) = <<>>
           /\ Head(<<x>>) = x
           /\ <<x>> # <<>>
    OBVIOUS

\* The type invariant.
LEMMA TypeStep ==
    ASSUME IInv, [Next]_vars
    PROVE  TypeOK'
<1> USE ControlConstants DEF IInv, TypeOK, CallOK, Attempts, vars,
        callVars, nodeVars, netVars, srvVars
<1>1. ASSUME NEW o \in Ops, StartCall(o) PROVE TypeOK'
    BY <1>1 DEF StartCall
<1>2. CASE PokeControlReconnect
    <2>1. cpc' \in {"idle", "send", "wait", "close"} /\ op' \in Ops
           /\ attempt' \in 1 .. 2
        BY <1>2 DEF PokeControlReconnect
    <2>2. poke' \in BOOLEAN
        BY <1>2 DEF PokeControlReconnect
    <2> QED BY <1>2, <2>1, <2>2 DEF PokeControlReconnect
<1>3. CASE SendOnCurrent
    BY <1>3 DEF SendOnCurrent
<1>4. CASE SendOnFresh
    BY <1>4 DEF SendOnFresh, Free
<1>5. CASE DialFails
    BY <1>5 DEF DialFails, Fault, NextAttempt, Attempts
<1>6. CASE SendFails
    BY <1>6 DEF SendFails
<1>7. CASE ReceiveReply
    <2>1. reply' \in [Conns -> {<<>>} \cup {<<o>> : o \in Ops}]
        BY <1>7 DEF ReceiveReply
    <2> QED BY <1>7, <2>1 DEF ReceiveReply
<1>8. CASE KeepSocket
    BY <1>8 DEF KeepSocket, Fault, NextAttempt, Attempts
<1>9. CASE GiveUpSocket
    BY <1>9 DEF GiveUpSocket, Fault
<1>10. CASE CloseAfterFailure
    BY <1>10 DEF CloseAfterFailure, NextAttempt, Attempts
<1>11. ASSUME NEW c \in Conns, ReadReply(c) PROVE TypeOK'
    BY <1>11 DEF ReadReply
<1>12. ASSUME NEW c \in Conns, ReadError(c) PROVE TypeOK'
    BY <1>12 DEF ReadError
<1>13. CASE DropControl
    BY <1>13 DEF DropControl, Fault
<1>14. ASSUME NEW c \in Conns, Accept(c) PROVE TypeOK'
    BY <1>14 DEF Accept, Running
<1>15. ASSUME NEW c \in Conns, Serve(c) PROVE TypeOK'
    BY <1>15 DEF Serve
<1>16. ASSUME NEW c \in Conns, Bind(c) PROVE TypeOK'
    BY <1>16 DEF Bind
<1>17. ASSUME NEW c \in Conns, HandlerReturns(c) PROVE TypeOK'
    BY <1>17 DEF HandlerReturns
<1>18. ASSUME NEW c \in Conns, Cut(c) PROVE TypeOK'
    BY <1>18 DEF Cut, Fault
<1>19. CASE UNCHANGED vars
    BY <1>19
<1> QED BY <1>1, <1>2, <1>3, <1>4, <1>5, <1>6, <1>7, <1>8, <1>9, <1>10,
        <1>11, <1>12, <1>13, <1>14, <1>15, <1>16, <1>17, <1>18, <1>19 DEF
        Next, Request, Coordinator

\* request, readControl and the monitors agree on the control connection.
LEMMA CallStep ==
    ASSUME IInv, [Next]_vars
    PROVE  CallOK'
<1> USE ControlConstants DEF IInv, TypeOK, CallOK, NoControlSocketLeak,
        vars, callVars, nodeVars, netVars, srvVars
<1>1. ASSUME NEW o \in Ops, StartCall(o) PROVE CallOK'
    BY <1>1 DEF StartCall
<1>2. CASE PokeControlReconnect
    BY <1>2 DEF PokeControlReconnect
<1>3. CASE SendOnCurrent
    BY <1>3 DEF SendOnCurrent
<1>4. CASE SendOnFresh
    BY <1>4 DEF SendOnFresh, Free
<1>5. CASE DialFails
    BY <1>5 DEF DialFails, Fault, NextAttempt, Attempts
<1>6. CASE SendFails
    BY <1>6 DEF SendFails
<1>7. CASE ReceiveReply
    BY <1>7 DEF ReceiveReply
<1>8. CASE KeepSocket
    BY <1>8 DEF KeepSocket, Fault, NextAttempt, Attempts
<1>9. CASE GiveUpSocket
    BY <1>9 DEF GiveUpSocket, Fault
<1>10. CASE CloseAfterFailure
    BY <1>10 DEF CloseAfterFailure, NextAttempt, Attempts
<1>11. ASSUME NEW c \in Conns, ReadReply(c) PROVE CallOK'
    BY <1>11 DEF ReadReply
<1>12. ASSUME NEW c \in Conns, ReadError(c) PROVE CallOK'
    BY <1>12 DEF ReadError
<1>13. CASE DropControl
    BY <1>13 DEF DropControl, Fault
<1>14. ASSUME NEW c \in Conns,
             Accept(c) \/ Serve(c) \/ Bind(c) \/ HandlerReturns(c) \/ Cut(c)
      PROVE  CallOK'
    BY <1>14 DEF Accept, Serve, Bind, HandlerReturns, Cut, Running,
        Fault
<1>15. CASE UNCHANGED vars
    BY <1>15
<1> QED BY <1>1, <1>2, <1>3, <1>4, <1>5, <1>6, <1>7, <1>8, <1>9, <1>10,
        <1>11, <1>12, <1>13, <1>14, <1>15 DEF Next, Request, Coordinator

\* Whoever clears n.control closes the socket.
LEMMA LeakStep ==
    ASSUME IInv, [Next]_vars
    PROVE  NoControlSocketLeak'
<1> USE ControlConstants DEF IInv, TypeOK, CallOK, NoControlSocketLeak,
        vars, callVars, nodeVars, netVars, srvVars
<1>1. ASSUME NEW o \in Ops, StartCall(o) PROVE NoControlSocketLeak'
    BY <1>1 DEF StartCall
<1>2. CASE PokeControlReconnect
    BY <1>2 DEF PokeControlReconnect
<1>3. CASE SendOnCurrent
    BY <1>3 DEF SendOnCurrent
<1>4. CASE SendOnFresh
    BY <1>4 DEF SendOnFresh, Free
<1>5. CASE DialFails
    BY <1>5 DEF DialFails, Fault, NextAttempt, Attempts
<1>6. CASE SendFails
    BY <1>6 DEF SendFails
<1>7. CASE ReceiveReply
    BY <1>7 DEF ReceiveReply
<1>8. CASE KeepSocket
    BY <1>8 DEF KeepSocket, Fault, NextAttempt, Attempts
<1>9. CASE GiveUpSocket
    BY <1>9 DEF GiveUpSocket, Fault
<1>10. CASE CloseAfterFailure
    BY <1>10 DEF CloseAfterFailure, NextAttempt, Attempts
<1>11. ASSUME NEW c \in Conns, ReadReply(c) PROVE NoControlSocketLeak'
    BY <1>11 DEF ReadReply
<1>12. ASSUME NEW c \in Conns, ReadError(c) PROVE NoControlSocketLeak'
    BY <1>12 DEF ReadError
<1>13. CASE DropControl
    BY <1>13 DEF DropControl, Fault
<1>14. ASSUME NEW c \in Conns,
             Accept(c) \/ Serve(c) \/ Bind(c) \/ HandlerReturns(c) \/ Cut(c)
      PROVE  NoControlSocketLeak'
    BY <1>14 DEF Accept, Serve, Bind, HandlerReturns, Cut, Running,
        Fault
<1>15. CASE UNCHANGED vars
    BY <1>15
<1> QED BY <1>1, <1>2, <1>3, <1>4, <1>5, <1>6, <1>7, <1>8, <1>9, <1>10,
        <1>11, <1>12, <1>13, <1>14, <1>15 DEF Next, Request, Coordinator

\* A handler that starts is newer than all that run.
LEMMA SessionStep ==
    ASSUME IInv, [Next]_vars
    PROVE  SessionsOrdered'
<1> USE ControlConstants DEF IInv, TypeOK, SessionsOrdered, Running, vars,
        callVars, nodeVars, netVars, srvVars
<1>1. ASSUME NEW o \in Ops, StartCall(o) PROVE SessionsOrdered'
    BY <1>1 DEF StartCall
<1>2. CASE PokeControlReconnect \/ SendOnCurrent \/ DialFails \/ SendFails
            \/ ReceiveReply \/ KeepSocket \/ GiveUpSocket \/
            CloseAfterFailure \/ DropControl
    BY <1>2 DEF PokeControlReconnect, SendOnCurrent, DialFails,
        SendFails, ReceiveReply, KeepSocket, GiveUpSocket,
        CloseAfterFailure, DropControl, Fault, NextAttempt, Attempts
<1>3. CASE SendOnFresh
    BY <1>3 DEF SendOnFresh, Free
<1>4. ASSUME NEW c \in Conns,
             ReadReply(c) \/ ReadError(c) \/ Cut(c)
      PROVE  SessionsOrdered'
    BY <1>4 DEF ReadReply, ReadError, Cut, Fault
<1>5. ASSUME NEW c \in Conns, Accept(c) PROVE SessionsOrdered'
    BY <1>5 DEF Accept, Running
<1>6. ASSUME NEW c \in Conns, Serve(c) PROVE SessionsOrdered'
    <2>1. Running' = Running
        BY <1>6 DEF Serve
    <2> QED BY <1>6, <2>1 DEF Serve
<1>7. ASSUME NEW c \in Conns, Bind(c) PROVE SessionsOrdered'
    BY <1>7 DEF Bind
<1>8. ASSUME NEW c \in Conns, HandlerReturns(c) PROVE SessionsOrdered'
    BY <1>8 DEF HandlerReturns
<1>9. CASE UNCHANGED vars
    BY <1>9
<1> QED BY <1>1, <1>2, <1>3, <1>4, <1>5, <1>6, <1>7, <1>8, <1>9 DEF Next,
        Request, Coordinator

\* A register takes the binding from the one older connection, or leaves
\* it to the one newer connection.
LEMMA BindingStep ==
    ASSUME IInv, [Next]_vars
    PROVE  OneBinding'
<1> USE ControlConstants DEF IInv, TypeOK, SessionsOrdered, OneBinding,
        vars, callVars, nodeVars, netVars, srvVars
<1>1. ASSUME NEW o \in Ops, StartCall(o) PROVE OneBinding'
    BY <1>1 DEF StartCall
<1>2. CASE PokeControlReconnect \/ SendOnCurrent \/ DialFails \/ SendFails
            \/ ReceiveReply \/ KeepSocket \/ GiveUpSocket \/
            CloseAfterFailure \/ DropControl
    BY <1>2 DEF PokeControlReconnect, SendOnCurrent, DialFails,
        SendFails, ReceiveReply, KeepSocket, GiveUpSocket,
        CloseAfterFailure, DropControl, Fault, NextAttempt, Attempts
<1>3. CASE SendOnFresh
    BY <1>3 DEF SendOnFresh, Free
<1>4. ASSUME NEW c \in Conns,
             ReadReply(c) \/ ReadError(c) \/ Cut(c)
      PROVE  OneBinding'
    BY <1>4 DEF ReadReply, ReadError, Cut, Fault
<1>5. ASSUME NEW c \in Conns, Accept(c) PROVE OneBinding'
    BY <1>5 DEF Accept, Running
<1>6. ASSUME NEW c \in Conns, Serve(c) PROVE OneBinding'
    BY <1>6 DEF Serve
<1>7. ASSUME NEW c \in Conns, Bind(c) PROVE OneBinding'
    BY <1>7 DEF Bind, Running
<1>8. ASSUME NEW c \in Conns, HandlerReturns(c) PROVE OneBinding'
    BY <1>8 DEF HandlerReturns
<1>9. CASE UNCHANGED vars
    BY <1>9
<1> QED BY <1>1, <1>2, <1>3, <1>4, <1>5, <1>6, <1>7, <1>8, <1>9 DEF Next,
        Request, Coordinator

\* A drained channel and an answered connection carry no frame of an
\* earlier call.
LEMMA TransitStep ==
    ASSUME IInv, [Next]_vars
    PROVE  OneInTransit'
<1> USE ControlConstants DEF IInv, TypeOK, CallOK, NoControlSocketLeak,
        OneInTransit, Quiet, InTransit, vars, callVars, nodeVars, netVars,
        srvVars
<1>1. ASSUME NEW o \in Ops, StartCall(o) PROVE OneInTransit'
    BY <1>1 DEF StartCall
<1>2. CASE PokeControlReconnect
    BY <1>2 DEF PokeControlReconnect
<1>3. CASE SendOnCurrent
    BY <1>3, Singletons DEF SendOnCurrent
<1>4. CASE SendOnFresh
    BY <1>4 DEF SendOnFresh, Free
<1>5. CASE DialFails
    BY <1>5 DEF DialFails, Fault, NextAttempt, Attempts
<1>6. CASE SendFails
    BY <1>6 DEF SendFails
<1>7. CASE ReceiveReply
    BY <1>7 DEF ReceiveReply
<1>8. CASE KeepSocket
    BY <1>8 DEF KeepSocket, Fault, NextAttempt, Attempts
<1>9. CASE GiveUpSocket
    BY <1>9 DEF GiveUpSocket, Fault
<1>10. CASE CloseAfterFailure
    BY <1>10 DEF CloseAfterFailure, NextAttempt, Attempts
<1>11. ASSUME NEW c \in Conns, ReadReply(c) PROVE OneInTransit'
    BY <1>11, Singletons DEF ReadReply
<1>12. ASSUME NEW c \in Conns, ReadError(c) PROVE OneInTransit'
    BY <1>12 DEF ReadError
<1>13. CASE DropControl
    BY <1>13 DEF DropControl, Fault
<1>14. ASSUME NEW c \in Conns, Accept(c) PROVE OneInTransit'
    BY <1>14 DEF Accept, Running
<1>15. ASSUME NEW c \in Conns, Serve(c) PROVE OneInTransit'
    BY <1>15, Singletons DEF Serve
<1>16. ASSUME NEW c \in Conns, Bind(c) PROVE OneInTransit'
    BY <1>16 DEF Bind
<1>17. ASSUME NEW c \in Conns, HandlerReturns(c) PROVE OneInTransit'
    BY <1>17 DEF HandlerReturns
<1>18. ASSUME NEW c \in Conns, Cut(c) PROVE OneInTransit'
    BY <1>18 DEF Cut, Fault
<1>19. CASE UNCHANGED vars
    BY <1>19
<1> QED BY <1>1, <1>2, <1>3, <1>4, <1>5, <1>6, <1>7, <1>8, <1>9, <1>10,
        <1>11, <1>12, <1>13, <1>14, <1>15, <1>16, <1>17, <1>18, <1>19 DEF
        Next, Request, Coordinator

\* Only the rebind after a register moves the binding.
LEMMA HandoverStep ==
    ASSUME IInv, [Next]_vars
    PROVE  Handover
<1> USE ControlConstants DEF IInv, TypeOK, Handover, vars, callVars,
        nodeVars, netVars, srvVars
<1>1. ASSUME NEW o \in Ops, StartCall(o) PROVE Handover
    BY <1>1 DEF StartCall
<1>2. CASE PokeControlReconnect \/ SendOnCurrent \/ DialFails \/ SendFails
            \/ ReceiveReply \/ KeepSocket \/ GiveUpSocket \/
            CloseAfterFailure \/ DropControl
    BY <1>2 DEF PokeControlReconnect, SendOnCurrent, DialFails,
        SendFails, ReceiveReply, KeepSocket, GiveUpSocket,
        CloseAfterFailure, DropControl, Fault, NextAttempt, Attempts
<1>3. CASE SendOnFresh
    BY <1>3 DEF SendOnFresh, Free
<1>4. ASSUME NEW c \in Conns,
             ReadReply(c) \/ ReadError(c) \/ Cut(c)
      PROVE  Handover
    BY <1>4 DEF ReadReply, ReadError, Cut, Fault
<1>5. ASSUME NEW c \in Conns, Accept(c) PROVE Handover
    BY <1>5 DEF Accept, Running
<1>6. ASSUME NEW c \in Conns, Serve(c) PROVE Handover
    BY <1>6 DEF Serve
<1>7. ASSUME NEW c \in Conns, Bind(c) PROVE Handover
    BY <1>7 DEF Bind
<1>8. ASSUME NEW c \in Conns, HandlerReturns(c) PROVE Handover
    BY <1>8 DEF HandlerReturns
<1>9. CASE UNCHANGED vars
    BY <1>9
<1> QED BY <1>1, <1>2, <1>3, <1>4, <1>5, <1>6, <1>7, <1>8, <1>9 DEF Next,
        Request, Coordinator

LEMMA InitInv == Init => IInv
<1> SUFFICES ASSUME Init PROVE IInv
    OBVIOUS
<1> USE ControlConstants DEF Init
<1>1. TypeOK
    <2>1. <<>> \in Seq(Ops)
        OBVIOUS
    <2>2. attempt \in 1 .. Attempts /\ faults \in 0 .. MaxFaults
        BY DEF Attempts
    <2>3. poke \in BOOLEAN
        OBVIOUS
    <2> QED BY <2>1, <2>2, <2>3 DEF TypeOK
<1>2. CallOK /\ NoControlSocketLeak /\ OneBinding
    BY DEF CallOK, NoControlSocketLeak, OneBinding
<1>3. SessionsOrdered /\ OneInTransit
    BY DEF SessionsOrdered, Running, OneInTransit, Quiet, InTransit
<1> QED BY <1>1, <1>2, <1>3 DEF IInv

\* The inductive invariant holds in every reachable state.
THEOREM ChannelInvariant == Spec => []IInv
<1>1. IInv /\ [Next]_vars => IInv'
    BY TypeStep, CallStep, LeakStep, SessionStep, BindingStep, TransitStep
    DEF IInv
<1> QED BY InitInv, <1>1, PTL DEF Spec

\* The control channel's state keeps its shape.
THEOREM ChannelTypeCorrect == Spec => []TypeOK
<1>1. IInv => TypeOK
    BY DEF IInv
<1> QED BY ChannelInvariant, <1>1, PTL

\* No reconnect leaks a control socket.
THEOREM NoLeakedControlSocket == Spec => []NoControlSocketLeak
<1>1. IInv => NoControlSocketLeak
    BY DEF IInv
<1> QED BY ChannelInvariant, <1>1, PTL

\* A node has one control binding, however its registrations interleave.
THEOREM ExclusiveBinding == Spec => []OneBinding
<1>1. IInv => OneBinding
    BY DEF IInv
<1> QED BY ChannelInvariant, <1>1, PTL

\* The binding is taken over by connections accepted later only.
THEOREM BindingMovesForward == Spec => NewestSessionKeepsBinding
<1>1. IInv /\ [Next]_vars => [Handover]_vars
    BY HandoverStep
<1> QED BY ChannelInvariant, <1>1, PTL
        DEF Spec, NewestSessionKeepsBinding, Handover

\* A reply that a caller gets answers its own request, unless a request of
\* that connection timed out before.
THEOREM PromptReplies == Spec => PromptRepliesMatch
<1>1. IInv /\ [Next]_vars
        => [ReceiveReply => Head(reply[ws]) = op \/ ws \in late]_vars
    BY DEF IInv, TypeOK, CallOK, OneInTransit, Quiet, InTransit, ReceiveReply
<1> QED BY ChannelInvariant, <1>1, PTL DEF Spec, PromptRepliesMatch
=============================================================================
