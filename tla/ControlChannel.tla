--------------------------- MODULE ControlChannel ---------------------------
(***************************************************************************)
(* The control WebSocket between one node and the coordinator.             *)
(*                                                                         *)
(* On the node, request() sends one frame at a time (controlCall) and      *)
(* waits ten seconds for the reply; every connection has a readControl     *)
(* goroutine and a reply channel of capacity one; monitorControl and       *)
(* handleNetworkChange drop the connection from outside.  On the           *)
(* coordinator every connection has a controlWS handler, which answers the *)
(* frames one after the other and, after a register, binds the node to the *)
(* connection (s.controls).                                                *)
(*                                                                         *)
(* A frame is the operation it asks for or answers: that is all a caller   *)
(* can confuse.  Pushed events share the connection but never enter the    *)
(* reply channel, so they are left out; that a pushed or late frame        *)
(* arrived lately (controlRxAt) is the choice between KeepSocket and       *)
(* GiveUpSocket.                                                           *)
(*                                                                         *)
(* Cuts, slow replies and drops of a healthy connection are faults.  There *)
(* are at most MaxFaults of them, so that the liveness properties say what *)
(* happens once the network has settled.                                   *)
(***************************************************************************)
EXTENDS Naturals, Sequences

CONSTANTS Conns,     \* identities of WebSocket connections
          NoConn,    \* a nil *websocket.Conn
          Ops,       \* operations: "register" and others
          MaxFaults  \* bound on the faults of a behavior

ASSUME ControlConstants == /\ NoConn \notin Conns
                           /\ "register" \in Ops
                           /\ MaxFaults \in Nat

Attempts == 2        \* the attempts of one request()

VARIABLES
    control,  \* n.control
    nodeOpen, \* connections whose socket the node has not closed
    readers,  \* connections with a running readControl
    reply,    \* the reply channel of a connection
    poke,     \* a pokeControlReconnect goroutine is waiting
    cpc,      \* where request() is
    op,       \* the operation request() is performing
    ws,       \* its local ws
    attempt,  \* its attempt
    up,       \* frames on their way to the coordinator
    down,     \* frames on their way to the node
    cut,      \* connections whose path is broken, unknown to either side
    srv,      \* where the controlWS handler of a connection is
    older,    \* pairs of running handlers ordered by client.session
    bound,    \* connections that s.controls binds to the node
    kicked,   \* connections closed by the rebind of a newer one
    late,     \* history: connections kept after a timeout
    faults    \* faults so far

callVars == <<cpc, op, ws, attempt>>
nodeVars == <<control, nodeOpen, readers, reply, poke>>
netVars  == <<up, down, cut>>
srvVars  == <<srv, older, bound, kicked>>
vars == <<callVars, nodeVars, netVars, srvVars, late, faults>>

\* Connections that nothing refers to any more; a new dial may use one.
Free == {c \in Conns : /\ c \notin nodeOpen \cup readers \cup bound
                       /\ srv[c] = "off"
                       /\ c # ws}

Fault == faults < MaxFaults /\ faults' = faults + 1

Init ==
    /\ control = NoConn /\ nodeOpen = {} /\ readers = {} /\ poke = FALSE
    /\ cpc = "idle" /\ op = "register" /\ ws = NoConn /\ attempt = 1
    /\ reply = [c \in Conns |-> <<>>]
    /\ up = [c \in Conns |-> <<>>]
    /\ down = [c \in Conns |-> <<>>]
    /\ srv = [c \in Conns |-> "off"]
    /\ cut = {} /\ older = {} /\ bound = {} /\ kicked = {}
    /\ late = {} /\ faults = 0

(***************************************************************************)
(* The node: request(), one call at a time.                                *)
(***************************************************************************)

\* A caller takes controlCall: the heartbeat's register, bootstrap, ...
StartCall(o) ==
    /\ cpc = "idle"
    /\ cpc' = "send" /\ op' = o /\ attempt' = 1
    /\ UNCHANGED <<ws, nodeVars, netVars, srvVars, late, faults>>

\* pokeControlReconnect registers unless another call has reconnected.
PokeControlReconnect ==
    /\ poke
    /\ poke' = FALSE
    /\ \/ /\ control # NoConn
          /\ UNCHANGED <<cpc, op, attempt>>
       \/ /\ control = NoConn
          /\ cpc = "idle"
          /\ cpc' = "send" /\ op' = "register" /\ attempt' = 1
    /\ UNCHANGED <<ws, control, nodeOpen, readers, reply, netVars, srvVars,
                   late, faults>>

\* The end of an attempt that failed: the next one, or an error.
NextAttempt ==
    IF attempt < Attempts
    THEN cpc' = "send" /\ attempt' = attempt + 1
    ELSE cpc' = "idle" /\ attempt' = 1

\* Under controlMu: connectControl finds a connection.  The reply channel is
\* drained and the frame written; writing to a path that is cut, or to a
\* connection the coordinator has just closed, succeeds and is lost.
SendOnCurrent ==
    /\ cpc = "send"
    /\ control # NoConn
    /\ reply' = [reply EXCEPT ![control] = <<>>]
    /\ up' = IF control \in cut \cup kicked \/ srv[control] = "off" THEN up
             ELSE [up EXCEPT ![control] = Append(@, op)]
    /\ ws' = control
    /\ cpc' = "wait"
    /\ UNCHANGED <<op, attempt, control, nodeOpen, readers, poke, down, cut,
                   srvVars, late, faults>>

\* Under controlMu: connectControl dials and the frame is written.
SendOnFresh ==
    /\ cpc = "send"
    /\ control = NoConn
    /\ \E c \in Free :
        /\ control' = c /\ ws' = c
        /\ nodeOpen' = nodeOpen \cup {c}
        /\ readers' = readers \cup {c}
        /\ reply' = [reply EXCEPT ![c] = <<>>]
        /\ up' = [up EXCEPT ![c] = <<op>>]
        /\ down' = [down EXCEPT ![c] = <<>>]
        /\ srv' = [srv EXCEPT ![c] = "accepted"]
        /\ cut' = cut \ {c}
        /\ late' = late \ {c}
    /\ cpc' = "wait"
    /\ UNCHANGED <<op, attempt, poke, older, bound, kicked, faults>>

DialFails ==
    /\ cpc = "send"
    /\ control = NoConn
    /\ Fault
    /\ NextAttempt
    /\ UNCHANGED <<op, ws, nodeVars, netVars, srvVars, late>>

\* The write fails: the coordinator has closed the connection.
SendFails ==
    /\ cpc = "send"
    /\ control # NoConn
    /\ control \in kicked \/ srv[control] = "off"
    /\ ws' = control
    /\ reply' = [reply EXCEPT ![control] = <<>>]
    /\ cpc' = "close"
    /\ UNCHANGED <<op, attempt, control, nodeOpen, readers, poke, netVars,
                   srvVars, late, faults>>

\* A reply arrived: the call returns with it, whatever it answers.
ReceiveReply ==
    /\ cpc = "wait"
    /\ reply[ws] # <<>>
    /\ reply' = [reply EXCEPT ![ws] = <<>>]
    /\ cpc' = "idle" /\ ws' = NoConn /\ attempt' = 1
    /\ UNCHANGED <<op, control, nodeOpen, readers, poke, netVars, srvVars, late,
                   faults>>

\* Ten seconds without a reply, but frames arrived lately: keep the socket.
KeepSocket ==
    /\ cpc = "wait"
    /\ Fault
    /\ late' = late \cup {ws}
    /\ NextAttempt
    /\ ws' = NoConn
    /\ UNCHANGED <<op, nodeVars, netVars, srvVars>>

\* No answer can come on c.
Unanswered(c) == \/ c \in cut \cup kicked
                 \/ c \notin nodeOpen
                 \/ srv[c] = "off" /\ down[c] = <<>>

\* Ten seconds without a reply on a silent connection.
GiveUpSocket ==
    /\ cpc = "wait"
    /\ \/ Unanswered(ws) /\ UNCHANGED faults
       \/ Fault
    /\ cpc' = "close"
    /\ UNCHANGED <<op, ws, attempt, nodeVars, netVars, srvVars, late>>

\* Mutant: n.control is cleared but its socket is not closed.
CloseAfterFailureLeaks ==
    /\ cpc = "close"
    /\ control' = IF control = ws THEN NoConn ELSE control
    /\ NextAttempt
    /\ ws' = NoConn
    /\ UNCHANGED <<op, nodeOpen, readers, reply, poke, netVars, srvVars, late,
                   faults>>

\* Mutant: the connection is used again after a failed request.
CloseAfterFailureReuses ==
    /\ cpc = "close"
    /\ NextAttempt
    /\ ws' = NoConn
    /\ UNCHANGED <<op, nodeVars, netVars, srvVars, late, faults>>

\* Under controlMu: close the connection unless somebody else already did.
CloseAfterFailure ==
    /\ cpc = "close"
    /\ \/ /\ control = ws
          /\ nodeOpen' = nodeOpen \ {ws}
          /\ control' = NoConn
       \/ /\ control # ws
          /\ UNCHANGED <<nodeOpen, control>>
    /\ NextAttempt
    /\ ws' = NoConn
    /\ UNCHANGED <<op, readers, reply, poke, netVars, srvVars, late, faults>>

Request == \/ \E o \in Ops : StartCall(o)
           \/ PokeControlReconnect
           \/ SendOnCurrent \/ SendOnFresh \/ DialFails \/ SendFails
           \/ ReceiveReply \/ KeepSocket \/ GiveUpSocket \/ CloseAfterFailure

(***************************************************************************)
(* The node: readControl, monitorControl, handleNetworkChange.             *)
(***************************************************************************)

\* Mutant: a reply is put into the channel although it is full.
ReadReplyOverflows(c) ==
    /\ c \in readers \cap nodeOpen
    /\ c \notin cut
    /\ down[c] # <<>>
    /\ reply' = [reply EXCEPT ![c] = Append(@, Head(down[c]))]
    /\ down' = [down EXCEPT ![c] = Tail(@)]
    /\ UNCHANGED <<callVars, control, nodeOpen, readers, poke, up, cut, srvVars,
                   late, faults>>

\* A reply is put into the channel, or discarded when the channel is full.
ReadReply(c) ==
    /\ c \in readers \cap nodeOpen
    /\ c \notin cut
    /\ down[c] # <<>>
    /\ reply' = IF reply[c] = <<>>
                THEN [reply EXCEPT ![c] = <<Head(down[c])>>] ELSE reply
    /\ down' = [down EXCEPT ![c] = Tail(@)]
    /\ UNCHANGED <<callVars, control, nodeOpen, readers, poke, up, cut, srvVars,
                   late, faults>>

\* Receive fails: the node closed the socket, or the coordinator did.
\* The goroutine that clears n.control closes the socket before it ends, so
\* the two are one step.
ReadError(c) ==
    /\ c \in readers
    /\ \/ c \notin nodeOpen
       \/ c \in cut
       \/ down[c] = <<>> /\ (srv[c] = "off" \/ c \in kicked)
    /\ control' = IF control = c THEN NoConn ELSE control
    /\ nodeOpen' = nodeOpen \ {c}
    /\ readers' = readers \ {c}
    /\ down' = [down EXCEPT ![c] = <<>>]
    /\ poke' = TRUE
    /\ UNCHANGED <<callVars, reply, up, cut, srvVars, late, faults>>

\* monitorControl finds the channel silent; handleNetworkChange drops it in
\* any case.
DropControl ==
    /\ control # NoConn
    /\ \/ control \in cut /\ UNCHANGED faults
       \/ Fault
    /\ nodeOpen' = nodeOpen \ {control}
    /\ control' = NoConn
    /\ UNCHANGED <<callVars, readers, reply, poke, netVars, srvVars, late>>

(***************************************************************************)
(* The coordinator: controlWS.                                             *)
(***************************************************************************)

\* Connections whose handler has its session number.
Running == {c \in Conns : srv[c] \in {"receive", "bind"}}

\* The handler starts and draws its session number, the highest so far.
Accept(c) ==
    /\ srv[c] = "accepted"
    /\ srv' = [srv EXCEPT ![c] = "receive"]
    /\ older' = older \cup {<<d, c>> : d \in Running}
    /\ UNCHANGED <<callVars, nodeVars, netVars, bound, kicked, late, faults>>

\* One frame is answered.  What is sent to a node that is gone is lost.
Serve(c) ==
    /\ srv[c] = "receive"
    /\ up[c] # <<>>
    /\ up' = [up EXCEPT ![c] = Tail(@)]
    /\ down' = IF c \in cut \/ c \notin nodeOpen THEN down
               ELSE [down EXCEPT ![c] = Append(@, Head(up[c]))]
    /\ srv' = [srv EXCEPT ![c] = IF Head(up[c]) = "register" THEN "bind"
                                 ELSE "receive"]
    /\ UNCHANGED <<callVars, nodeVars, cut, older, bound, kicked, late, faults>>

\* Rebinds with another comparison of the session numbers.
BindWith(c, stale, superseded) ==
    /\ srv[c] = "bind"
    /\ srv' = [srv EXCEPT ![c] = "receive"]
    /\ bound' = (bound \ stale) \cup (IF superseded THEN {} ELSE {c})
    /\ kicked' = kicked \cup stale
    /\ UNCHANGED <<callVars, nodeVars, netVars, older, late, faults>>

\* Mutant: a connection that a newer one has superseded binds as well.
BindBesideNewer(c) == BindWith(c, {d \in bound : <<d, c>> \in older}, FALSE)

\* Mutant: the last registration takes the binding from any connection.
BindLastRegistration(c) == BindWith(c, bound \ {c}, FALSE)

\* Mutant: a session number equal to its own counts as older.
BindKicksItself(c) ==
    BindWith(c, {d \in bound : d = c \/ <<d, c>> \in older},
             \E d \in bound : <<c, d>> \in older)

\* After the reply to a register, under controlMu: older connections of the
\* node lose the binding and are closed; a newer one keeps it.
Bind(c) ==
    LET stale == {d \in bound : <<d, c>> \in older}
        superseded == \E d \in bound : <<c, d>> \in older IN
    /\ srv[c] = "bind"
    /\ srv' = [srv EXCEPT ![c] = "receive"]
    /\ bound' = (bound \ stale) \cup (IF superseded THEN {} ELSE {c})
    /\ kicked' = kicked \cup stale
    /\ UNCHANGED <<callVars, nodeVars, netVars, older, late, faults>>

\* Receive fails or has been idle for controlIdleReadTimeout, or a reply
\* cannot be sent: the handler returns and its deferred function removes the
\* binding.
HandlerReturns(c) ==
    /\ srv[c] = "receive"
    /\ c \in kicked \cup cut \/ c \notin nodeOpen
    /\ srv' = [srv EXCEPT ![c] = "off"]
    /\ older' = {p \in older : p[1] # c /\ p[2] # c}
    /\ bound' = bound \ {c}
    /\ kicked' = kicked \ {c}
    /\ up' = [up EXCEPT ![c] = <<>>]
    /\ UNCHANGED <<callVars, nodeVars, down, cut, late, faults>>

Coordinator == \E c \in Conns :
                    Accept(c) \/ Serve(c) \/ Bind(c) \/ HandlerReturns(c)

\* The path breaks without a trace (lost NAT mapping, roaming).
Cut(c) ==
    /\ c \in nodeOpen \ cut
    /\ Fault
    /\ cut' = cut \cup {c}
    /\ up' = [up EXCEPT ![c] = <<>>]
    /\ down' = [down EXCEPT ![c] = <<>>]
    /\ UNCHANGED <<callVars, nodeVars, srvVars, late>>

Next == \/ Request
        \/ \E c \in Conns : ReadReply(c) \/ ReadError(c) \/ Cut(c)
        \/ DropControl
        \/ Coordinator

Spec == Init /\ [][Next]_vars

\* readControl of c is not blocked on a path that is cut.
ClosedIfCut(c) == c \in cut => c \notin nodeOpen

\* Every timeout of the code ends a wait, the heartbeat registers for ever
\* (it gets its turn at controlCall among the other callers, since a Go mutex
\* starves nobody) and monitorControl runs for ever.  Nothing is assumed of a read on a path
\* that is cut: it may block for ever.
Fairness ==
    /\ WF_vars(SendOnCurrent \/ SendOnFresh \/ SendFails \/ ReceiveReply
               \/ (GiveUpSocket /\ Unanswered(ws)) \/ CloseAfterFailure)
    /\ SF_vars(StartCall("register"))
    /\ WF_vars(PokeControlReconnect)
    /\ WF_vars(DropControl /\ control \in cut)
    /\ \A c \in Conns : /\ WF_vars(ReadReply(c))
                        /\ WF_vars(ReadError(c) /\ ClosedIfCut(c))
                        /\ WF_vars(Accept(c))
                        /\ WF_vars(Serve(c) \/ Bind(c))
                        /\ WF_vars(HandlerReturns(c))

FairSpec == Spec /\ Fairness

-----------------------------------------------------------------------------
(***************************************************************************)
(* Properties                                                              *)
(***************************************************************************)

\* The variables have the values the code gives them; in particular the reply
\* channel holds one frame at most and every open socket has its readControl.
TypeOK ==
    /\ control \in Conns \cup {NoConn}
    /\ nodeOpen \subseteq readers /\ readers \subseteq Conns
    /\ reply \in [Conns -> {<<>>} \cup {<<o>> : o \in Ops}]
    /\ poke \in BOOLEAN
    /\ cpc \in {"idle", "send", "wait", "close"}
    /\ op \in Ops
    /\ ws \in Conns \cup {NoConn}
    /\ attempt \in 1 .. Attempts
    /\ up \in [Conns -> Seq(Ops)]
    /\ down \in [Conns -> Seq(Ops)]
    /\ cut \subseteq Conns
    /\ srv \in [Conns -> {"off", "accepted", "receive", "bind"}]
    /\ older \subseteq Conns \X Conns
    /\ bound \subseteq Conns /\ kicked \subseteq Conns
    /\ late \subseteq Conns
    /\ faults \in 0 .. MaxFaults

\* readControl, request, monitorControl and handleNetworkChange close what
\* they take out of n.control: the node never keeps a second socket open
\* ("leaked one file descriptor per reconnect").
NoControlSocketLeak == nodeOpen \subseteq {control}

\* The rebind is exclusive: however late the registration of an old
\* connection is processed, the node has one binding, and event delivery
\* never picks between two.
OneBinding == \A c, d \in bound : c = d

\* "The newest session owns the binding": a rebind takes the binding only
\* from a connection that was accepted earlier.
NewestSessionKeepsBinding ==
    [][\A c, d \in Conns :
        c \in bound /\ c \notin bound' /\ d \in bound' \ bound
            => <<c, d>> \in older]_vars

\* Draining the channel before a send is enough as long as no request of
\* this connection timed out: the caller gets the answer to its own frame.
PromptRepliesMatch ==
    [][ReceiveReply => Head(reply[ws]) = op \/ ws \in late]_vars

\* Once the faults are over the node ends up with a working connection that
\* the coordinator sends its events to, and keeps it, whatever half-open
\* connections and late registrations were left behind.
NodeEndsUpBound == <>[](control \in bound /\ control \notin cut)
=============================================================================
