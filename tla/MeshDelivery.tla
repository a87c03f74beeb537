---------------------------- MODULE MeshDelivery ----------------------------
(***************************************************************************)
(* What the fast data plane promises.  A process takes in only packets     *)
(* that were sent; it takes a packet in a second time only after Window    *)
(* others; and what it writes to its TUN device was addressed to it and    *)
(* leaves in the order in which its flow was queued.  Anything may be      *)
(* lost, and packets that several hands have taken in may overtake each    *)
(* other before they are queued.                                           *)
(***************************************************************************)
EXTENDS Naturals, Sequences

CONSTANTS Nodes, Flows, Hands, Nothing, Window

VARIABLES
    sent,       \* the packets [id, src, dst, flow] that were sealed
    log,        \* the ids a process has taken in, in order
    held,       \* the packet every hand has taken in and not yet passed on
    queue,      \* the packets of every flow waiting for the TUN device
    tun         \* the packets written to the TUN device of every node

vars == <<sent, log, held, queue, tun>>

\* The id is not among the last Window ids taken in.
Fresh(n, id) ==
    \A i \in DOMAIN log[n] : log[n][i] = id => i + Window <= Len(log[n])

Send ==
    /\ \E p \in sent' : p \notin sent /\ sent' = sent \cup {p}
    /\ UNCHANGED <<log, held, queue, tun>>

TakeIn(n, h) ==
    /\ held[n][h] = Nothing
    /\ \E p \in sent : /\ Fresh(n, p.id)
                       /\ log' = [log EXCEPT ![n] = Append(@, p.id)]
                       /\ held' = [held EXCEPT ![n][h] = p]
    /\ UNCHANGED <<sent, queue, tun>>

\* Only the destination queues a packet; a full queue drops it, and a relay
\* passes it on.
PassOn(n, h) ==
    LET p == held[n][h] IN
    /\ p # Nothing
    /\ held' = [held EXCEPT ![n][h] = Nothing]
    /\ \/ queue' = queue
       \/ p.dst = n /\ queue' = [queue EXCEPT ![n][p.flow] = Append(@, p)]
    /\ UNCHANGED <<sent, log, tun>>

\* The next packet of a flow is written or refused.
Write(n, f) ==
    /\ queue[n][f] # <<>>
    /\ queue' = [queue EXCEPT ![n][f] = Tail(@)]
    /\ tun' \in {tun, [tun EXCEPT ![n] = Append(@, Head(queue[n][f]))]}
    /\ UNCHANGED <<sent, log, held>>

\* The process ends, and the next one remembers nothing.
Restart(n) ==
    /\ log' = [log EXCEPT ![n] = <<>>]
    /\ held' = [held EXCEPT ![n] = [h \in Hands |-> Nothing]]
    /\ queue' = [queue EXCEPT ![n] = [f \in Flows |-> <<>>]]
    /\ UNCHANGED <<sent, tun>>

Init ==
    /\ sent = {}
    /\ log = [n \in Nodes |-> <<>>]
    /\ held = [n \in Nodes |-> [h \in Hands |-> Nothing]]
    /\ queue = [n \in Nodes |-> [f \in Flows |-> <<>>]]
    /\ tun = [n \in Nodes |-> <<>>]

Next ==
    \/ Send
    \/ \E n \in Nodes :
         \/ \E h \in Hands : TakeIn(n, h) \/ PassOn(n, h)
         \/ \E f \in Flows : Write(n, f)
         \/ Restart(n)

Spec == Init /\ [][Next]_vars
=============================================================================
