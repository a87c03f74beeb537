-------------------------- MODULE LegacyRendezvous --------------------------
(***************************************************************************)
(* The rendezvous table of the coordinator for old clients: POST /register *)
(* puts a peer into a session and matches the two peers of a session, GET  *)
(* /wait holds a request until the peer is matched or a timeout passes.    *)
(*                                                                         *)
(* Every registration makes a new entry with a ready channel of its own,   *)
(* which the match closes; a waiter keeps the entry it has looked up.      *)
(* Closing a channel twice panics: net/http ends the request and the       *)
(* process goes on, but sessionsMu, which register locks without a defer,  *)
(* stays locked.  What the client sends is valid: malformed requests are   *)
(* refused without touching the table.                                     *)
(***************************************************************************)
EXTENDS Naturals, FiniteSets

CONSTANTS Sessions,    \* session names
          Ids,         \* peer names
          Waiters,     \* requests of GET /wait
          MaxSessions, \* rendezvousMaxSessions
          MaxEntries   \* bound on the registrations of a behavior

Nil == 0
Entries == 1 .. MaxEntries

VARIABLES
    table,   \* s.sessions[session][id]: an entry or Nil
    count,   \* entries made so far
    nat,     \* natType of an entry
    status,  \* status of an entry
    ready,   \* entries whose ready channel is closed
    expired, \* entries older than rendezvousSessionTTL
    stuck,   \* sessionsMu was left locked by a panic
    wpc,     \* where a waiter is
    wpeer    \* the entry it waits for

waitVars == <<wpc, wpeer>>
vars == <<table, count, nat, status, ready, expired, stuck, waitVars>>

Init ==
    /\ table = [s \in Sessions |-> [i \in Ids |-> Nil]]
    /\ count = 0 /\ ready = {} /\ expired = {} /\ stuck = FALSE
    /\ nat = [e \in Entries |-> "cone"]
    /\ status = [e \in Entries |-> "waiting"]
    /\ wpc = [w \in Waiters |-> "idle"]
    /\ wpeer = [w \in Waiters |-> Nil]

\* The entries of a session.
Peers(peers) == {peers[i] : i \in Ids} \ {Nil}

\* The table without the sessions that have no fresh entry.
Pruned == [s \in Sessions |-> IF Peers(table[s]) \subseteq expired
                              THEN [i \in Ids |-> Nil] ELSE table[s]]

\* The second peer of a session has registered: close both ready channels.
Match(pair) ==
    /\ status' = [e \in Entries |->
            IF e \notin pair THEN status[e]
            ELSE IF \A p \in pair : nat'[p] = "symmetric" THEN "incompatible"
            ELSE "ready"]
    /\ ready' = ready \cup pair
    /\ stuck' = (pair \cap ready # {})

\* rendezvousRegister, under sessionsMu.
RendezvousRegister(s, i, natType) ==
    LET entry == count + 1
        peers == [Pruned[s] EXCEPT ![i] = entry] IN
    /\ ~stuck
    /\ count < MaxEntries
    /\ \/ /\ Peers(Pruned[s]) = {}
          /\ Cardinality({t \in Sessions : Peers(Pruned[t]) # {}})
                >= MaxSessions
          /\ table' = Pruned
          /\ UNCHANGED <<count, nat, status, ready, stuck>>
       \/ /\ \/ Peers(Pruned[s]) # {}
             \/ Cardinality({t \in Sessions : Peers(Pruned[t]) # {}})
                    < MaxSessions
          /\ table' = [Pruned EXCEPT ![s] = peers]
          /\ count' = entry
          /\ nat' = [nat EXCEPT ![entry] = natType]
          /\ IF Cardinality(Peers(peers)) = 2 THEN Match(Peers(peers))
             ELSE UNCHANGED <<status, ready, stuck>>
    /\ UNCHANGED <<expired, waitVars>>

\* Fifteen minutes pass for the older entries.
Expire(e) ==
    /\ e \in 1 .. count
    /\ expired' = expired \cup 1 .. e
    /\ UNCHANGED <<table, count, nat, status, ready, stuck, waitVars>>

\* A request of GET /wait arrives, or the client asks again.
Ask(w) ==
    /\ wpc[w] \in {"idle", "answered"}
    /\ wpc' = [wpc EXCEPT ![w] = "asked"]
    /\ UNCHANGED <<table, count, nat, status, ready, expired, stuck, wpeer>>

\* Under sessionsMu: an unknown peer is refused at once.
LookUp(w) ==
    /\ wpc[w] = "asked"
    /\ ~stuck
    /\ \E s \in Sessions, i \in Ids :
        /\ wpeer' = [wpeer EXCEPT ![w] = table[s][i]]
        /\ wpc' = [wpc EXCEPT ![w] = IF table[s][i] = Nil THEN "answered"
                                     ELSE "waiting"]
    /\ UNCHANGED <<table, count, nat, status, ready, expired, stuck>>

\* The select: the ready channel is closed, or the timeout answers.
Wake(w) ==
    /\ wpc[w] = "waiting"
    /\ \/ wpeer[w] \in ready /\ wpc' = [wpc EXCEPT ![w] = "matched"]
       \/ wpc' = [wpc EXCEPT ![w] = "answered"]
    /\ UNCHANGED <<table, count, nat, status, ready, expired, stuck, wpeer>>

\* Under sessionsMu: the status of the entry is the answer.
Answer(w) ==
    /\ wpc[w] = "matched"
    /\ ~stuck
    /\ wpc' = [wpc EXCEPT ![w] = "answered"]
    /\ UNCHANGED <<table, count, nat, status, ready, expired, stuck, wpeer>>

Next ==
    \/ \E s \in Sessions, i \in Ids, t \in {"cone", "symmetric"} :
        RendezvousRegister(s, i, t)
    \/ \E e \in Entries : Expire(e)
    \/ \E w \in Waiters : Ask(w) \/ LookUp(w) \/ Wake(w) \/ Answer(w)

\* Handlers run, mutexes are fair, and every select has a timeout.
Fairness == \A w \in Waiters : WF_vars(LookUp(w) \/ Wake(w) \/ Answer(w))

FairSpec == Init /\ [][Next]_vars /\ Fairness

-----------------------------------------------------------------------------
\* "Waiters hold their own HTTP timeouts": rendezvousWait answers every
\* request, whatever the peers of any session do.
WaitIsAnswered ==
    \A w \in Waiters : wpc[w] = "asked" ~> wpc[w] = "answered"
=============================================================================
