----------------------------- MODULE LinkCache -----------------------------
(***************************************************************************)
(* The links the coordinator serves: bootstrap requests and pushes read    *)
(* the online nodes, take the links from linkCache or build them, while    *)
(* nodes come and go, telemetry arrives and an administrator edits the     *)
(* graph or the settings.                                                  *)
(*                                                                         *)
(* All the entries of linkCache have the current cacheEpoch, because both  *)
(* change only under topologyMu: the epoch is left out.                    *)
(***************************************************************************)
EXTENDS LinkGraph

CONSTANTS
    Handlers,       \* goroutines that serve a bootstrap
    Policies,       \* graph edits and settings the administrator may choose
    Reported,       \* the pairs <<node, peer>> telemetry is about
    MaxEdits,       \* bound: changes of nodes, policy and reported states
    CacheLimit      \* the 64 of cachedTopologyLinks

VARIABLES
    view,       \* the online rows of the table nodes, as links reads them
    policy,     \* graph_links, graph_blocks and the settings
    metric,     \* the last report of every pair: what it said and if it is recent
    stamp,      \* metricStamp
    cache,      \* linkCache: a set of [key, links]
    lock,       \* the handler that holds topologyMu, or NoOne
    pc, req,    \* where every handler is, and what it has read
    flushing,   \* the administrator has committed and has not invalidated yet
    bumping,    \* a report has changed a metric and not yet the stamp
    edits

vars == <<view, policy, metric, stamp, cache, lock, pc, req, flushing, bumping, edits>>

NoOne == "none"

ASSUME LinkCacheConstants ==
    /\ Policies \subseteq LinkPolicies
    /\ Reported \subseteq Nodes \X Nodes
    /\ NoOne \notin Handlers
    /\ MaxEdits \in Nat
    /\ CacheLimit \in Nat

Idle == [view |-> NoOne]

\* Ranked(metric): what telemetryPeerOrder makes of the reports.
Reports == {"none", "up", "down", "up, old", "down, old"}
Old(m) == IF m = "up" THEN "up, old" ELSE "down, old"
Ranked(m) == [p \in Reported |-> IF m[p] \in {"up", "down"} THEN m[p] ELSE "unknown"]

Keys == [view : Views, stamp : Nat]

-----------------------------------------------------------------------------
(* A bootstrap, of a request or of a push.                                 *)

\* bootstrap: the online nodes.
ReadRows(h) ==
    /\ pc[h] = "idle"
    /\ pc' = [pc EXCEPT ![h] = "rows"]
    /\ req' = [req EXCEPT ![h] = [view |-> view]]
    /\ UNCHANGED <<view, policy, metric, stamp, cache, lock, flushing, bumping, edits>>

\* cachedTopologyLinks: the key, before the lock.
MakeKey(h) ==
    /\ pc[h] = "rows"
    /\ pc' = [pc EXCEPT ![h] = "key"]
    /\ req' = [req EXCEPT ![h] = [view |-> req[h].view, stamp |-> stamp]]
    /\ UNCHANGED <<view, policy, metric, stamp, cache, lock, flushing, bumping, edits>>

Cached(key) == \E entry \in cache : entry.key = key

\* Under topologyMu: a hit is the answer, else links begins with the blocked
\* pairs and the degree of the backbone.
Lookup(h) ==
    /\ pc[h] = "key"
    /\ lock = NoOne
    /\ \/ /\ Cached(req[h])
          /\ pc' = [pc EXCEPT ![h] = "idle"]
          /\ req' = [req EXCEPT ![h] = Idle]
          /\ UNCHANGED lock
       \/ /\ ~Cached(req[h])
          /\ lock' = h
          /\ pc' = [pc EXCEPT ![h] = "build"]
          /\ req' = [req EXCEPT ![h] = [key |-> req[h], blocked |-> policy.blocked,
                                        degree |-> policy.degree]]
    /\ UNCHANGED <<view, policy, metric, stamp, cache, flushing, bumping, edits>>

Done(h) ==
    /\ lock' = NoOne
    /\ pc' = [pc EXCEPT ![h] = "idle"]
    /\ req' = [req EXCEPT ![h] = Idle]

\* The rest of links, and the new entry.
Store(h) ==
    LET seen == [policy EXCEPT !.blocked = req[h].blocked, !.degree = req[h].degree]
        entry == [key |-> req[h].key,
                  links |-> Links(req[h].key.view, seen, Ranked(metric))]
    IN  /\ pc[h] = "build"
        /\ Cardinality(cache) <= CacheLimit
        /\ cache' = cache \cup {entry}
        /\ Done(h)
        /\ UNCHANGED <<view, policy, metric, stamp, flushing, bumping, edits>>

\* The map is full: it is set to nil, and the assignment that follows panics.
\* net/http recovers the panic of a request; the request is not answered.
RequestPanics(h) ==
    /\ pc[h] = "build"
    /\ Cardinality(cache) > CacheLimit
    /\ cache' = {}
    /\ Done(h)
    /\ UNCHANGED <<view, policy, metric, stamp, flushing, bumping, edits>>

\* A push has a goroutine of its own: its panic ends the process, and what is
\* not in the database begins anew.
PushPanics(h) ==
    /\ pc[h] = "build"
    /\ Cardinality(cache) > CacheLimit
    /\ metric' = [p \in Reported |-> "none"]
    /\ stamp' = 0
    /\ cache' = {}
    /\ lock' = NoOne
    /\ pc' = [g \in Handlers |-> "idle"]
    /\ req' = [g \in Handlers |-> Idle]
    /\ flushing' = FALSE
    /\ bumping' = FALSE
    /\ UNCHANGED <<view, policy, edits>>

Bootstrap(h) ==
    ReadRows(h) \/ MakeKey(h) \/ Lookup(h) \/ Store(h) \/ RequestPanics(h) \/ PushPanics(h)

-----------------------------------------------------------------------------
\* A registration, a lease that ends or a new role: the registry's business.
NodeChanges(n, kind) ==
    /\ edits < MaxEdits
    /\ view[n] # kind
    /\ view' = [view EXCEPT ![n] = kind]
    /\ edits' = edits + 1
    /\ UNCHANGED <<policy, metric, stamp, cache, lock, pc, req, flushing, bumping>>

\* adminGraph and adminConfig: the change is committed first ...
AdminCommit(next) ==
    /\ edits < MaxEdits
    /\ ~flushing
    /\ next # policy
    /\ policy' = next
    /\ flushing' = TRUE
    /\ edits' = edits + 1
    /\ UNCHANGED <<view, metric, stamp, cache, lock, pc, req, bumping>>

\* Mutant: the cache is emptied without topologyMu.
AdminInvalidateUnlocked ==
    /\ flushing
    /\ cache' = {}
    /\ flushing' = FALSE
    /\ UNCHANGED <<view, policy, metric, stamp, lock, pc, req, bumping, edits>>

\* ... and invalidateLinkCache follows, before the pushes.
AdminInvalidate ==
    /\ flushing
    /\ lock = NoOne
    /\ cache' = {}
    /\ flushing' = FALSE
    /\ UNCHANGED <<view, policy, metric, stamp, lock, pc, req, bumping, edits>>

\* A link seen for the first time, or one whose state is not that of the last
\* report, however old that is.
StateChanged(old, now) == old \notin {now, Old(now)}

\* updateLinkMetrics, of telemetry and of heartbeats that carry measurements.
UpdateLinkMetrics(p, now) ==
    /\ ~bumping
    /\ metric[p] # now
    /\ StateChanged(metric[p], now) => edits < MaxEdits
    /\ metric' = [metric EXCEPT ![p] = now]
    /\ bumping' = StateChanged(metric[p], now)
    /\ edits' = IF StateChanged(metric[p], now) THEN edits + 1 ELSE edits
    /\ UNCHANGED <<view, policy, stamp, cache, lock, pc, req, flushing>>

BumpStamp ==
    /\ bumping
    /\ stamp' = stamp + 1
    /\ bumping' = FALSE
    /\ UNCHANGED <<view, policy, metric, cache, lock, pc, req, flushing, edits>>

\* 45 seconds without a report.
MetricAges(p) ==
    /\ metric[p] \in {"up", "down"}
    /\ metric' = [metric EXCEPT ![p] = Old(metric[p])]
    /\ UNCHANGED <<view, policy, stamp, cache, lock, pc, req, flushing, bumping, edits>>

-----------------------------------------------------------------------------
Init ==
    /\ view \in Views
    /\ policy \in Policies
    /\ metric = [p \in Reported |-> "none"]
    /\ stamp = 0
    /\ cache = {}
    /\ lock = NoOne
    /\ pc = [h \in Handlers |-> "idle"]
    /\ req = [h \in Handlers |-> Idle]
    /\ flushing = FALSE
    /\ bumping = FALSE
    /\ edits = 0

Next ==
    \/ \E h \in Handlers : Bootstrap(h)
    \/ \E n \in Nodes, kind \in Kinds : NodeChanges(n, kind)
    \/ \E next \in Policies : AdminCommit(next)
    \/ AdminInvalidate
    \/ \E p \in Reported, now \in {"up", "down"} : UpdateLinkMetrics(p, now)
    \/ BumpStamp
    \/ \E p \in Reported : MetricAges(p)

Spec == Init /\ [][Next]_vars

-----------------------------------------------------------------------------
(* What the entries are worth.                                             *)

\* A bootstrap has read what its stage says (cachedTopologyLinks builds only
\* under topologyMu), and no entry links a node to itself.
TypeOK ==
    /\ view \in Views
    /\ policy \in LinkPolicies
    /\ metric \in [Reported -> Reports]
    /\ stamp \in Nat
    /\ \A entry \in cache :
          entry.key \in Keys /\ \A i \in DOMAIN entry.links : EdgeKey(entry.links[i]) \in Pairs
    /\ lock \in Handlers \cup {NoOne}
    /\ \A h \in Handlers :
          CASE pc[h] = "idle"  -> req[h] = Idle
            [] pc[h] = "rows"  -> req[h].view \in Views
            [] pc[h] = "key"   -> req[h] \in Keys
            [] pc[h] = "build" -> lock = h /\ req[h].key \in Keys
    /\ flushing \in BOOLEAN /\ bumping \in BOOLEAN
    /\ edits \in 0..MaxEdits

\* What telemetryPeerOrder may have made of the reports: the last state of a
\* pair, or nothing when the report was old.
Readings ==
    {m \in [Reported -> {"up", "down", "unknown"}] :
       \A p \in Reported : m[p] = "unknown" \/ metric[p] \in {m[p], Old(m[p])}}

\* No request is answered from an outdated entry (cachedTopologyLinks,
\* invalidateLinkCache, metricStamp): once an edit of the administrator is
\* invalidated and a changed report is stamped, every entry a lookup can hit
\* holds the links that the nodes, the policy and the reports of now give,
\* although the entry was built from reads made at different times.
CacheIsCurrent ==
    \A entry \in cache :
        (~flushing /\ ~bumping /\ entry.key.stamp = stamp) =>
            \E m \in Readings : entry.links = Links(entry.key.view, policy, m)

EdgesOf(links) == {EdgeKey(links[i]) : i \in DOMAIN links}

\* The nodes reached from a set by at most as many links as there are nodes,
\* where only nodes of Via pass on.
Reach(edges, from, Via) ==
    LET ball[k \in 0..Cardinality(Nodes)] ==
            IF k = 0 THEN from
            ELSE ball[k - 1] \cup {n \in Nodes : \E m \in ball[k - 1] \cap (Via \cup from) :
                                                    {m, n} \in edges}
    IN  ball[Cardinality(Nodes)]

Connected(edges, S) == \A n \in S : S \subseteq Reach(edges, {n}, S)

\* An administrator's block is never undone by the backbone, by the attachment
\* of clients or by the bridges of ensureConnected.
BlockedStaysOut ==
    ~flushing => \A entry \in cache : EdgesOf(entry.links) \cap policy.blocked = {}

\* "Manual islands [...] and superpeers going offline are healed": with no
\* block between online nodes, the links join all of them.
IslandsAreBridged ==
    ~flushing => \A entry \in cache :
        BlockedEdgeSet(entry.key.view, policy) = {} =>
            Connected(EdgesOf(entry.links), Online(entry.key.view))

\* Only superpeers relay.  While one is online and neither a manual link nor a
\* block interferes, any two online nodes are joined through superpeers, also
\* after the loss of any one superpeer if there are three and every client
\* wants two links.
RelaysReachEveryone ==
    ~flushing => \A entry \in cache :
        LET on == Online(entry.key.view)
            relays == SuperpeerNodes(entry.key.view)
            edges == EdgesOf(entry.links)
            lost == IF Cardinality(relays) >= 3 /\ policy.clientLinks >= 2
                       /\ policy.symmetricLinks >= 2
                    THEN {{}} \cup {{r} : r \in relays} ELSE {{}}
        IN  /\ relays # {}
            /\ ManualLinksForNodes(entry.key.view, policy) = <<>>
            /\ BlockedEdgeSet(entry.key.view, policy) = {}
            => \A gone \in lost, n \in on : n \notin gone =>
                 on \ gone \subseteq
                     Reach({e \in edges : e \cap gone = {}}, {n}, relays \ gone)
=============================================================================
