------------------------------ MODULE Registry ------------------------------
(***************************************************************************)
(* The registry of the coordinator: POST /v1/register, which is also the   *)
(* heartbeat of a node, the leases, the mesh addresses, the roles and      *)
(* their rebalancing, the administrator's operations on a node, and the    *)
(* credentials a registration presents.                                    *)
(*                                                                         *)
(* Every handler is a goroutine that talks to SQLite statement by          *)
(* statement.  Only the statements of register between the choice of the   *)
(* address and the insert run under registerMu; everything else, the       *)
(* reading of the previous row included, interleaves.  A request that is   *)
(* refused before it has changed anything is no step of the model.         *)
(*                                                                         *)
(* A row keeps what decides about addresses and roles; its lease counts    *)
(* the time left until last_seen is older than the TTL, which is more than *)
(* one heartbeat.  Nodes are numbered in the order in which                *)
(* rebalanceRolesFor sorts candidates: capacity, then age, then name.      *)
(***************************************************************************)
EXTENDS Integers, FiniteSets, FiniteSetsExt

CONSTANTS Nodes,     \* node identities, numbered by rank
          PoolSize,  \* host addresses of the mesh network
          Handlers,  \* goroutines that may run register at the same time
          Requests,  \* what nodes may ask for
          Administered, \* the nodes the administrator works on
          NewRoles,  \* what the administrator may set with adminNodeRole
          AutoSuperpeers, \* the setting of that name, 0 for the square root
          Accounts,  \* owners of nodes
          MaxLease,  \* steps of time a lease lasts without a heartbeat
          MaxAdminOps, \* bound on the operations of the administrator on nodes
          MaxInvites \* bound on the invitations

NoAccount == 0
NoIP == 0
NoRow == [ip |-> -1]
NoOverride == "none"
Addresses == 1 .. PoolSize
Roles == {"client", "superpeer"}
WishedRoles == {"auto", "iot", "client", "superpeer"}
NATs == {"cone", "symmetric"}

Row == [ip : Addresses \cup {NoIP}, role : Roles, nat : NATs,
        wished : WishedRoles, relay : BOOLEAN, lease : 0 .. MaxLease,
        owner : Accounts \cup {NoAccount}]

Request == [node : Nodes, nat : NATs, role : WishedRoles, relay : BOOLEAN,
            ip : Addresses \cup {NoIP}, scope : Accounts \cup {NoAccount},
            cred : {"network", "node", "invite"}]

\* Nodes are numbers, requests are well-formed, and account 0 is no account.
ASSUME RegistryConstants ==
    /\ Nodes \in SUBSET Nat /\ IsFiniteSet(Nodes)
    /\ MaxLease \in Nat \ {0}
    /\ PoolSize \in Nat /\ AutoSuperpeers \in Nat /\ MaxAdminOps \in Nat /\ MaxInvites \in Nat
    /\ Requests \subseteq Request
    /\ Administered \subseteq Nodes /\ NewRoles \subseteq WishedRoles
    /\ NoAccount \notin Accounts
    /\ {"admin", "maintenance"} \cap Handlers = {}

Processes == Handlers \cup {"admin", "maintenance"}

VARIABLES
    row,      \* the nodes table
    override, \* role_overrides
    tokens,   \* nodes with a live node token
    banned,   \* revoked_nodes
    invite,   \* an invitation: none, open, consumed or closed
    invites,  \* invitations made so far
    pc,       \* where each process is
    req,      \* the request of a handler, its role replaced by the override
    prev,     \* the row the handler has read
    todo,     \* role updates rebalanceRolesFor has still to write
    target,   \* what the administrator works on: a node, its new role, the account rebalanced
    adminOps, \* operations on nodes the administrator has begun
    takenBack \* history: addresses written by a handler that had read them from
              \* a row which had lost them since

tables == <<row, override, tokens, banned, invite, invites>>
vars == <<tables, pc, req, prev, todo, target, adminOps, takenBack>>

NoRequest == [node |-> -1]

Init ==
    /\ row = [n \in Nodes |-> NoRow]
    /\ override = [n \in Nodes |-> NoOverride]
    /\ tokens = {} /\ banned = {} /\ invite = "none" /\ invites = 0 /\ takenBack = {}
    /\ pc = [p \in Processes |-> "idle"]
    /\ req = [h \in Handlers |-> NoRequest]
    /\ prev = [h \in Handlers |-> NoRow]
    /\ todo = [p \in Processes |-> {}]
    /\ target = <<>> /\ adminOps = 0

Online(n) == row[n] # NoRow /\ row[n].lease > 0
Used == {row[n].ip : n \in {m \in Nodes : row[m] # NoRow}}

-----------------------------------------------------------------------------
(* Roles. *)

\* The smallest number whose square is at least n.
IntSqrtCeil(n) == CHOOSE r \in 0 .. n : r * r >= n /\ \A s \in 0 .. n : s * s >= n => r <= s

\* Mutant: the expired leases stay in the selection.
ScopeWithOffline(account) ==
    {n \in Nodes : row[n] # NoRow /\ account \in {NoAccount, row[n].owner}}

\* The online nodes rebalanceRolesFor selects: of one account, or all.
Scope(account) ==
    {n \in Nodes : Online(n) /\ account \in {NoAccount, row[n].owner}}

\* The nodes of a selection that become superpeers.
Superpeers(selection) ==
    LET manual     == {n \in selection : row[n].wished = "superpeer"}
        candidates == {n \in selection : /\ row[n].wished = "auto"
                                         /\ row[n].nat = "cone" /\ row[n].relay}
        wanted     == IF AutoSuperpeers = 0 THEN IntSqrtCeil(Cardinality(candidates))
                                            ELSE AutoSuperpeers
        slots      == Max({0, wanted - Cardinality(manual)})
        ahead(n)   == {m \in candidates : m < n}
    IN  manual \cup {n \in candidates : Cardinality(ahead(n)) < slots}

\* The updates that give a selection its roles.
RoleUpdates(account) ==
    LET selection == Scope(account)
        chosen    == Superpeers(selection)
    IN  {<<n, "superpeer">> : n \in {m \in chosen : row[m].role # "superpeer"}}
          \cup {<<n, "client">> : n \in {m \in selection \ chosen : row[m].role # "client"}}

\* Mutant: the process goes on to write when there is nothing to write.
BalanceReadStays(p, account) ==
    /\ todo' = [todo EXCEPT ![p] = RoleUpdates(account)]
    /\ pc' = [pc EXCEPT ![p] = "writing"]

\* A process that rebalances reads the selection in one statement and writes
\* the roles that differ one by one.
BalanceRead(p, account) ==
    /\ todo' = [todo EXCEPT ![p] = RoleUpdates(account)]
    /\ pc' = [pc EXCEPT ![p] = IF RoleUpdates(account) = {} THEN "idle" ELSE "writing"]

\* UPDATE nodes SET role=? WHERE node_id=?, for one of the nodes read.
BalanceWrite(p) ==
    /\ pc[p] = "writing"
    /\ \E u \in todo[p] :
         /\ row' = IF row[u[1]] = NoRow THEN row
                   ELSE [row EXCEPT ![u[1]].role = u[2]]
         /\ todo' = [todo EXCEPT ![p] = @ \ {u}]
         /\ pc' = [pc EXCEPT ![p] = IF todo[p] = {u} THEN "idle" ELSE "writing"]
    /\ UNCHANGED <<override, tokens, banned, invite, invites, req, prev, target, adminOps, takenBack>>

\* The maintenance loop wakes up.
Maintenance ==
    /\ pc["maintenance"] = "idle"
    /\ BalanceRead("maintenance", NoAccount)
    /\ UNCHANGED <<tables, req, prev, target, adminOps, takenBack>>

-----------------------------------------------------------------------------
(* Registration. *)

\* The credential of a request is accepted: the network's token, the live token
\* of any node, whichever node the request names, or a consumed invite.
Authorized(q) ==
    \/ q.cred = "network"
    \/ q.cred = "node" /\ tokens # {}
    \/ q.cred = "invite" /\ invite = "consumed"

\* Mutant: the ban is not looked up.
RegisterStartUnchecked(h, q) ==
    /\ pc[h] = "idle"
    /\ Authorized(q)
    /\ pc' = [pc EXCEPT ![h] = "lookup"]
    /\ req' = [req EXCEPT ![h] = q]
    /\ UNCHANGED <<tables, prev, todo, target, adminOps, takenBack>>

\* The request is authorized and its node is not banned.
RegisterStart(h, q) ==
    /\ pc[h] = "idle"
    /\ Authorized(q)
    /\ q.node \notin banned
    /\ pc' = [pc EXCEPT ![h] = "lookup"]
    /\ req' = [req EXCEPT ![h] = q]
    /\ UNCHANGED <<tables, prev, todo, target, adminOps, takenBack>>

\* The role that counts: the administrator's override before the node's wish.
WishedRole(n, role) ==
    IF row[n] = NoRow \/ override[n] = NoOverride THEN role ELSE override[n]

\* registeredNode reads the row and the override; the request may be refused.
Lookup(h) ==
    LET q       == req[h]
        n       == q.node
        role    == WishedRole(n, q.role)
        foreign == /\ q.scope # NoAccount /\ row[n] # NoRow
                   /\ row[n].owner \notin {NoAccount, q.scope}
        refused == foreign \/ (role = "superpeer" /\ q.nat # "cone")
    IN  /\ pc[h] = "lookup"
        /\ pc' = [pc EXCEPT ![h] = IF refused THEN "idle" ELSE "store"]
        /\ prev' = [prev EXCEPT ![h] = IF refused THEN NoRow ELSE row[n]]
        /\ req' = [req EXCEPT ![h] = IF refused THEN NoRequest ELSE [@ EXCEPT !.role = role]]
        /\ UNCHANGED <<tables, todo, target, adminOps, takenBack>>

\* The address a registration gets: the wished one, the previous one, or the
\* first free one of the pool, NoIP when there is none.
Allocate == LET free == Addresses \ Used IN IF free = {} THEN NoIP ELSE Min(free)
AddressFor(q, previous) ==
    CASE q.ip # NoIP -> q.ip
      [] q.ip = NoIP /\ previous # NoRow /\ previous.ip # NoIP -> previous.ip
      [] OTHER -> Allocate

\* register rebalances when eligibility or ownership may have changed.
NeedsRebalance(q, previous) ==
    \/ previous = NoRow \/ previous.lease = 0
    \/ previous.nat # q.nat \/ previous.wished # q.role \/ previous.relay # q.relay
    \/ q.scope # NoAccount /\ previous.owner = NoAccount

\* What a handler still has to do after its row is written.
AfterStore(q, previous) ==
    CASE q.cred = "invite" /\ NeedsRebalance(q, previous) -> "token"
      [] q.cred = "invite" /\ ~NeedsRebalance(q, previous) -> "lastToken"
      [] q.cred # "invite" /\ NeedsRebalance(q, previous) -> "balance"
      [] OTHER -> "idle"

\* Mutant: the query only finds holders that are online.
HoldersOfOnline(ip, n) ==
    {m \in Nodes \ {n} : row[m] # NoRow /\ row[m].ip = ip /\ row[m].lease > 0}

\* The other rows that hold an address; one of them is read, and its owner is
\* asked to give the address up when the lease has run out.
HoldersOf(ip, n) == {m \in Nodes \ {n} : row[m] # NoRow /\ row[m].ip = ip}

\* Mutant: the update overwrites the owner.
WrittenOwner(q, previous, ip) ==
    [ip |-> ip, nat |-> q.nat, wished |-> q.role, relay |-> q.relay,
     lease |-> MaxLease, owner |-> q.scope,
     role |-> IF previous # NoRow THEN previous.role
              ELSE IF q.role = "superpeer" THEN "superpeer" ELSE "client"]

\* The row a registration writes: new, or updated where it still exists.
Written(q, previous, ip) ==
    [ip |-> ip, nat |-> q.nat, wished |-> q.role, relay |-> q.relay,
     lease |-> MaxLease,
     role |-> IF previous # NoRow THEN previous.role
              ELSE IF q.role = "superpeer" THEN "superpeer" ELSE "client",
     owner |-> IF row[q.node] # NoRow /\ row[q.node].owner # NoAccount
               THEN row[q.node].owner ELSE q.scope]

\* INSERT fails when a concurrent registration has made the row; UPDATE does
\* nothing when the administrator has deleted it.  The reclaimed address of
\* another row stays reclaimed either way.
Commit(h, ip, reclaimed) ==
    LET q        == req[h]
        n        == q.node
        clash    == prev[h] = NoRow /\ row[n] # NoRow
        written  == (prev[h] = NoRow) = (row[n] = NoRow)
        released == [m \in Nodes |-> IF m \in reclaimed THEN [row[m] EXCEPT !.ip = NoIP]
                                     ELSE row[m]]
    IN  /\ row' = IF written THEN [released EXCEPT ![n] = Written(q, prev[h], ip)]
                             ELSE released
        /\ takenBack' = IF written /\ prev[h] # NoRow /\ ip = prev[h].ip /\ ip # row[n].ip
                        THEN takenBack \cup {ip} ELSE takenBack
        /\ pc' = [pc EXCEPT ![h] = IF clash THEN "idle" ELSE AfterStore(q, prev[h])]

\* The section under registerMu: no free address or an online holder refuses
\* the request, an offline holder loses the address.
Store(h) ==
    LET q       == req[h]
        ip      == AddressFor(q, prev[h])
        checked == prev[h] = NoRow \/ ip # prev[h].ip
        holders == IF checked THEN HoldersOf(ip, q.node) ELSE {}
    IN  /\ pc[h] = "store"
        /\ \/ /\ ip = NoIP \/ \E m \in holders : Online(m)
              /\ pc' = [pc EXCEPT ![h] = "idle"]
              /\ UNCHANGED <<row, takenBack>>
           \/ /\ ip # NoIP /\ holders = {}
              /\ Commit(h, ip, {})
           \/ /\ ip # NoIP
              /\ \E m \in holders : ~Online(m) /\ Commit(h, ip, {m})
        /\ prev' = [prev EXCEPT ![h] = NoRow]
        /\ req' = [req EXCEPT ![h] = IF pc'[h] = "idle" THEN NoRequest ELSE @]
        /\ UNCHANGED <<override, tokens, banned, invite, invites, todo, target, adminOps>>

\* issueNodeToken, for a registration with an invitation.
IssueToken(h) ==
    /\ pc[h] \in {"token", "lastToken"}
    /\ tokens' = tokens \cup {req[h].node}
    /\ pc' = [pc EXCEPT ![h] = IF @ = "token" THEN "balance" ELSE "idle"]
    /\ req' = [req EXCEPT ![h] = IF pc[h] = "token" THEN @ ELSE NoRequest]
    /\ UNCHANGED <<row, override, banned, invite, invites, prev, todo, target, adminOps, takenBack>>

\* rebalanceRolesFor the account of the registration.
RegisterBalance(h) ==
    /\ pc[h] = "balance"
    /\ BalanceRead(h, req[h].scope)
    /\ req' = [req EXCEPT ![h] = NoRequest]
    /\ UNCHANGED <<tables, prev, target, adminOps, takenBack>>

\* A lease grows older; at 0 last_seen is before the TTL.
Age(n) ==
    /\ Online(n)
    /\ row' = [row EXCEPT ![n].lease = @ - 1]
    /\ UNCHANGED <<override, tokens, banned, invite, invites, pc, req, prev, todo, target, adminOps, takenBack>>

-----------------------------------------------------------------------------
(* Invitations: made by adminInvite, consumed once by a WebSocket          *)
(* handshake, good for a registration until the enrollment window ends.    *)

AdminInvite ==
    /\ invites < MaxInvites /\ invite \in {"none", "closed"}
    /\ invites' = invites + 1
    /\ invite' = "open"

ConsumeInvite == invite = "open" /\ invite' = "consumed" /\ UNCHANGED invites
InviteTimesOut ==
    invite \in {"open", "consumed"} /\ invite' = "closed" /\ UNCHANGED invites

Invitation ==
    /\ AdminInvite \/ ConsumeInvite \/ InviteTimesOut
    /\ UNCHANGED <<row, override, tokens, banned, pc, req, prev, todo, target, adminOps, takenBack>>

-----------------------------------------------------------------------------
(* The administrator. *)

\* adminNode deletes the row, then what hangs on it, then bans the identity.
AdminBegins(next, what) ==
    /\ pc["admin"] = "idle" /\ adminOps < MaxAdminOps
    /\ adminOps' = adminOps + 1
    /\ pc' = [pc EXCEPT !["admin"] = next]
    /\ target' = what

AdminDelete(n) ==
    /\ row[n] # NoRow
    /\ AdminBegins("cleanup", <<n>>)
    /\ row' = [row EXCEPT ![n] = NoRow]
    /\ UNCHANGED <<override, tokens, banned, invite, invites, req, prev, todo, takenBack>>

AdminCleanup ==
    /\ pc["admin"] = "cleanup"
    /\ override' = [override EXCEPT ![target[1]] = NoOverride]
    /\ tokens' = tokens \ {target[1]}
    /\ pc' = [pc EXCEPT !["admin"] = "ban"]
    /\ UNCHANGED <<row, banned, invite, invites, req, prev, todo, target, adminOps, takenBack>>

AdminBan ==
    /\ pc["admin"] = "ban"
    /\ banned' = banned \cup {target[1]}
    /\ pc' = [pc EXCEPT !["admin"] = "idle"]
    /\ target' = <<>>
    /\ UNCHANGED <<row, override, tokens, invite, invites, req, prev, todo, adminOps, takenBack>>

AdminUnban(n) ==
    /\ pc["admin"] = "idle" /\ n \in banned
    /\ banned' = banned \ {n}
    /\ UNCHANGED <<row, override, tokens, invite, invites, pc, req, prev, todo, target,
                   adminOps, takenBack>>

\* adminNodeRole reads the NAT, then writes the override and the wished role,
\* then rebalances: for everybody, or for the account the administrator is
\* scoped to, which then owns the node (requireNodeAccess).
AdminRoleRead(n, role, account) ==
    /\ row[n] # NoRow
    /\ account \in {NoAccount, row[n].owner}
    /\ role = "superpeer" => row[n].nat = "cone"
    /\ AdminBegins("override", <<n, role, account>>)
    /\ UNCHANGED <<tables, req, prev, todo, takenBack>>

AdminOverride ==
    /\ pc["admin"] = "override"
    /\ override' = [override EXCEPT ![target[1]] = target[2]]
    /\ pc' = [pc EXCEPT !["admin"] = "wish"]
    /\ UNCHANGED <<row, tokens, banned, invite, invites, req, prev, todo, target, adminOps, takenBack>>

AdminWish ==
    /\ pc["admin"] = "wish"
    /\ row' = IF row[target[1]] = NoRow THEN row
              ELSE [row EXCEPT ![target[1]].wished = target[2]]
    /\ pc' = [pc EXCEPT !["admin"] = "balance"]
    /\ UNCHANGED <<override, tokens, banned, invite, invites, req, prev, todo, target, adminOps,
                   takenBack>>

AdminBalance ==
    /\ pc["admin"] = "balance"
    /\ BalanceRead("admin", target[3])
    /\ target' = <<>>
    /\ UNCHANGED <<tables, req, prev, adminOps, takenBack>>

-----------------------------------------------------------------------------
RegisterStep(h) == Lookup(h) \/ Store(h) \/ IssueToken(h) \/ RegisterBalance(h)
AdminStep == AdminCleanup \/ AdminBan \/ AdminOverride \/ AdminWish \/ AdminBalance

Next ==
    \/ \E h \in Handlers : (\E q \in Requests : RegisterStart(h, q)) \/ RegisterStep(h)
    \/ \E n \in Nodes : Age(n)
    \/ \E n \in Administered : AdminDelete(n) \/ AdminUnban(n)
    \/ \E n \in Administered, role \in NewRoles, account \in Accounts \cup {NoAccount} :
         AdminRoleRead(n, role, account)
    \/ AdminStep
    \/ Maintenance
    \/ \E p \in Processes : BalanceWrite(p)
    \/ Invitation

Spec == Init /\ [][Next]_vars

\* Handlers run to their end, the maintenance loop keeps waking up and time
\* passes; nothing obliges a node to register or the administrator to act.
Fairness ==
    /\ \A h \in Handlers : WF_vars(RegisterStep(h) \/ BalanceWrite(h))
    /\ WF_vars(AdminStep \/ BalanceWrite("admin"))
    /\ WF_vars(Maintenance \/ BalanceWrite("maintenance"))
    /\ \A n \in Nodes : WF_vars(Age(n))
FairSpec == Spec /\ Fairness

-----------------------------------------------------------------------------
(* Properties. *)

\* Every table and every handler holds what the code can put there: a handler
\* that stores has a request, and one that writes roles has roles to write.
TypeOK ==
    /\ row \in [Nodes -> Row \cup {NoRow}]
    /\ override \in [Nodes -> WishedRoles \cup {NoOverride}]
    /\ tokens \subseteq Nodes /\ banned \subseteq Nodes
    /\ invite \in {"none", "open", "consumed", "closed"}
    /\ pc \in [Processes -> {"idle", "lookup", "store", "token", "lastToken", "balance",
                             "writing", "cleanup", "ban", "override", "wish"}]
    /\ req \in [Handlers -> Request \cup {NoRequest}]
    /\ \A h \in Handlers :
         pc[h] \in {"lookup", "store", "token", "lastToken", "balance"} => req[h] # NoRequest
    /\ prev \in [Handlers -> Row \cup {NoRow}]
    /\ todo \in [Processes -> SUBSET (Nodes \X Roles)]
    /\ \A p \in Processes : pc[p] = "writing" <=> todo[p] # {}
    /\ target \in {<<>>} \cup {<<n>> : n \in Nodes} 
                  \cup (Nodes \X WishedRoles \X (Accounts \cup {NoAccount}))
    /\ adminOps \in 0 .. MaxAdminOps /\ invites \in 0 .. MaxInvites
    /\ takenBack \subseteq Addresses

\* No two nodes have the same mesh address, unless one of them has written an
\* address which it had read before another node reclaimed it (register reads
\* the previous row before registerMu).  Allocation, the conflict check, the
\* reclamation of expired leases and the removal of nodes never cause it.
AddressesUnique ==
    \A a, b \in Nodes : a # b /\ row[a] # NoRow /\ row[b] # NoRow /\ row[a].ip = row[b].ip
        => row[a].ip \in takenBack \cup {NoIP}

\* A node that belongs to an account is never moved to another, however many
\* registrations of it run at once (COALESCE in the update).
OwnershipIsKept ==
    [][\A n \in Nodes : row[n] # NoRow /\ row'[n] # NoRow /\ row[n].owner # NoAccount
         => row'[n].owner = row[n].owner]_vars

\* Removal wins in the end: a node that stays banned is offline from some time
\* on, even when a registration that had passed the check before the ban has
\* put its row back (nodeRevoked refuses every later one).
RemovedNodeFades ==
    \A n \in Nodes : <>[](n \in banned) => <>[](~Online(n))

\* Nodes from which rebalanceRolesFor may choose.
Candidate(n) == /\ Online(n) /\ row[n].wished = "auto"
                /\ row[n].nat = "cone" /\ row[n].relay

\* Once nodes stop coming and going, the backbone of a mesh with candidates
\* does not stay empty: whatever stale roles heartbeats write back, whichever
\* account is rebalanced last, the maintenance loop promotes a node that is
\* there.  (While nodes flap, every promotion may come too late for its node.)
BackboneIsRefilled ==
    \A C \in SUBSET Nodes \ {{}} :
        <>[]({n \in Nodes : Candidate(n)} = C)
            => []<>(\E n \in Nodes : Online(n) /\ row[n].role = "superpeer")
=============================================================================
