--------------------------- MODULE RegistryProofs ---------------------------
(***************************************************************************)
(* Safety of Registry for any set of nodes, any pool of addresses, any     *)
(* requests and any number of handlers that register at the same time.     *)
(***************************************************************************)
EXTENDS Registry, WellFoundedInduction, TLAPS

\* The parts of TypeOK: the nodes table; the other tables; what a handler has
\* read and asked for; the role updates; the counters.
RowsOK == row \in [Nodes -> Row \cup {NoRow}]
TablesOK ==
    /\ override \in [Nodes -> WishedRoles \cup {NoOverride}]
    /\ tokens \subseteq Nodes /\ banned \subseteq Nodes
    /\ invite \in {"none", "open", "consumed", "closed"}
    /\ adminOps \in 0 .. MaxAdminOps /\ invites \in 0 .. MaxInvites
PcOK == pc \in [Processes -> {"idle", "lookup", "store", "token", "lastToken", "balance",
                              "writing", "cleanup", "ban", "override", "wish"}]
ReqOK ==
    /\ req \in [Handlers -> Request \cup {NoRequest}]
    /\ \A h \in Handlers :
         pc[h] \in {"lookup", "store", "token", "lastToken", "balance"} => req[h] # NoRequest
PrevOK == prev \in [Handlers -> Row \cup {NoRow}]
TodoOK ==
    /\ todo \in [Processes -> SUBSET (Nodes \X Roles)]
    /\ \A p \in Processes : pc[p] = "writing" <=> todo[p] # {}
TargetTyped ==
    target \in {<<>>} \cup {<<n>> : n \in Nodes}
               \cup (Nodes \X WishedRoles \X (Accounts \cup {NoAccount}))

\* What the administrator works on while an operation is under way.
TargetOK ==
    /\ pc["admin"] \in {"cleanup", "ban"} => target \in {<<n>> : n \in Nodes}
    /\ pc["admin"] \in {"override", "wish", "balance"} =>
         target \in Nodes \X WishedRoles \X (Accounts \cup {NoAccount})

IInv == /\ TypeOK
        /\ TargetOK
        /\ AddressesUnique

\* TypeOK is its parts.
LEMMA TypeParts ==
    TypeOK <=> /\ RowsOK /\ TablesOK /\ PcOK /\ ReqOK /\ PrevOK /\ TodoOK
               /\ TargetTyped /\ takenBack \subseteq Addresses
  BY DEF TypeOK, RowsOK, TablesOK, PcOK, ReqOK, PrevOK, TodoOK, TargetTyped

\* A row is a record with all its fields, and no row is none of them.
LEMMA RowFields ==
    ASSUME NEW r \in Row
    PROVE  /\ r # NoRow
           /\ r.ip \in Addresses \cup {NoIP} /\ r.role \in Roles /\ r.nat \in NATs
           /\ r.wished \in WishedRoles /\ r.relay \in BOOLEAN
           /\ r.lease \in 0 .. MaxLease /\ r.owner \in Accounts \cup {NoAccount}
  <1>1. r.ip \in Addresses \cup {NoIP}
    BY DEF Row
  <1>2. NoRow.ip = -1
    BY DEF NoRow
  <1>3. r # NoRow
    BY <1>1, <1>2, RegistryConstants DEF Addresses, NoIP
  <1> QED
    BY <1>3 DEF Row

\* A request is a record with all its fields, and no request is none of them.
LEMMA RequestFields ==
    ASSUME NEW q \in Request
    PROVE  /\ q # NoRequest
           /\ q.node \in Nodes /\ q.nat \in NATs /\ q.role \in WishedRoles
           /\ q.relay \in BOOLEAN /\ q.ip \in Addresses \cup {NoIP}
           /\ q.scope \in Accounts \cup {NoAccount}
           /\ q.cred \in {"network", "node", "invite"}
  <1>1. q.node \in Nat
    BY RegistryConstants DEF Request
  <1>2. NoRequest.node = -1
    BY DEF NoRequest
  <1>3. q # NoRequest
    BY <1>1, <1>2
  <1> QED
    BY <1>3 DEF Request

\* rebalanceRolesFor writes roles of nodes.
LEMMA UpdatesTyped == ASSUME NEW account PROVE RoleUpdates(account) \subseteq Nodes \X Roles
  <1> DEFINE S == Scope(account)
             C == Superpeers(S)
  <1>1. S \subseteq Nodes
    BY DEF Scope
  <1>2. C \subseteq S
    BY DEF Superpeers
  <1>3. RoleUpdates(account) =
          {<<n, "superpeer">> : n \in {m \in C : row[m].role # "superpeer"}}
            \cup {<<n, "client">> : n \in {m \in S \ C : row[m].role # "client"}}
    BY DEF RoleUpdates
  <1> QED
    BY <1>1, <1>2, <1>3 DEF Roles

\* A set of natural numbers that is not empty has a least element, which Min
\* chooses: allocateMeshIP returns a free address when there is one.
LEMMA MinOfNaturals ==
    ASSUME NEW S \in SUBSET Nat, S # {} PROVE Min(S) \in S
  <1> DEFINE R == {ss \in Nat \X Nat : ss[1] < ss[2]}
  <1>1. IsWellFoundedOn(R, Nat)
    BY NatLessThanWellFounded, Zenon DEF OpToRel
  <1> HIDE DEF R
  <1>2. \E x \in S : \A y \in S : ~ (<<y, x>> \in R)
    BY <1>1, WFMin
  <1>3. \E x \in S : \A y \in S : x <= y
    <2>1. PICK x \in S : \A y \in S : ~ (<<y, x>> \in R)
      BY <1>2
    <2>2. ASSUME NEW y \in S PROVE x <= y
      <3>1. x \in Nat /\ y \in Nat /\ ~ (<<y, x>> \in R)
        BY <2>1
      <3>2. ~ (y < x)
        BY <3>1 DEF R
      <3> QED
        BY <3>1, <3>2
    <2> QED
      BY <2>2
  <1> QED
    BY <1>3 DEF Min

\* The address of a registration is one of the pool, or none.
LEMMA AddressTyped ==
    ASSUME NEW q \in Request, NEW previous \in Row \cup {NoRow}
    PROVE  AddressFor(q, previous) \in Addresses \cup {NoIP}
  <1>1. Allocate \in Addresses \cup {NoIP}
    <2>1. CASE Addresses \ Used = {}
      BY <2>1 DEF Allocate
    <2>2. CASE Addresses \ Used # {}
      <3>1. Addresses \ Used \in SUBSET Nat
        BY RegistryConstants DEF Addresses
      <3>2. Min(Addresses \ Used) \in Addresses \ Used
        BY <2>2, <3>1, MinOfNaturals
      <3> QED
        BY <3>2 DEF Allocate
    <2> QED
      BY <2>1, <2>2
  <1>2. CASE q.ip # NoIP
    BY <1>2, RequestFields DEF AddressFor
  <1>3. CASE q.ip = NoIP /\ previous # NoRow /\ previous.ip # NoIP
    <2>1. previous.ip \in Addresses \cup {NoIP}
      BY <1>3, RowFields
    <2> QED
      BY <1>3, <2>1 DEF AddressFor
  <1>4. CASE q.ip = NoIP /\ ~(previous # NoRow /\ previous.ip # NoIP)
    BY <1>1, <1>4 DEF AddressFor
  <1> QED
    BY <1>2, <1>3, <1>4

\* A registration writes a row.
LEMMA WrittenTyped ==
    ASSUME RowsOK, NEW q \in Request, NEW previous \in Row \cup {NoRow}, NEW ip \in Addresses
    PROVE  Written(q, previous, ip) \in Row
  <1>1. q.node \in Nodes /\ q.nat \in NATs /\ q.role \in WishedRoles /\ q.relay \in BOOLEAN
        /\ q.scope \in Accounts \cup {NoAccount}
    BY RequestFields
  <1>2. MaxLease \in 0 .. MaxLease
    BY RegistryConstants
  <1>3. (IF previous # NoRow THEN previous.role
         ELSE IF q.role = "superpeer" THEN "superpeer" ELSE "client") \in Roles
    <2>1. previous # NoRow => previous.role \in Roles
      BY RowFields
    <2> QED
      BY <2>1 DEF Roles
  <1>4. (IF row[q.node] # NoRow /\ row[q.node].owner # NoAccount
         THEN row[q.node].owner ELSE q.scope) \in Accounts \cup {NoAccount}
    <2>1. row[q.node] # NoRow => row[q.node].owner \in Accounts \cup {NoAccount}
      BY <1>1, RowFields DEF RowsOK
    <2> QED
      BY <1>1, <2>1
  <1> QED
    BY <1>1, <1>2, <1>3, <1>4 DEF Written, Row

-----------------------------------------------------------------------------
(* The nodes table. *)

\* A step that deletes rows, or changes them in place without touching the
\* address and the owner.
InPlace ==
    /\ takenBack' = takenBack
    /\ row' \in [Nodes -> Row \cup {NoRow}]
    /\ \A n \in Nodes :
         \/ row'[n] = NoRow
         \/ /\ row[n] # NoRow /\ row'[n] # NoRow
            /\ row'[n].ip = row[n].ip /\ row'[n].owner = row[n].owner

\* The actions that write rows.
LEMMA RowWriters ==
    ASSUME [Next]_vars
    PROVE  \/ UNCHANGED <<row, takenBack>>
           \/ \E p \in Processes : BalanceWrite(p)
           \/ \E h \in Handlers : Store(h)
           \/ \E n \in Nodes : Age(n)
           \/ \E n \in Administered : AdminDelete(n)
           \/ AdminWish
  BY DEF Next, RegisterStep, AdminStep, RegisterStart, Lookup, IssueToken, RegisterBalance,
         AdminCleanup, AdminBan, AdminOverride, AdminBalance, AdminUnban, AdminRoleRead,
         Maintenance, Invitation, vars, tables

\* An update of a field other than the address and the owner is in place.
LEMMA UpdateInPlace ==
    ASSUME RowsOK, takenBack' = takenBack, NEW n \in Nodes, row[n] # NoRow, NEW r \in Row,
           row' = [row EXCEPT ![n] = r], r.ip = row[n].ip, r.owner = row[n].owner
    PROVE  InPlace
  <1>1. row' \in [Nodes -> Row \cup {NoRow}]
    BY DEF RowsOK
  <1>2. ASSUME NEW m \in Nodes, row'[m] # NoRow
        PROVE  row[m] # NoRow /\ row'[m].ip = row[m].ip /\ row'[m].owner = row[m].owner
    BY <1>2 DEF RowsOK
  <1> QED
    BY <1>1, <1>2 DEF InPlace

\* Everything but a registration changes rows in place or deletes them.
LEMMA OthersInPlace ==
    ASSUME IInv, [Next]_vars, ~ \E h \in Handlers : Store(h)
    PROVE  InPlace
  <1>1. RowsOK /\ TodoOK /\ TargetOK
    BY TypeParts DEF IInv
  <1>2. CASE UNCHANGED <<row, takenBack>>
    BY <1>1, <1>2 DEF InPlace, RowsOK
  <1>3. ASSUME NEW p \in Processes, BalanceWrite(p) PROVE InPlace
    <2>1. PICK u \in todo[p] :
            row' = IF row[u[1]] = NoRow THEN row ELSE [row EXCEPT ![u[1]].role = u[2]]
      BY <1>3 DEF BalanceWrite
    <2>2. u[1] \in Nodes /\ u[2] \in Roles /\ takenBack' = takenBack
      BY <1>1, <1>3 DEF TodoOK, BalanceWrite
    <2>3. CASE row[u[1]] = NoRow
      BY <1>1, <2>1, <2>2, <2>3 DEF InPlace, RowsOK
    <2>4. CASE row[u[1]] # NoRow
      <3> DEFINE r == [row[u[1]] EXCEPT !.role = u[2]]
      <3>1. row[u[1]] \in Row
        BY <1>1, <2>2, <2>4 DEF RowsOK
      <3>2. r \in Row /\ r.ip = row[u[1]].ip /\ r.owner = row[u[1]].owner
        BY <2>2, <3>1 DEF Row
      <3>3. row' = [row EXCEPT ![u[1]] = r]
        BY <2>1, <2>4
      <3> HIDE DEF r
      <3> QED
        BY <1>1, <2>2, <2>4, <3>2, <3>3, UpdateInPlace
    <2> QED
      BY <2>3, <2>4
  <1>4. ASSUME NEW n \in Nodes, Age(n) PROVE InPlace
    <2> DEFINE r == [row[n] EXCEPT !.lease = @ - 1]
    <2>1. row[n] # NoRow /\ row[n].lease > 0 /\ takenBack' = takenBack
      BY <1>4 DEF Age, Online
    <2>2. row[n] \in Row
      BY <1>1, <2>1 DEF RowsOK
    <2>3. row[n].lease - 1 \in 0 .. MaxLease
      BY <2>1, <2>2, RowFields, RegistryConstants
    <2>4. r \in Row /\ r.ip = row[n].ip /\ r.owner = row[n].owner
      BY <2>2, <2>3 DEF Row
    <2>5. row' = [row EXCEPT ![n] = r]
      BY <1>4 DEF Age
    <2> HIDE DEF r
    <2> QED
      BY <1>1, <2>1, <2>4, <2>5, UpdateInPlace
  <1>5. ASSUME NEW n \in Administered, AdminDelete(n) PROVE InPlace
    BY <1>1, <1>5, RegistryConstants DEF InPlace, RowsOK, AdminDelete
  <1>6. CASE AdminWish
    <2>1. target[1] \in Nodes /\ target[2] \in WishedRoles /\ takenBack' = takenBack
      BY <1>1, <1>6 DEF TargetOK, AdminWish
    <2>2. CASE row[target[1]] = NoRow
      BY <1>1, <1>6, <2>1, <2>2 DEF InPlace, RowsOK, AdminWish
    <2>3. CASE row[target[1]] # NoRow
      <3> DEFINE r == [row[target[1]] EXCEPT !.wished = target[2]]
      <3>1. row[target[1]] \in Row
        BY <1>1, <2>1, <2>3 DEF RowsOK
      <3>2. r \in Row /\ r.ip = row[target[1]].ip /\ r.owner = row[target[1]].owner
        BY <2>1, <3>1 DEF Row
      <3>3. row' = [row EXCEPT ![target[1]] = r]
        BY <1>6, <2>3 DEF AdminWish
      <3> HIDE DEF r
      <3> QED
        BY <1>1, <2>1, <2>3, <3>2, <3>3, UpdateInPlace
    <2> QED
      BY <2>2, <2>3
  <1> QED
    BY <1>2, <1>3, <1>4, <1>5, <1>6, RowWriters

\* A registration that takes an address of the pool, from the offline node that
\* holds it if it had to look for one.
Registers(h, ip, reclaimed) ==
    /\ ip = AddressFor(req[h], prev[h])
    /\ reclaimed \subseteq HoldersOf(ip, req[h].node)
    /\ prev[h] = NoRow \/ ip # prev[h].ip =>
         \/ reclaimed # {}
         \/ HoldersOf(ip, req[h].node) = {}
    /\ Commit(h, ip, reclaimed)

\* The section under registerMu does nothing else.
LEMMA StoreCases ==
    ASSUME TypeOK, NEW h \in Handlers, Store(h)
    PROVE  \/ UNCHANGED <<row, takenBack>>
           \/ \E ip \in Addresses : \E reclaimed \in SUBSET Nodes : Registers(h, ip, reclaimed)
  <1> DEFINE ip == AddressFor(req[h], prev[h])
             holders == IF prev[h] = NoRow \/ ip # prev[h].ip
                        THEN HoldersOf(ip, req[h].node) ELSE {}
  <1>1. req[h] \in Request /\ prev[h] \in Row \cup {NoRow}
    BY TypeParts DEF Store, ReqOK, PrevOK
  <1>2. ip \in Addresses \cup {NoIP}
    BY <1>1, AddressTyped
  <1>3. holders \subseteq HoldersOf(ip, req[h].node) /\ holders \subseteq Nodes
    BY DEF HoldersOf
  <1>4. \/ UNCHANGED <<row, takenBack>>
        \/ ip # NoIP /\ holders = {} /\ Commit(h, ip, {})
        \/ ip # NoIP /\ \E m \in holders : Commit(h, ip, {m})
    BY DEF Store
  <1>5. CASE ip # NoIP /\ holders = {} /\ Commit(h, ip, {})
    <2>1. Registers(h, ip, {})
      BY <1>5 DEF Registers
    <2> QED
      BY <1>2, <1>5, <2>1
  <1>6. ASSUME ip # NoIP, NEW m \in holders, Commit(h, ip, {m})
        PROVE  \E a \in Addresses : \E reclaimed \in SUBSET Nodes : Registers(h, a, reclaimed)
    <2>1. Registers(h, ip, {m})
      BY <1>3, <1>6 DEF Registers
    <2> QED
      BY <1>2, <1>3, <1>6, <2>1
  <1> QED
    BY <1>4, <1>5, <1>6

\* The table after a registration: the node's row is the written one, or it
\* was not written; a reclaimed row has no address, the others are as before.
LEMMA CommitRows ==
    ASSUME TypeOK, NEW h \in Handlers, req[h] \in Request, NEW ip \in Addresses,
           NEW reclaimed \in SUBSET Nodes, Registers(h, ip, reclaimed)
    PROVE  /\ row' \in [Nodes -> Row \cup {NoRow}]
           /\ \A m \in Nodes : m # req[h].node =>
                row'[m] = IF m \in reclaimed THEN [row[m] EXCEPT !.ip = NoIP] ELSE row[m]
           /\ \/ row'[req[h].node] = row[req[h].node]
              \/ row'[req[h].node] = Written(req[h], prev[h], ip)
           /\ \A m \in reclaimed : m # req[h].node /\ row[m] \in Row
  <1> DEFINE n == req[h].node
             released == [m \in Nodes |-> IF m \in reclaimed THEN [row[m] EXCEPT !.ip = NoIP]
                                          ELSE row[m]]
  <1>1. RowsOK /\ n \in Nodes /\ prev[h] \in Row \cup {NoRow}
    BY TypeParts, RequestFields DEF PrevOK
  <1>2. \A m \in reclaimed : m # n /\ row[m] \in Row
    BY <1>1 DEF Registers, HoldersOf, RowsOK
  <1>3. released \in [Nodes -> Row \cup {NoRow}]
    <2>1. ASSUME NEW m \in Nodes PROVE released[m] \in Row \cup {NoRow}
      <3>1. CASE m \in reclaimed
        <4>1. row[m] \in Row
          BY <1>2, <3>1
        <4>2. [row[m] EXCEPT !.ip = NoIP] \in Row
          BY <4>1 DEF Row
        <4> QED
          BY <3>1, <4>2
      <3>2. CASE m \notin reclaimed
        BY <1>1, <3>2 DEF RowsOK
      <3> QED
        BY <3>1, <3>2
    <2> QED
      BY <2>1
  <1>4. Written(req[h], prev[h], ip) \in Row
    BY <1>1, WrittenTyped
  <1>5. row' = released \/ row' = [released EXCEPT ![n] = Written(req[h], prev[h], ip)]
    BY DEF Registers, Commit
  <1>6. row' \in [Nodes -> Row \cup {NoRow}]
    BY <1>1, <1>3, <1>4, <1>5
  <1>7. \A m \in Nodes : m # n => row'[m] = released[m]
    BY <1>5
  <1>8. row'[n] = row[n] \/ row'[n] = Written(req[h], prev[h], ip)
    BY <1>1, <1>2, <1>5
  <1> QED
    BY <1>2, <1>6, <1>7, <1>8

\* The table keeps its type.
LEMMA RowsStep == ASSUME IInv, [Next]_vars PROVE RowsOK'
  <1>1. CASE ~ \E h \in Handlers : Store(h)
    BY <1>1, OthersInPlace DEF InPlace, RowsOK
  <1>2. ASSUME NEW h \in Handlers, Store(h) PROVE RowsOK'
    <2>1. TypeOK /\ RowsOK /\ req[h] \in Request
      BY <1>2, TypeParts DEF IInv, ReqOK, Store
    <2>2. CASE UNCHANGED <<row, takenBack>>
      BY <2>1, <2>2 DEF RowsOK
    <2>3. ASSUME NEW ip \in Addresses, NEW reclaimed \in SUBSET Nodes, Registers(h, ip, reclaimed)
          PROVE  RowsOK'
      BY <2>1, <2>3, CommitRows DEF RowsOK
    <2> QED
      BY <1>2, <2>1, <2>2, <2>3, StoreCases
  <1> QED
    BY <1>1, <1>2

\* A registration keeps the addresses unique.  Of the rows that held the
\* address it takes, one may be reclaimed; if there were more, or if it took
\* the address back unchecked, the address is one of takenBack.
LEMMA RegistersUnique ==
    ASSUME TypeOK, AddressesUnique, NEW h \in Handlers, req[h] \in Request,
           NEW ip \in Addresses, NEW reclaimed \in SUBSET Nodes, Registers(h, ip, reclaimed)
    PROVE  AddressesUnique'
  <1> DEFINE n == req[h].node
  <1>1. RowsOK /\ n \in Nodes /\ ip # NoIP /\ NoIP \notin Addresses
    BY TypeParts, RequestFields, RegistryConstants DEF Addresses, NoIP
  <1>2. takenBack \subseteq takenBack'
    BY DEF Registers, Commit
  <1>3. /\ \A m \in Nodes : m # n =>
             row'[m] = IF m \in reclaimed THEN [row[m] EXCEPT !.ip = NoIP] ELSE row[m]
        /\ row'[n] = row[n] \/ row'[n] = Written(req[h], prev[h], ip)
        /\ \A m \in reclaimed : m # n /\ row[m] \in Row
    BY CommitRows
  <1>4. ASSUME NEW m \in Nodes, m # n, row'[m] # NoRow, row'[m].ip # NoIP
        PROVE  m \notin reclaimed /\ row[m] # NoRow /\ row'[m].ip = row[m].ip
    <2>1. ASSUME m \in reclaimed PROVE FALSE
      <3>1. row[m] \in Row /\ row'[m] = [row[m] EXCEPT !.ip = NoIP]
        BY <1>3, <1>4, <2>1
      <3>2. row'[m].ip = NoIP
        BY <3>1 DEF Row
      <3> QED
        BY <1>4, <3>2
    <2> QED
      BY <1>3, <1>4, <2>1
  <1>5. ASSUME NEW m \in Nodes, m # n, row'[m] # NoRow, row'[n] # NoRow,
               row'[m].ip = row'[n].ip, row'[n].ip # NoIP
        PROVE  row'[n].ip \in takenBack'
    <2>1. m \notin reclaimed /\ row[m] # NoRow /\ row'[m].ip = row[m].ip
      BY <1>4, <1>5
    <2>2. CASE row'[n] = row[n]
      BY <1>1, <1>2, <1>5, <2>1, <2>2 DEF AddressesUnique
    <2>3. CASE row'[n] # row[n]
      <3>1. row'[n] = Written(req[h], prev[h], ip)
        BY <1>3, <2>3
      <3>2. row'[n].ip = ip
        BY <3>1 DEF Written
      <3>3. m \in HoldersOf(ip, n)
        BY <1>5, <2>1, <3>2 DEF HoldersOf
      <3>4. CASE prev[h] = NoRow \/ ip # prev[h].ip
        <4>1. PICK k \in reclaimed : k \in HoldersOf(ip, n)
          BY <3>3, <3>4 DEF Registers
        <4>2. k # m /\ k \in Nodes /\ row[k] # NoRow /\ row[k].ip = row[m].ip
          BY <2>1, <3>3, <4>1 DEF HoldersOf
        <4> QED
          BY <1>1, <1>2, <1>5, <2>1, <3>2, <4>2 DEF AddressesUnique
      <3>5. CASE prev[h] # NoRow /\ ip = prev[h].ip
        <4>1. CASE ip = row[n].ip /\ row[n] # NoRow
          BY <1>1, <1>2, <1>5, <2>1, <3>2, <4>1 DEF AddressesUnique
        <4>2. CASE ip # row[n].ip \/ row[n] = NoRow
          <5>1. (prev[h] = NoRow) = (row[n] = NoRow)
            BY <1>1, <1>3, <2>3 DEF Registers, Commit, HoldersOf, RowsOK
          <5>2. takenBack' = takenBack \cup {ip}
            BY <3>5, <4>2, <5>1 DEF Registers, Commit
          <5> QED
            BY <3>2, <5>2
        <4> QED
          BY <4>1, <4>2
      <3> QED
        BY <3>4, <3>5
    <2> QED
      BY <2>2, <2>3
  <1>6. SUFFICES ASSUME NEW a \in Nodes, NEW b \in Nodes, a # b,
                        row'[a] # NoRow, row'[b] # NoRow, row'[a].ip = row'[b].ip,
                        row'[a].ip # NoIP
                 PROVE  row'[a].ip \in takenBack'
    BY DEF AddressesUnique
  <1>7. CASE a # n /\ b # n
    BY <1>2, <1>4, <1>6, <1>7 DEF AddressesUnique
  <1>8. CASE a = n \/ b = n
    BY <1>5, <1>6, <1>8
  <1> QED
    BY <1>7, <1>8

\* No step makes two nodes share an address that was not taken back.
LEMMA UniqueStep == ASSUME IInv, [Next]_vars PROVE AddressesUnique'
  <1>1. CASE ~ \E h \in Handlers : Store(h)
    BY <1>1, OthersInPlace DEF InPlace, AddressesUnique, IInv
  <1>2. ASSUME NEW h \in Handlers, Store(h) PROVE AddressesUnique'
    <2>1. TypeOK /\ AddressesUnique /\ req[h] \in Request
      BY <1>2, TypeParts DEF IInv, ReqOK, Store
    <2>2. CASE UNCHANGED <<row, takenBack>>
      BY <2>1, <2>2 DEF AddressesUnique
    <2>3. ASSUME NEW ip \in Addresses, NEW reclaimed \in SUBSET Nodes, Registers(h, ip, reclaimed)
          PROVE  AddressesUnique'
      BY <2>1, <2>3, RegistersUnique
    <2> QED
      BY <1>2, <2>1, <2>2, <2>3, StoreCases
  <1> QED
    BY <1>1, <1>2

-----------------------------------------------------------------------------
(* The processes. *)

\* Where a handler goes after the row is written.
LEMMA AfterStoreTyped ==
    ASSUME NEW q, NEW previous
    PROVE  AfterStore(q, previous) \in {"token", "lastToken", "balance", "idle"}
  BY DEF AfterStore

\* The section under registerMu ends there, or the request is over.
LEMMA StorePc ==
    ASSUME NEW h \in Handlers, Store(h)
    PROVE  \E next \in {"token", "lastToken", "balance", "idle"} : pc' = [pc EXCEPT ![h] = next]
  BY AfterStoreTyped DEF Store, Commit

\* The names of the processes are different.
LEMMA ProcessNames ==
    /\ Handlers \subseteq Processes
    /\ "admin" \in Processes /\ "maintenance" \in Processes
    /\ "admin" \notin Handlers /\ "maintenance" \notin Handlers
  BY RegistryConstants DEF Processes

\* The actions, one per disjunct of Next.
LEMMA Actions ==
    ASSUME [Next]_vars
    PROVE  \/ UNCHANGED vars
           \/ \E h \in Handlers, q \in Requests : RegisterStart(h, q)
           \/ \E h \in Handlers : Lookup(h)
           \/ \E h \in Handlers : Store(h)
           \/ \E h \in Handlers : IssueToken(h)
           \/ \E h \in Handlers : RegisterBalance(h)
           \/ \E n \in Nodes : Age(n)
           \/ \E n \in Administered : AdminDelete(n)
           \/ \E n \in Administered : AdminUnban(n)
           \/ \E n \in Administered, role \in NewRoles, account \in Accounts \cup {NoAccount} :
                AdminRoleRead(n, role, account)
           \/ AdminCleanup \/ AdminBan \/ AdminOverride \/ AdminWish \/ AdminBalance
           \/ Maintenance
           \/ \E p \in Processes : BalanceWrite(p)
           \/ Invitation
  BY DEF Next, RegisterStep, AdminStep

\* The tables besides that of the nodes.
LEMMA TablesStep == ASSUME IInv, [Next]_vars PROVE TablesOK'
  <1> USE DEF TablesOK
  <1>1. TablesOK /\ ReqOK /\ TargetOK
    BY TypeParts DEF IInv
  <1>2. ASSUME NEW h \in Handlers, IssueToken(h) PROVE TablesOK'
    <2>1. req[h] \in Request
      BY <1>1, <1>2 DEF ReqOK, IssueToken
    <2> QED
      BY <1>1, <1>2, <2>1, RequestFields DEF IssueToken
  <1>3. ASSUME NEW n \in Administered,
               AdminDelete(n) \/ \E role \in NewRoles, account \in Accounts \cup {NoAccount} :
                                   AdminRoleRead(n, role, account)
        PROVE  TablesOK'
    <2>1. UNCHANGED <<override, tokens, banned, invite, invites>>
      BY <1>3 DEF AdminDelete, AdminRoleRead, tables
    <2>2. adminOps < MaxAdminOps /\ adminOps' = adminOps + 1
      BY <1>3 DEF AdminDelete, AdminRoleRead, AdminBegins
    <2>3. adminOps' \in 0 .. MaxAdminOps
      BY <1>1, <2>2, RegistryConstants
    <2> QED
      BY <1>1, <2>1, <2>3
  <1>4. ASSUME NEW n \in Administered, AdminUnban(n) PROVE TablesOK'
    BY <1>1, <1>4 DEF AdminUnban
  <1>5. CASE AdminCleanup \/ AdminBan
    BY <1>1, <1>5 DEF AdminCleanup, AdminBan, TargetOK
  <1>6. CASE AdminOverride
    BY <1>1, <1>6 DEF AdminOverride, TargetOK
  <1>7. CASE Invitation
    BY <1>1, <1>7, RegistryConstants
       DEF Invitation, AdminInvite, ConsumeInvite, InviteTimesOut
  <1>8. CASE UNCHANGED <<override, tokens, banned, invite, invites, adminOps>>
    BY <1>1, <1>8
  <1>9. CASE \/ UNCHANGED vars
             \/ \E h \in Handlers : \/ Lookup(h) \/ Store(h) \/ RegisterBalance(h)
                                    \/ \E q \in Requests : RegisterStart(h, q)
             \/ \E n \in Nodes : Age(n)
             \/ AdminWish \/ AdminBalance \/ Maintenance
             \/ \E p \in Processes : BalanceWrite(p)
    BY <1>8, <1>9 DEF Lookup, Store, RegisterBalance, RegisterStart, Age, AdminWish,
                      AdminBalance, Maintenance, BalanceWrite, vars, tables
  <1> QED
    BY <1>2, <1>3, <1>4, <1>5, <1>6, <1>7, <1>9, Actions

\* Where the processes are.
LEMMA PcStep == ASSUME IInv, [Next]_vars PROVE PcOK'
  <1>1. PcOK
    BY TypeParts DEF IInv
  <1>2. ASSUME NEW h \in Handlers, Store(h) PROVE PcOK'
    BY <1>1, <1>2, StorePc DEF PcOK
  <1>3. ASSUME NEW h \in Handlers,
               \/ Lookup(h) \/ IssueToken(h) \/ RegisterBalance(h)
               \/ \E q \in Requests : RegisterStart(h, q)
        PROVE  PcOK'
    BY <1>1, <1>3 DEF PcOK, Lookup, IssueToken, RegisterBalance, BalanceRead, RegisterStart
  <1>4. CASE \/ AdminCleanup \/ AdminBan \/ AdminOverride \/ AdminWish \/ AdminBalance
             \/ Maintenance \/ \E p \in Processes : BalanceWrite(p)
    BY <1>1, <1>4 DEF PcOK, AdminCleanup, AdminBan, AdminOverride, AdminWish, AdminBalance,
                      Maintenance, BalanceRead, BalanceWrite
  <1>5. ASSUME NEW n \in Administered,
               AdminDelete(n) \/ \E role \in NewRoles, account \in Accounts \cup {NoAccount} :
                                   AdminRoleRead(n, role, account)
        PROVE  PcOK'
    BY <1>1, <1>5 DEF PcOK, AdminDelete, AdminRoleRead, AdminBegins
  <1>6. CASE \/ UNCHANGED vars
             \/ \E n \in Nodes : Age(n)
             \/ \E n \in Administered : AdminUnban(n)
             \/ Invitation
    BY <1>1, <1>6 DEF PcOK, Age, AdminUnban, Invitation, vars
  <1> QED
    BY <1>2, <1>3, <1>4, <1>5, <1>6, Actions

\* A request that is under way is there.
LEMMA ReqStep == ASSUME IInv, [Next]_vars PROVE ReqOK'
  <1>1. ReqOK /\ PcOK /\ RowsOK /\ TablesOK
    BY TypeParts DEF IInv
  <1>2. ASSUME NEW h \in Handlers, NEW q \in Requests, RegisterStart(h, q) PROVE ReqOK'
    <2>1. q \in Request /\ q # NoRequest
      BY RequestFields, RegistryConstants
    <2> QED
      BY <1>1, <1>2, <2>1, ProcessNames DEF ReqOK, PcOK, RegisterStart
  <1>3. ASSUME NEW h \in Handlers, Lookup(h) PROVE ReqOK'
    <2> DEFINE role == WishedRole(req[h].node, req[h].role)
               q == [req[h] EXCEPT !.role = role]
    <2>1. req[h] \in Request
      BY <1>1, <1>3 DEF ReqOK, Lookup
    <2>2. role \in WishedRoles
      <3>1. req[h].node \in Nodes /\ req[h].role \in WishedRoles
        BY <2>1, RequestFields
      <3> QED
        BY <1>1, <3>1 DEF WishedRole, TablesOK
    <2>3. q \in Request
      BY <2>1, <2>2 DEF Request
    <2>4. \/ pc' = [pc EXCEPT ![h] = "idle"] /\ req' = [req EXCEPT ![h] = NoRequest]
          \/ pc' = [pc EXCEPT ![h] = "store"] /\ req' = [req EXCEPT ![h] = q]
      BY <1>3 DEF Lookup
    <2> HIDE DEF q
    <2>5. q # NoRequest
      BY <2>3, RequestFields
    <2> QED
      BY <1>1, <2>3, <2>4, <2>5, ProcessNames DEF ReqOK, PcOK
  <1>4. ASSUME NEW h \in Handlers, Store(h) PROVE ReqOK'
    <2>1. PICK next \in {"token", "lastToken", "balance", "idle"} : pc' = [pc EXCEPT ![h] = next]
      BY <1>4, StorePc
    <2>2. req' = [req EXCEPT ![h] = IF pc'[h] = "idle" THEN NoRequest ELSE @]
      BY <1>4 DEF Store
    <2>3. req[h] # NoRequest
      BY <1>1, <1>4 DEF ReqOK, Store
    <2> QED
      BY <1>1, <2>1, <2>2, <2>3, ProcessNames DEF ReqOK, PcOK
  <1>5. ASSUME NEW h \in Handlers, IssueToken(h) \/ RegisterBalance(h) PROVE ReqOK'
    BY <1>1, <1>5, ProcessNames DEF ReqOK, PcOK, IssueToken, RegisterBalance, BalanceRead
  <1>6. ASSUME req' = req, NEW p \in Processes, p \notin Handlers,
               NEW next, pc' = [pc EXCEPT ![p] = next]
        PROVE  ReqOK'
    BY <1>1, <1>6, ProcessNames DEF ReqOK, PcOK
  <1>7. CASE AdminCleanup \/ AdminBan \/ AdminOverride \/ AdminWish \/ AdminBalance \/ Maintenance
    BY <1>6, <1>7, ProcessNames DEF AdminCleanup, AdminBan, AdminOverride, AdminWish,
       AdminBalance, Maintenance, BalanceRead
  <1>8. ASSUME NEW n \in Administered,
               AdminDelete(n) \/ \E role \in NewRoles, account \in Accounts \cup {NoAccount} :
                                   AdminRoleRead(n, role, account)
        PROVE  ReqOK'
    BY <1>6, <1>8, ProcessNames DEF AdminDelete, AdminRoleRead, AdminBegins
  <1>9. ASSUME NEW p \in Processes, BalanceWrite(p) PROVE ReqOK'
    <2>1. PICK next \in {"idle", "writing"} : pc' = [pc EXCEPT ![p] = next]
      BY <1>9 DEF BalanceWrite
    <2>2. req' = req
      BY <1>9 DEF BalanceWrite
    <2> QED
      BY <1>1, <2>1, <2>2, ProcessNames DEF ReqOK, PcOK
  <1>10. CASE \/ UNCHANGED vars
              \/ \E n \in Nodes : Age(n)
              \/ \E n \in Administered : AdminUnban(n)
              \/ Invitation
    BY <1>1, <1>10 DEF ReqOK, Age, AdminUnban, Invitation, vars
  <1> QED
    BY <1>2, <1>3, <1>4, <1>5, <1>7, <1>8, <1>9, <1>10, Actions

\* A handler has read a row or none.
LEMMA PrevStep == ASSUME IInv, [Next]_vars PROVE PrevOK'
  <1>1. PrevOK /\ RowsOK /\ ReqOK
    BY TypeParts DEF IInv
  <1>2. ASSUME NEW h \in Handlers, Lookup(h) PROVE PrevOK'
    <2>1. req[h].node \in Nodes
      BY <1>1, <1>2, RequestFields DEF ReqOK, Lookup
    <2>2. prev' = [prev EXCEPT ![h] = NoRow] \/ prev' = [prev EXCEPT ![h] = row[req[h].node]]
      BY <1>2 DEF Lookup
    <2> QED
      BY <1>1, <2>1, <2>2 DEF PrevOK, RowsOK
  <1>3. ASSUME NEW h \in Handlers, Store(h) PROVE PrevOK'
    BY <1>1, <1>3 DEF PrevOK, Store
  <1>4. ASSUME ~ \E h \in Handlers : Lookup(h) \/ Store(h) PROVE prev' = prev
    BY <1>4, Actions DEF RegisterStart, IssueToken, RegisterBalance, Age, AdminDelete, AdminUnban,
       AdminRoleRead, AdminCleanup, AdminBan, AdminOverride, AdminWish, AdminBalance,
       Maintenance, BalanceWrite, Invitation, vars
  <1> QED
    BY <1>1, <1>2, <1>3, <1>4 DEF PrevOK

\* A process writes roles exactly while it has roles to write.
LEMMA TodoStep == ASSUME IInv, [Next]_vars PROVE TodoOK'
  <1>1. TodoOK /\ PcOK
    BY TypeParts DEF IInv
  <1>2. ASSUME NEW p \in Processes, NEW account, BalanceRead(p, account) PROVE TodoOK'
    BY <1>1, <1>2, UpdatesTyped DEF TodoOK, PcOK, BalanceRead
  <1>3. ASSUME NEW p \in Processes, BalanceWrite(p) PROVE TodoOK'
    BY <1>1, <1>3 DEF TodoOK, PcOK, BalanceWrite
  <1>4. ASSUME todo' = todo, NEW p \in Processes, pc[p] # "writing", NEW next, next # "writing",
               pc' = [pc EXCEPT ![p] = next]
        PROVE  TodoOK'
    BY <1>1, <1>4 DEF TodoOK, PcOK
  <1>5. ASSUME NEW h \in Handlers, Store(h) PROVE TodoOK'
    <2>1. PICK next \in {"token", "lastToken", "balance", "idle"} : pc' = [pc EXCEPT ![h] = next]
      BY <1>5, StorePc
    <2>2. todo' = todo /\ pc[h] = "store"
      BY <1>5 DEF Store
    <2> QED
      BY <1>4, <2>1, <2>2, ProcessNames
  <1>6. ASSUME NEW h \in Handlers,
               Lookup(h) \/ IssueToken(h) \/ \E q \in Requests : RegisterStart(h, q)
        PROVE  TodoOK'
    <2>1. PICK next \in {"idle", "lookup", "store", "balance"} : pc' = [pc EXCEPT ![h] = next]
      BY <1>6 DEF Lookup, IssueToken, RegisterStart
    <2>2. todo' = todo /\ pc[h] # "writing"
      BY <1>6 DEF Lookup, IssueToken, RegisterStart
    <2> QED
      BY <1>4, <2>1, <2>2, ProcessNames
  <1>7. CASE AdminCleanup \/ AdminBan \/ AdminOverride \/ AdminWish
    <2>1. PICK next \in {"ban", "idle", "wish", "balance"} : pc' = [pc EXCEPT !["admin"] = next]
      BY <1>7 DEF AdminCleanup, AdminBan, AdminOverride, AdminWish
    <2>2. todo' = todo /\ pc["admin"] # "writing"
      BY <1>7 DEF AdminCleanup, AdminBan, AdminOverride, AdminWish
    <2> QED
      BY <1>4, <2>1, <2>2, ProcessNames
  <1>8. ASSUME NEW n \in Administered,
               AdminDelete(n) \/ \E role \in NewRoles, account \in Accounts \cup {NoAccount} :
                                   AdminRoleRead(n, role, account)
        PROVE  TodoOK'
    <2>1. PICK next \in {"cleanup", "override"} : pc' = [pc EXCEPT !["admin"] = next]
      BY <1>8 DEF AdminDelete, AdminRoleRead, AdminBegins
    <2>2. todo' = todo /\ pc["admin"] # "writing"
      BY <1>8 DEF AdminDelete, AdminRoleRead, AdminBegins
    <2> QED
      BY <1>4, <2>1, <2>2, ProcessNames
  <1>9. CASE \/ AdminBalance \/ Maintenance \/ \E h \in Handlers : RegisterBalance(h)
    BY <1>2, <1>9, ProcessNames DEF AdminBalance, Maintenance, RegisterBalance
  <1>10. CASE \/ UNCHANGED vars
              \/ \E n \in Nodes : Age(n)
              \/ \E n \in Administered : AdminUnban(n)
              \/ Invitation
    BY <1>1, <1>10 DEF TodoOK, Age, AdminUnban, Invitation, vars
  <1> QED
    BY <1>3, <1>5, <1>6, <1>7, <1>8, <1>9, <1>10, Actions

\* The administrator keeps its target until the operation is over.
LEMMA TargetStep == ASSUME IInv, [Next]_vars PROVE TargetTyped' /\ TargetOK'
  <1>1. TargetTyped /\ TargetOK /\ PcOK
    BY TypeParts DEF IInv
  <1>2. ASSUME NEW n \in Administered, AdminDelete(n) PROVE TargetTyped' /\ TargetOK'
    <2>1. target' = <<n>> /\ n \in Nodes /\ pc'["admin"] = "cleanup"
      BY <1>1, <1>2, ProcessNames, RegistryConstants DEF AdminDelete, AdminBegins, PcOK
    <2> QED
      BY <2>1 DEF TargetTyped, TargetOK
  <1>3. ASSUME NEW n \in Administered, NEW role \in NewRoles,
               NEW account \in Accounts \cup {NoAccount}, AdminRoleRead(n, role, account)
        PROVE  TargetTyped' /\ TargetOK'
    <2>1. target' = <<n, role, account>> /\ pc'["admin"] = "override"
      BY <1>1, <1>3, ProcessNames DEF AdminRoleRead, AdminBegins, PcOK
    <2>2. <<n, role, account>> \in Nodes \X WishedRoles \X (Accounts \cup {NoAccount})
      BY RegistryConstants
    <2> QED
      BY <2>1, <2>2 DEF TargetTyped, TargetOK
  <1>4. CASE AdminCleanup \/ AdminOverride \/ AdminWish
    <2>1. /\ target' = target
          /\ \/ pc["admin"] = "cleanup" /\ pc'["admin"] = "ban"
             \/ pc["admin"] = "override" /\ pc'["admin"] = "wish"
             \/ pc["admin"] = "wish" /\ pc'["admin"] = "balance"
      BY <1>1, <1>4, ProcessNames DEF AdminCleanup, AdminOverride, AdminWish, PcOK
    <2> QED
      BY <1>1, <2>1 DEF TargetTyped, TargetOK
  <1>5. CASE AdminBan \/ AdminBalance
    <2>1. target' = <<>> /\ pc'["admin"] \in {"idle", "writing"}
      BY <1>1, <1>5, ProcessNames DEF AdminBan, AdminBalance, BalanceRead, PcOK
    <2> QED
      BY <2>1 DEF TargetTyped, TargetOK
  <1>6. ASSUME NEW p \in Processes, BalanceWrite(p) PROVE TargetTyped' /\ TargetOK'
    <2>1. target' = target /\ (pc'["admin"] = pc["admin"] \/ pc'["admin"] \in {"idle", "writing"})
      BY <1>1, <1>6, ProcessNames DEF BalanceWrite, PcOK
    <2> QED
      BY <1>1, <2>1 DEF TargetTyped, TargetOK
  <1>7. ASSUME target' = target, pc'["admin"] = pc["admin"] PROVE TargetTyped' /\ TargetOK'
    BY <1>1, <1>7 DEF TargetTyped, TargetOK
  <1>8. ASSUME NEW h \in Handlers,
               \/ Lookup(h) \/ Store(h) \/ IssueToken(h) \/ RegisterBalance(h)
               \/ \E q \in Requests : RegisterStart(h, q)
        PROVE  TargetTyped' /\ TargetOK'
    <2>1. target' = target
      BY <1>8 DEF Lookup, Store, IssueToken, RegisterBalance, RegisterStart
    <2>2. \E next : pc' = [pc EXCEPT ![h] = next]
      BY <1>8, StorePc DEF Lookup, IssueToken, RegisterBalance, BalanceRead, RegisterStart
    <2> QED
      BY <1>1, <1>7, <2>1, <2>2, ProcessNames DEF PcOK
  <1>9. CASE Maintenance
    <2>1. target' = target /\ \E next : pc' = [pc EXCEPT !["maintenance"] = next]
      BY <1>9 DEF Maintenance, BalanceRead
    <2> QED
      BY <1>1, <1>7, <2>1, ProcessNames DEF PcOK
  <1>10. CASE \/ UNCHANGED vars
              \/ \E n \in Nodes : Age(n)
              \/ \E n \in Administered : AdminUnban(n)
              \/ Invitation
    BY <1>7, <1>10 DEF Age, AdminUnban, Invitation, vars
  <1> QED
    BY <1>2, <1>3, <1>4, <1>5, <1>6, <1>8, <1>9, <1>10, Actions

\* Only addresses of the pool are taken back.
LEMMA TakenBackStep == ASSUME IInv, [Next]_vars PROVE takenBack' \subseteq Addresses
  <1>1. TypeOK /\ takenBack \subseteq Addresses
    BY TypeParts DEF IInv
  <1>2. CASE ~ \E h \in Handlers : Store(h)
    BY <1>1, <1>2, OthersInPlace DEF InPlace
  <1>3. ASSUME NEW h \in Handlers, Store(h) PROVE takenBack' \subseteq Addresses
    <2>1. ASSUME NEW ip \in Addresses, NEW reclaimed \in SUBSET Nodes, Registers(h, ip, reclaimed)
          PROVE  takenBack' \subseteq Addresses
      BY <1>1, <2>1 DEF Registers, Commit
    <2> QED
      BY <1>1, <1>3, <2>1, StoreCases
  <1> QED
    BY <1>2, <1>3

-----------------------------------------------------------------------------
(* The theorems. *)

\* An empty registry satisfies the invariant.
LEMMA RegistryInit == Init => IInv
  <1> SUFFICES ASSUME Init PROVE IInv
    OBVIOUS
  <1>1. RowsOK /\ PrevOK /\ ReqOK /\ TodoOK /\ PcOK
    BY ProcessNames DEF Init, RowsOK, PrevOK, ReqOK, TodoOK, PcOK
  <1>2. TablesOK /\ TargetTyped /\ takenBack \subseteq Addresses
    BY RegistryConstants DEF Init, TablesOK, TargetTyped
  <1>3. TargetOK
    BY ProcessNames DEF Init, TargetOK
  <1>4. AddressesUnique
    BY DEF Init, AddressesUnique
  <1> QED
    BY <1>1, <1>2, <1>3, <1>4, TypeParts DEF IInv

\* Every step preserves it.
LEMMA RegistryStep == IInv /\ [Next]_vars => IInv'
  <1> SUFFICES ASSUME IInv, [Next]_vars PROVE IInv'
    OBVIOUS
  <1>1. RowsOK' /\ TablesOK' /\ PcOK' /\ ReqOK' /\ PrevOK' /\ TodoOK' /\ TargetTyped' /\ TargetOK'
    BY RowsStep, TablesStep, PcStep, ReqStep, PrevStep, TodoStep, TargetStep
  <1>2. takenBack' \subseteq Addresses /\ AddressesUnique'
    BY TakenBackStep, UniqueStep
  <1>3. TypeOK'
    BY <1>1, <1>2 DEF TypeOK, RowsOK, TablesOK, PcOK, ReqOK, PrevOK, TodoOK, TargetTyped
  <1> QED
    BY <1>1, <1>2, <1>3 DEF IInv

\* The invariant holds in every state the registry reaches.
THEOREM RegistryInvariant == Spec => []IInv
  BY RegistryInit, RegistryStep, PTL DEF Spec

\* Type correctness: tables, requests and role updates hold what the code can
\* put there, whatever registrations, removals and rebalancings interleave.
THEOREM RegistryTypeCorrect == Spec => []TypeOK
  <1>1. IInv => TypeOK
    BY DEF IInv
  <1> QED
    BY <1>1, RegistryInvariant, PTL

\* Two nodes share a mesh address only when a registration has written one that
\* it had read from its row before another node reclaimed it.
THEOREM UniqueAddresses == Spec => []AddressesUnique
  <1>1. IInv => AddressesUnique
    BY DEF IInv
  <1> QED
    BY <1>1, RegistryInvariant, PTL

\* The row a registration writes keeps the owner it finds.
LEMMA OwnerStep ==
    IInv /\ [Next]_vars =>
      \A n \in Nodes : row[n] # NoRow /\ row'[n] # NoRow /\ row[n].owner # NoAccount
        => row'[n].owner = row[n].owner
  <1> SUFFICES ASSUME IInv, [Next]_vars, NEW n \in Nodes,
                      row[n] # NoRow, row'[n] # NoRow, row[n].owner # NoAccount
               PROVE  row'[n].owner = row[n].owner
    OBVIOUS
  <1>1. CASE ~ \E h \in Handlers : Store(h)
    BY <1>1, OthersInPlace DEF InPlace
  <1>2. ASSUME NEW h \in Handlers, Store(h) PROVE row'[n].owner = row[n].owner
    <2>1. TypeOK /\ RowsOK /\ req[h] \in Request
      BY <1>2, TypeParts DEF IInv, ReqOK, Store
    <2>2. ASSUME NEW ip \in Addresses, NEW reclaimed \in SUBSET Nodes, Registers(h, ip, reclaimed)
          PROVE  row'[n].owner = row[n].owner
      <3>1. CASE n = req[h].node
        <4>1. row'[n] = row[n] \/ row'[n] = Written(req[h], prev[h], ip)
          BY <2>1, <2>2, <3>1, CommitRows
        <4>2. Written(req[h], prev[h], ip).owner = row[n].owner
          BY <3>1 DEF Written
        <4> QED
          BY <4>1, <4>2
      <3>2. CASE n # req[h].node
        <4>1. row'[n] = IF n \in reclaimed THEN [row[n] EXCEPT !.ip = NoIP] ELSE row[n]
          BY <2>1, <2>2, <3>2, CommitRows
        <4>2. row[n] \in Row
          BY <2>1 DEF RowsOK
        <4>3. [row[n] EXCEPT !.ip = NoIP].owner = row[n].owner
          BY <4>2 DEF Row
        <4> QED
          BY <4>1, <4>3
      <3> QED
        BY <3>1, <3>2
    <2> QED
      BY <1>2, <2>1, <2>2, StoreCases
  <1> QED
    BY <1>1, <1>2

\* A node that belongs to an account is never moved to another.
THEOREM OwnersKept == Spec => OwnershipIsKept
  <1>1. IInv /\ [Next]_vars =>
          [\A n \in Nodes : row[n] # NoRow /\ row'[n] # NoRow /\ row[n].owner # NoAccount
             => row'[n].owner = row[n].owner]_vars
    BY OwnerStep
  <1> QED
    BY <1>1, RegistryInvariant, PTL DEF Spec, OwnershipIsKept
=============================================================================
