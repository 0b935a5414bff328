-------------------------- MODULE NodeManager_proofs --------------------------
(***************************************************************************)
(* For any number of sessions, nodes, keys and ids.  First the registry of *)
(* nodes: what it guarantees to callers that keep to its contract.  Then   *)
(* the daemon as its user, which keeps to the contract if its clients do.  *)
(***************************************************************************)
EXTENDS APISession_proofs

\* The containers and the fields of the nodes keep their types under every
\* operation of the NodeManager, whatever the callers do.
THEOREM DBTypeCorrect == DBSpec => []DBTypeOK
<1> USE NodeManagerAssumption
<1>1. DBInit => DBTypeOK
  BY DEF DBInit, DBTypeOK, Fate
<1>2. DBTypeOK /\ [DBNext]_dbVars => DBTypeOK'
  <2> SUFFICES ASSUME DBTypeOK, [DBNext]_dbVars
               PROVE  DBTypeOK'
    OBVIOUS
  <2> USE DEF DBTypeOK, Fate
  <2>1. ASSUME NEW n \in Node, createNode(n)
        PROVE  DBTypeOK'
    BY <2>1 DEF createNode
  <2>2. ASSUME NEW n \in live, NEW sh \in SH, bind(n, sh)
        PROVE  DBTypeOK'
    BY <2>2 DEF bind, bindNode, Insert, Erase
  <2>3. ASSUME NEW n \in live, destroyNode(n)
        PROVE  DBTypeOK'
    BY <2>3 DEF destroyNode, delete, Erase
  <2>4. CASE UNCHANGED dbVars
    BY <2>4 DEF dbVars
  <2>5. QED
    BY <2>1, <2>2, <2>3, <2>4 DEF DBNext
<1>3. QED
  BY <1>1, <1>2, PTL DEF DBSpec

-----------------------------------------------------------------------------
\* The nodes nobody has called bind() on are exactly the members of
\* nodes_unbound.
UnboundExact == nodes_unbound = {n \in live : bound_sh[n] = Null}

\* If no caller binds a node twice, nodes_bound never leads to a deleted node
\* or to one bound to another key, even when callers share keys.  Invariant of
\* the proof: UnboundExact, because it makes a bind() of a node outside
\* nodes_unbound impossible.
THEOREM NoDanglingWithoutRebind == ~Rebind => (DBSpec => []NoDanglingBound)
<1> SUFFICES ASSUME ~Rebind
             PROVE  DBSpec => []NoDanglingBound
  OBVIOUS
<1> USE NodeManagerAssumption
<1>1. DBInit => UnboundExact /\ NoDanglingBound
  BY DEF DBInit, UnboundExact, NoDanglingBound, getBoundNode
<1>2. DBTypeOK /\ UnboundExact /\ NoDanglingBound /\ [DBNext]_dbVars
        => (UnboundExact /\ NoDanglingBound)'
  <2> SUFFICES ASSUME DBTypeOK, UnboundExact, NoDanglingBound, [DBNext]_dbVars
               PROVE  (UnboundExact /\ NoDanglingBound)'
    OBVIOUS
  <2> USE DEF DBTypeOK, UnboundExact, NoDanglingBound, getBoundNode
  <2>1. ASSUME NEW n \in Node, createNode(n)
        PROVE  (UnboundExact /\ NoDanglingBound)'
    BY <2>1 DEF createNode
  <2>2. ASSUME NEW n \in live, NEW sh \in SH, MayBind(n, sh), bind(n, sh)
        PROVE  (UnboundExact /\ NoDanglingBound)'
    <3>1. n \in nodes_unbound
      BY <2>2 DEF MayBind
    <3>2. nodes_bound' = Insert(nodes_bound, sh, n) /\ nodes_unbound' = nodes_unbound \ {n}
      BY <2>2, <3>1 DEF bind, bindNode
    <3>3. QED
      BY <2>2, <3>1, <3>2 DEF bind, Insert
  <2>3. ASSUME NEW n \in live, destroyNode(n)
        PROVE  (UnboundExact /\ NoDanglingBound)'
    BY <2>3 DEF destroyNode, delete, Erase
  <2>4. CASE UNCHANGED dbVars
    BY <2>4 DEF dbVars
  <2>5. QED
    BY <2>1, <2>2, <2>3, <2>4 DEF DBNext
<1>3. QED
  BY <1>1, <1>2, DBTypeCorrect, PTL DEF DBSpec

\* If no caller binds a key that another live node is bound to, the registry
\* is consistent until bindNode() throws: DBConsistent is inductive.
THEOREM ConsistentWithoutSharing == ~SharedKeys => (DBSpec => []DBConsistent)
<1> SUFFICES ASSUME ~SharedKeys
             PROVE  DBSpec => []DBConsistent
  OBVIOUS
<1> USE NodeManagerAssumption
<1> USE DEF DBConsistent, NeverInconsistent, NoDanglingBound, BoundNodesFindable, getBoundNode
<1>1. DBInit => DBConsistent
  BY DEF DBInit
<1>2. DBTypeOK /\ DBConsistent /\ [DBNext]_dbVars => DBConsistent'
  <2> SUFFICES ASSUME DBTypeOK, DBConsistent, [DBNext]_dbVars
               PROVE  DBConsistent'
    OBVIOUS
  <2> USE DEF DBTypeOK
  <2>1. ASSUME fate = "running", NEW n \in Node, createNode(n)
        PROVE  DBConsistent'
    BY <2>1 DEF createNode
  <2>2. ASSUME fate = "running", NEW n \in live, NEW sh \in SH, MayBind(n, sh), bind(n, sh)
        PROVE  DBConsistent'
    BY <2>2 DEF MayBind, bind, bindNode, Insert, Erase
  <2>3. ASSUME fate = "running", NEW n \in live, destroyNode(n)
        PROVE  DBConsistent'
    BY <2>3 DEF destroyNode, delete, Erase
  <2>4. CASE UNCHANGED dbVars
    BY <2>4 DEF dbVars
  <2>5. QED
    BY <2>1, <2>2, <2>3, <2>4 DEF DBNext
<1>3. QED
  BY <1>1, <1>2, DBTypeCorrect, PTL DEF DBSpec

\* Callers that bind every node at most once, to a key no other live node has,
\* never make the NodeManager throw nodemanager_db_non_consistent.
THEOREM ContractNeverThrows ==
  ~Rebind /\ ~SharedKeys => (DBSpec => []NeverInconsistent)
<1> SUFFICES ASSUME ~Rebind, ~SharedKeys
             PROVE  DBSpec => []NeverInconsistent
  OBVIOUS
<1> USE NodeManagerAssumption
<1>1. DBInit => NeverInconsistent
  BY DEF DBInit, NeverInconsistent
<1>2. DBTypeOK /\ DBConsistent /\ NeverInconsistent /\ [DBNext]_dbVars => NeverInconsistent'
  <2> SUFFICES ASSUME DBTypeOK, DBConsistent, NeverInconsistent, [DBNext]_dbVars
               PROVE  NeverInconsistent'
    OBVIOUS
  <2> USE DEF DBTypeOK, DBConsistent, NeverInconsistent, BoundNodesFindable, getBoundNode
  <2>1. ASSUME NEW n \in Node, createNode(n)
        PROVE  NeverInconsistent'
    BY <2>1 DEF createNode
  <2>2. ASSUME NEW n \in live, NEW sh \in SH, MayBind(n, sh), bind(n, sh)
        PROVE  NeverInconsistent'
    BY <2>2 DEF MayBind, bind, bindNode
  <2>3. ASSUME NEW n \in live, destroyNode(n)
        PROVE  NeverInconsistent'
    BY <2>3 DEF destroyNode
  <2>4. CASE UNCHANGED dbVars
    BY <2>4 DEF dbVars
  <2>5. QED
    BY <2>1, <2>2, <2>3, <2>4 DEF DBNext
<1>3. QED
  BY <1>1, <1>2, DBTypeCorrect, ConsistentWithoutSharing, PTL DEF DBSpec

-----------------------------------------------------------------------------
(***************************************************************************)
(* The daemon keeps to the contract of the registry if its clients do.     *)
(***************************************************************************)

\* A request that binds a node to a key.
BindsKey(m) == m.type = "NODE_BIND" /\ m.sh # Null

\* A session that is gone has no request under way.
GoneQuiet == \A s \in Session \ sessions : requests[s] = <<>> /\ ~peer_open[s]

\* What MayRequestBind() was asked for a request under way still holds when the
\* daemon gets to it, although nodes are registered, unregistered and bound in
\* between: the node is not bound, and no other request binds it ...
BoundOnce ==
  \A s \in Session : \A p \in DOMAIN requests[s] : BindsKey(requests[s][p]) =>
    LET i == requests[s][p].node_id IN
    /\ i \in Registered(nodes[s]) => bound_sh[nodes[s][i]] = Null
    /\ \A q \in DOMAIN requests[s] : BindsKey(requests[s][q]) /\ requests[s][q].node_id = i => q = p

\* ... and no node is bound to the key, or will be by another request.
KeysApart ==
  \A s \in Session : \A p \in DOMAIN requests[s] : BindsKey(requests[s][p]) =>
    LET sh == requests[s][p].sh IN
    /\ \A n \in live : bound_sh[n] # sh
    /\ \A t \in Session : \A q \in DOMAIN requests[t] :
         BindsKey(requests[t][q]) /\ requests[t][q].sh = sh => t = s /\ q = p

ContractInv ==
  Running => GoneQuiet /\ (~Rebind => BoundOnce) /\ (~SharedKeys => KeysApart)

\* The two, of one request under way ...
LEMMA BoundOnceNow ==
  ASSUME BoundOnce, NEW s \in Session, NEW p \in DOMAIN requests[s], BindsKey(requests[s][p])
  PROVE  \A i : i = requests[s][p].node_id =>
           /\ i \in Registered(nodes[s]) => bound_sh[nodes[s][i]] = Null
           /\ \A q \in DOMAIN requests[s] : BindsKey(requests[s][q]) /\ requests[s][q].node_id = i => q = p
BY DEF BoundOnce

LEMMA KeysApartNow ==
  ASSUME KeysApart, NEW s \in Session, NEW p \in DOMAIN requests[s], BindsKey(requests[s][p])
  PROVE  \A sh : sh = requests[s][p].sh =>
           /\ \A n \in live : bound_sh[n] # sh
           /\ \A t \in Session : \A q \in DOMAIN requests[t] :
                BindsKey(requests[t][q]) /\ requests[t][q].sh = sh => t = s /\ q = p
BY DEF KeysApart

\* ... and of the next state.
LEMMA BoundOnceNext ==
  ASSUME \A s \in Session : \A p \in DOMAIN requests'[s] : BindsKey(requests'[s][p]) =>
           \A i : i = requests'[s][p].node_id =>
             /\ i \in Registered(nodes'[s]) => bound_sh'[nodes'[s][i]] = Null
             /\ \A q \in DOMAIN requests'[s] :
                  BindsKey(requests'[s][q]) /\ requests'[s][q].node_id = i => q = p
  PROVE  BoundOnce'
BY DEF BoundOnce, BindsKey

LEMMA KeysApartNext ==
  ASSUME \A s \in Session : \A p \in DOMAIN requests'[s] : BindsKey(requests'[s][p]) =>
           \A sh : sh = requests'[s][p].sh =>
             /\ \A n \in live' : bound_sh'[n] # sh
             /\ \A t \in Session : \A q \in DOMAIN requests'[t] :
                  BindsKey(requests'[t][q]) /\ requests'[t][q].sh = sh => t = s /\ q = p
  PROVE  KeysApart'
BY DEF KeysApart, BindsKey

\* Requests are taken off the connections: the two are kept if what they say of the nodes is.
LEMMA BoundOnceShifted ==
  ASSUME BoundOnce, NEW shift \in [Session -> Nat],
         \A t \in Session : \A p \in DOMAIN requests'[t] : p \in Nat,
         \A t \in Session : \A p \in DOMAIN requests'[t] :
           p + shift[t] \in DOMAIN requests[t] /\ requests'[t][p] = requests[t][p + shift[t]],
         \A t \in Session : \A p \in DOMAIN requests'[t] : \A i :
           /\ BindsKey(requests'[t][p]) /\ i = requests'[t][p].node_id
           /\ i \in Registered(nodes[t]) => bound_sh[nodes[t][i]] = Null
           /\ \A q \in DOMAIN requests[t] : BindsKey(requests[t][q]) /\ requests[t][q].node_id = i => q = p + shift[t]
           => (i \in Registered(nodes'[t]) => bound_sh'[nodes'[t][i]] = Null)
  PROVE  BoundOnce'
<1> SUFFICES ASSUME NEW s \in Session, NEW p \in DOMAIN requests'[s], BindsKey(requests'[s][p]),
                    NEW i, i = requests'[s][p].node_id
             PROVE  /\ i \in Registered(nodes'[s]) => bound_sh'[nodes'[s][i]] = Null
                    /\ \A q \in DOMAIN requests'[s] :
                         BindsKey(requests'[s][q]) /\ requests'[s][q].node_id = i => q = p
  BY BoundOnceNext
<1>1. PICK r \in DOMAIN requests[s] : r = p + shift[s] /\ requests[s][r] = requests'[s][p]
  OBVIOUS
<1>2. /\ i \in Registered(nodes[s]) => bound_sh[nodes[s][i]] = Null
      /\ \A q \in DOMAIN requests[s] : BindsKey(requests[s][q]) /\ requests[s][q].node_id = i => q = r
  <2>1. BindsKey(requests[s][r]) /\ i = requests[s][r].node_id
    BY <1>1
  <2> QED BY <2>1, BoundOnceNow
<1>3. ASSUME NEW q \in DOMAIN requests'[s], BindsKey(requests'[s][q]), requests'[s][q].node_id = i
      PROVE  q = p
  <2>1. PICK k \in DOMAIN requests[s] : k = q + shift[s] /\ requests[s][k] = requests'[s][q]
    OBVIOUS
  <2>2. k = r
    BY <1>2, <1>3, <2>1
  <2>3. p \in Nat /\ q \in Nat /\ shift[s] \in Nat
    OBVIOUS
  <2> QED BY <1>1, <2>1, <2>2, <2>3
<1>4. i \in Registered(nodes'[s]) => bound_sh'[nodes'[s][i]] = Null
  BY <1>1, <1>2
<1> QED BY <1>3, <1>4

LEMMA KeysApartShifted ==
  ASSUME KeysApart, NEW shift \in [Session -> Nat],
         \A t \in Session : \A p \in DOMAIN requests'[t] : p \in Nat,
         \A t \in Session : \A p \in DOMAIN requests'[t] :
           p + shift[t] \in DOMAIN requests[t] /\ requests'[t][p] = requests[t][p + shift[t]],
         \A t \in Session : \A p \in DOMAIN requests'[t] : \A sh :
           /\ BindsKey(requests'[t][p]) /\ sh = requests'[t][p].sh
           /\ \A o \in live : bound_sh[o] # sh
           /\ \A u \in Session : \A q \in DOMAIN requests[u] :
                BindsKey(requests[u][q]) /\ requests[u][q].sh = sh => u = t /\ q = p + shift[t]
           => \A o \in live' : bound_sh'[o] # sh
  PROVE  KeysApart'
<1> SUFFICES ASSUME NEW s \in Session, NEW p \in DOMAIN requests'[s], BindsKey(requests'[s][p]),
                    NEW sh, sh = requests'[s][p].sh
             PROVE  /\ \A o \in live' : bound_sh'[o] # sh
                    /\ \A t \in Session : \A q \in DOMAIN requests'[t] :
                         BindsKey(requests'[t][q]) /\ requests'[t][q].sh = sh => t = s /\ q = p
  BY KeysApartNext
<1>1. PICK r \in DOMAIN requests[s] : r = p + shift[s] /\ requests[s][r] = requests'[s][p]
  OBVIOUS
<1>2. /\ \A o \in live : bound_sh[o] # sh
      /\ \A t \in Session : \A q \in DOMAIN requests[t] :
           BindsKey(requests[t][q]) /\ requests[t][q].sh = sh => t = s /\ q = r
  <2>1. BindsKey(requests[s][r]) /\ sh = requests[s][r].sh
    BY <1>1
  <2> QED BY <2>1, KeysApartNow
<1>3. ASSUME NEW t \in Session, NEW q \in DOMAIN requests'[t], BindsKey(requests'[t][q]), requests'[t][q].sh = sh
      PROVE  t = s /\ q = p
  <2>1. PICK k \in DOMAIN requests[t] : k = q + shift[t] /\ requests[t][k] = requests'[t][q]
    OBVIOUS
  <2>2. t = s /\ k = r
    BY <1>2, <1>3, <2>1
  <2>3. p \in Nat /\ q \in Nat /\ shift[s] \in Nat
    BY <2>2
  <2> QED BY <1>1, <2>1, <2>2, <2>3
<1>4. \A o \in live' : bound_sh'[o] # sh
  BY <1>1, <1>2
<1> QED BY <1>3, <1>4

\* A step that takes requests off the connections, if any, and binds no node.
LEMMA ContractFrame ==
  ASSUME APITypeOK, APITypeOK', ContractInv, Running, GoneQuiet', NEW shift \in [Session -> Nat],
         \A t \in Session : \A p \in DOMAIN requests'[t] :
           p + shift[t] \in DOMAIN requests[t] /\ requests'[t][p] = requests[t][p + shift[t]],
         \A n \in live' : bound_sh'[n] # Null => n \in live /\ bound_sh'[n] = bound_sh[n],
         \A t \in Session : \A i \in Registered(nodes'[t]) :
           bound_sh'[nodes'[t][i]] # Null =>
             i \in Registered(nodes[t]) /\ bound_sh'[nodes'[t][i]] = bound_sh[nodes[t][i]]
  PROVE  ContractInv'
<1> USE DEF ContractInv
<1>1. \A t \in Session : \A p \in DOMAIN requests'[t] : p \in Nat
  <2> SUFFICES ASSUME NEW t \in Session
               PROVE  \A p \in DOMAIN requests'[t] : p \in Nat
    OBVIOUS
  <2>1. requests'[t] \in Seq(Message)
    BY DEF APITypeOK
  <2> QED BY <2>1, LenProperties
<1>2. ASSUME ~Rebind
      PROVE  BoundOnce'
  <2>1. BoundOnce
    BY <1>2
  <2> QED BY <1>1, <2>1, BoundOnceShifted
<1>3. ASSUME ~SharedKeys
      PROVE  KeysApart'
  <2>1. KeysApart
    BY <1>3
  <2>2. \A t \in Session : \A p \in DOMAIN requests'[t] : BindsKey(requests'[t][p]) => requests'[t][p].sh # Null
    BY DEF BindsKey
  <2> QED BY <1>1, <2>1, <2>2, KeysApartShifted
<1> QED BY <1>2, <1>3

\* What a sequence holds once an element is put at its end.
LEMMA AppendEntries ==
  ASSUME NEW S, NEW q \in Seq(S), NEW e \in S
  PROVE  /\ DOMAIN q = 1..Len(q) /\ Len(q) + 1 \in Nat /\ DOMAIN Append(q, e) = 1..(Len(q) + 1)
         /\ \A p \in DOMAIN q : p # Len(q) + 1 /\ Append(q, e)[p] = q[p]
         /\ Append(q, e)[Len(q) + 1] = e
         /\ \A p \in DOMAIN Append(q, e) : p = Len(q) + 1 \/ p \in DOMAIN q
<1>1. Len(q) \in Nat /\ DOMAIN q = 1..Len(q)
  BY LenProperties
<1>2. Append(q, e) \in Seq(S) /\ Len(Append(q, e)) = Len(q) + 1
  BY AppendProperties
<1>3. DOMAIN Append(q, e) = 1..(Len(q) + 1)
  BY <1>2, LenProperties
<1>4. (\A p \in 1..Len(q) : Append(q, e)[p] = q[p]) /\ Append(q, e)[Len(q) + 1] = e
  BY AppendProperties
<1>5. \A k \in Nat : /\ k + 1 \in Nat
                     /\ \A p \in 1..k : p # k + 1
                     /\ \A p \in 1..(k + 1) : p = k + 1 \/ p \in 1..k
  OBVIOUS
<1> QED BY <1>1, <1>3, <1>4, <1>5

\* A request is sent as MayRequestBind() allows.
LEMMA ContractSend ==
  ASSUME APITypeOK, ContractInv, Running, NEW s \in Session, NEW m \in ClientRequest(s), clientSend(s, m)
  PROVE  ContractInv'
<1> DEFINE last == Len(requests[s]) + 1
<1>1. /\ requests' = [requests EXCEPT ![s] = Append(@, m)] /\ peer_open[s]
      /\ UNCHANGED <<live, bound_sh, sessions, nodes, peer_open>>
  BY DEF clientSend, dbVars, sessionVars
<1>2. /\ \A t \in Session \ {s} : requests'[t] = requests[t]
      /\ DOMAIN requests[s] = 1..Len(requests[s]) /\ DOMAIN requests'[s] = 1..last /\ last \in Nat
      /\ \A p \in DOMAIN requests[s] : p # last /\ requests'[s][p] = requests[s][p]
      /\ requests'[s][last] = m
  <2>1. requests[s] \in Seq(Message) /\ m \in Message /\ requests \in [Session -> Seq(Message)]
    BY DEF APITypeOK, ClientRequest
  <2>2. requests'[s] = Append(requests[s], m)
    BY <1>1, <2>1
  <2>3. \A t \in Session \ {s} : requests'[t] = requests[t]
    BY <1>1, <2>1
  <2> QED BY <2>1, <2>2, <2>3, AppendEntries
<1>3. \A p \in DOMAIN requests'[s] : p = last \/ p \in DOMAIN requests[s]
  <2>1. requests[s] \in Seq(Message) /\ m \in Message /\ requests'[s] = Append(requests[s], m)
    BY <1>1 DEF APITypeOK, ClientRequest
  <2> QED BY <2>1, AppendEntries
<1>4. BindsKey(m) => MayRequestBind(s, m.node_id, m.sh) /\ m.node_id \in NodeId
  BY DEF ClientRequest, BindsKey, Message, NodeId
<1> HIDE DEF last
<1>5. GoneQuiet'
  BY <1>1, <1>2 DEF GoneQuiet, ContractInv
<1>6. ASSUME ~Rebind
      PROVE  BoundOnce'
  <2>1. BoundOnce
    BY <1>6 DEF ContractInv
  <2>2. BindsKey(m) => /\ m.node_id \in Registered(nodes[s]) => bound_sh[nodes[s][m.node_id]] = Null
                       /\ \A q \in DOMAIN requests[s] : BindsKey(requests[s][q]) => requests[s][q].node_id # m.node_id
    BY <1>4, <1>6 DEF MayRequestBind, PendingBind, Registered, BindsKey
  <2> SUFFICES ASSUME NEW t \in Session, NEW p \in DOMAIN requests'[t], BindsKey(requests'[t][p]),
                      NEW i, i = requests'[t][p].node_id
               PROVE  /\ i \in Registered(nodes'[t]) => bound_sh'[nodes'[t][i]] = Null
                      /\ \A q \in DOMAIN requests'[t] :
                           BindsKey(requests'[t][q]) /\ requests'[t][q].node_id = i => q = p
    BY BoundOnceNext
  <2>3. CASE t # s
    <3>1. requests'[t] = requests[t]
      BY <1>2, <2>3
    <3>2. /\ i \in Registered(nodes[t]) => bound_sh[nodes[t][i]] = Null
          /\ \A q \in DOMAIN requests[t] : BindsKey(requests[t][q]) /\ requests[t][q].node_id = i => q = p
      BY <2>1, <3>1, BoundOnceNow
    <3> QED BY <1>1, <3>1, <3>2
  <2>4. CASE t = s /\ p = last
    <3>1. BindsKey(m) /\ i = m.node_id
      BY <1>2, <2>4
    <3>2. ASSUME NEW q \in DOMAIN requests'[s], BindsKey(requests'[s][q]), requests'[s][q].node_id = i
          PROVE  q = last
      <4>1. SUFFICES ASSUME q # last  PROVE FALSE
        OBVIOUS
      <4>2. q \in DOMAIN requests[s] /\ requests'[s][q] = requests[s][q]
        BY <1>2, <1>3, <4>1
      <4> QED BY <2>2, <3>1, <3>2, <4>2
    <3>3. i \in Registered(nodes[s]) => bound_sh[nodes[s][i]] = Null
      BY <2>2, <3>1
    <3> QED BY <1>1, <2>4, <3>2, <3>3
  <2>5. CASE t = s /\ p # last
    <3>1. p \in DOMAIN requests[s] /\ requests'[s][p] = requests[s][p]
      BY <1>2, <1>3, <2>5
    <3>2. /\ i \in Registered(nodes[s]) => bound_sh[nodes[s][i]] = Null
          /\ \A q \in DOMAIN requests[s] : BindsKey(requests[s][q]) /\ requests[s][q].node_id = i => q = p
      BY <2>1, <2>5, <3>1, BoundOnceNow
    <3>3. ASSUME NEW q \in DOMAIN requests'[s], BindsKey(requests'[s][q]), requests'[s][q].node_id = i
          PROVE  q = p
      <4>1. q # last
        BY <1>2, <2>2, <2>5, <3>1, <3>3
      <4> QED BY <1>2, <1>3, <3>2, <3>3, <4>1
    <3> QED BY <1>1, <2>5, <3>2, <3>3
  <2> QED BY <2>3, <2>4, <2>5
<1>7. ASSUME ~SharedKeys
      PROVE  KeysApart'
  <2>1. KeysApart
    BY <1>7 DEF ContractInv
  <2>2. BindsKey(m) => /\ \A n \in live : bound_sh[n] # m.sh
                       /\ \A t \in Session : \A q \in DOMAIN requests[t] : BindsKey(requests[t][q]) => requests[t][q].sh # m.sh
    BY <1>4, <1>7 DEF MayRequestBind, PendingBind, BindsKey
  <2> SUFFICES ASSUME NEW t \in Session, NEW p \in DOMAIN requests'[t], BindsKey(requests'[t][p]),
                      NEW sh, sh = requests'[t][p].sh
               PROVE  /\ \A n \in live' : bound_sh'[n] # sh
                      /\ \A u \in Session : \A q \in DOMAIN requests'[u] :
                           BindsKey(requests'[u][q]) /\ requests'[u][q].sh = sh => u = t /\ q = p
    BY KeysApartNext
  <2>3. \A u \in Session : \A q \in DOMAIN requests'[u] :
          (u = s /\ q = last) \/ (q \in DOMAIN requests[u] /\ requests'[u][q] = requests[u][q])
    BY <1>2, <1>3
  <2>4. CASE t = s /\ p = last
    BY <1>1, <1>2, <2>2, <2>3, <2>4
  <2>5. CASE ~(t = s /\ p = last)
    <3>1. p \in DOMAIN requests[t] /\ requests'[t][p] = requests[t][p]
      BY <2>3, <2>5
    <3>2. /\ \A n \in live : bound_sh[n] # sh
          /\ \A u \in Session : \A q \in DOMAIN requests[u] :
               BindsKey(requests[u][q]) /\ requests[u][q].sh = sh => u = t /\ q = p
      BY <2>1, <3>1, KeysApartNow
    <3>3. ASSUME NEW u \in Session, NEW q \in DOMAIN requests'[u], BindsKey(requests'[u][q]), requests'[u][q].sh = sh
          PROVE  u = t /\ q = p
      <4>1. ~(u = s /\ q = last)
        BY <1>2, <2>2, <3>1, <3>3
      <4> QED BY <2>3, <3>2, <3>3, <4>1
    <3> QED BY <1>1, <3>2, <3>3
  <2> QED BY <2>4, <2>5
<1> QED BY <1>5, <1>6, <1>7 DEF ContractInv

\* The daemon serves the first request of a session.
LEMMA TakenOff ==
  ASSUME APITypeOK, NEW s \in Session, requests[s] # <<>>, requests' = [requests EXCEPT ![s] = Tail(@)]
  PROVE  LET shift == [t \in Session |-> IF t = s THEN 1 ELSE 0] IN
         \A t \in Session : \A p \in DOMAIN requests'[t] :
           p + shift[t] \in DOMAIN requests[t] /\ requests'[t][p] = requests[t][p + shift[t]]
<1> SUFFICES ASSUME NEW t \in Session, NEW p \in DOMAIN requests'[t]
             PROVE  IF t = s THEN p + 1 \in DOMAIN requests[t] /\ requests'[t][p] = requests[t][p + 1]
                    ELSE p + 0 \in DOMAIN requests[t] /\ requests'[t][p] = requests[t][p + 0]
  OBVIOUS
<1>1. requests \in [Session -> Seq(Message)] /\ requests[t] \in Seq(Message)
  BY DEF APITypeOK
<1>2. CASE t = s
  <2>1. requests'[t] = Tail(requests[t]) /\ requests'[t] \in Seq(Message)
    BY <1>1, <1>2, HeadTailProperties
  <2> QED BY <1>1, <1>2, <2>1, HeadTailProperties, LenProperties
<1>3. CASE t # s
  BY <1>1, <1>3, LenProperties
<1> QED BY <1>2, <1>3

\* A request to bind a node, taken off the connection of s, finds the contract of
\* the registry kept.
LEMMA HeadMayBind ==
  ASSUME APITypeOK, SessionsOwnLiveNodes, ContractInv, Running, NEW s \in sessions, requests[s] # <<>>,
         NEW m, m = Head(requests[s]), BindsKey(m), m.node_id \in Registered(nodes[s])
  PROVE  /\ MayBind(nodes[s][m.node_id], m.sh)
         /\ nodes[s][m.node_id] \in live /\ nodes[s][m.node_id] \in Node /\ m.sh \in SH
<1>1. 1 \in DOMAIN requests[s] /\ requests[s][1] = m /\ m \in Message /\ s \in Session
  BY LenProperties, HeadTailProperties DEF APITypeOK
<1>2. nodes[s][m.node_id] \in live
  BY DEF SessionsOwnLiveNodes, Registered
<1>3. ~Rebind => bound_sh[nodes[s][m.node_id]] = Null
  BY <1>1 DEF ContractInv, BoundOnce
<1>4. ~SharedKeys => \A n \in live : bound_sh[n] # m.sh
  BY <1>1 DEF ContractInv, KeysApart
<1>5. live \subseteq Node /\ m.sh \in SH
  BY <1>1 DEF APITypeOK, DBTypeOK, BindsKey, Message
<1> QED BY <1>2, <1>3, <1>4, <1>5 DEF MayBind

\* It leaves what the other requests under way need.
LEMMA ContractBind ==
  ASSUME APITypeOK, APITypeOK', SessionsOwnLiveNodes, ContractInv, Running, NEW s \in sessions,
         requests[s] # <<>>, requests' = [requests EXCEPT ![s] = Tail(@)],
         NEW m, m = Head(requests[s]), BindsKey(m), m.node_id \in Registered(nodes[s]),
         bind(nodes[s][m.node_id], m.sh), UNCHANGED <<nodes, sessions, peer_open>>
  PROVE  ContractInv'
<1> DEFINE n == nodes[s][m.node_id]
           shift == [t \in Session |-> IF t = s THEN 1 ELSE 0]
<1>1. n \in live /\ n \in Node /\ s \in Session
  BY HeadMayBind DEF APITypeOK
<1>2. live' = live /\ bound_sh'[n] = m.sh /\ \A o \in Node \ {n} : bound_sh'[o] = bound_sh[o]
  BY <1>1 DEF bind, APITypeOK, DBTypeOK
<1>3. \A t \in Session : \A p \in DOMAIN requests'[t] :
        p + shift[t] \in DOMAIN requests[t] /\ requests'[t][p] = requests[t][p + shift[t]]
  BY <1>1, TakenOff
<1>4. \A t \in Session : \A p \in DOMAIN requests'[t] : p \in Nat \ {0}
  <2> SUFFICES ASSUME NEW t \in Session
               PROVE  \A p \in DOMAIN requests'[t] : p \in Nat \ {0}
    OBVIOUS
  <2>1. requests'[t] \in Seq(Message)
    BY DEF APITypeOK
  <2>2. DOMAIN requests'[t] = 1..Len(requests'[t]) /\ Len(requests'[t]) \in Nat
    BY <2>1, LenProperties
  <2> QED BY <2>2
<1>5. 1 \in DOMAIN requests[s] /\ requests[s][1] = m /\ m.node_id \in NodeId
  BY <1>1, LenProperties, HeadTailProperties DEF APITypeOK, Registered
<1>6. shift \in [Session -> Nat] /\ shift[s] = 1 /\ \A t \in Session \ {s} : shift[t] = 0
  BY <1>1
<1>7. \A t \in Session \ sessions : requests[t] = <<>> /\ ~peer_open[t]
  BY DEF ContractInv, GoneQuiet
<1> HIDE DEF shift
<1>8. GoneQuiet'
  BY <1>7 DEF GoneQuiet, APITypeOK
<1>9. \A t \in Session : \A p \in DOMAIN requests'[t] : p \in Nat
  BY <1>4
<1> HIDE DEF n
<1>10. ASSUME ~Rebind
       PROVE  BoundOnce'
  <2>1. BoundOnce
    BY <1>10 DEF ContractInv
  <2>2. ASSUME NEW t \in Session, NEW p \in DOMAIN requests'[t], NEW i \in Registered(nodes[t]),
               \A q \in DOMAIN requests[t] : BindsKey(requests[t][q]) /\ requests[t][q].node_id = i => q = p + shift[t]
        PROVE  nodes[t][i] # n /\ nodes[t][i] \in Node
    <3>1. t = s => i # m.node_id
      <4> SUFFICES ASSUME t = s, i = m.node_id PROVE FALSE
        OBVIOUS
      <4>1. p + 1 = 1
        BY <1>5, <1>6, <2>2
      <4>2. p \in Nat \ {0}
        BY <1>4
      <4> QED BY <4>1, <4>2
    <3>2. t \in sessions
      BY <1>3, <1>7
    <3> QED BY <1>5, <3>1, <3>2 DEF SessionsOwnLiveNodes, Registered, APITypeOK, n
  <2>3. \A t \in Session : \A p \in DOMAIN requests'[t] : \A i :
          /\ BindsKey(requests'[t][p]) /\ i = requests'[t][p].node_id
          /\ i \in Registered(nodes[t]) => bound_sh[nodes[t][i]] = Null
          /\ \A q \in DOMAIN requests[t] : BindsKey(requests[t][q]) /\ requests[t][q].node_id = i => q = p + shift[t]
          => (i \in Registered(nodes'[t]) => bound_sh'[nodes'[t][i]] = Null)
    <3> SUFFICES ASSUME NEW t \in Session, NEW p \in DOMAIN requests'[t], NEW i \in Registered(nodes[t]),
                        bound_sh[nodes[t][i]] = Null,
                        \A q \in DOMAIN requests[t] :
                          BindsKey(requests[t][q]) /\ requests[t][q].node_id = i => q = p + shift[t]
                 PROVE  bound_sh'[nodes[t][i]] = Null
      OBVIOUS
    <3>1. nodes[t][i] \in Node \ {n}
      BY <2>2
    <3>2. bound_sh'[nodes[t][i]] = bound_sh[nodes[t][i]]
      BY <1>2, <3>1
    <3> QED BY <3>2, Zenon
  <2> QED BY <1>3, <1>6, <1>9, <2>1, <2>3, BoundOnceShifted
<1>11. ASSUME ~SharedKeys
       PROVE  KeysApart'
  <2>1. KeysApart
    BY <1>11 DEF ContractInv
  <2>2. ASSUME NEW t \in Session, NEW p \in DOMAIN requests'[t],
               \A u \in Session : \A q \in DOMAIN requests[u] :
                 BindsKey(requests[u][q]) /\ requests[u][q].sh = m.sh => u = t /\ q = p + shift[t]
        PROVE  FALSE
    <3>1. t = s /\ p + 1 = 1
      BY <1>1, <1>5, <1>6, <2>2
    <3>2. p \in Nat \ {0}
      BY <1>4
    <3> QED BY <3>1, <3>2
  <2>3. \A t \in Session : \A p \in DOMAIN requests'[t] : \A sh :
          /\ BindsKey(requests'[t][p]) /\ sh = requests'[t][p].sh
          /\ \A o \in live : bound_sh[o] # sh
          /\ \A u \in Session : \A q \in DOMAIN requests[u] :
               BindsKey(requests[u][q]) /\ requests[u][q].sh = sh => u = t /\ q = p + shift[t]
          => \A o \in live' : bound_sh'[o] # sh
    <3> TAKE t \in Session
    <3> TAKE p \in DOMAIN requests'[t]
    <3> TAKE sh
    <3> HAVE /\ BindsKey(requests'[t][p]) /\ sh = requests'[t][p].sh
             /\ \A o \in live : bound_sh[o] # sh
             /\ \A u \in Session : \A q \in DOMAIN requests[u] :
                  BindsKey(requests[u][q]) /\ requests[u][q].sh = sh => u = t /\ q = p + shift[t]
    <3> TAKE o \in live'
    <3>1. sh # m.sh
      BY <2>2
    <3>2. o \in live /\ o \in Node
      BY <1>2 DEF APITypeOK, DBTypeOK
    <3>3. bound_sh[o] # sh
      BY <3>2
    <3> QED BY <1>2, <3>1, <3>2, <3>3
  <2> QED BY <1>3, <1>6, <1>9, <2>1, <2>3, KeysApartShifted
<1> QED BY <1>8, <1>10, <1>11 DEF ContractInv

LEMMA ContractProcess ==
  ASSUME APITypeOK, APITypeOK', SessionsOwnLiveNodes, ContractInv, NEW s \in Session, handleReceive(s)
  PROVE  ContractInv' /\ (DBNext \/ UNCHANGED dbVars)
<1> DEFINE m == Head(requests[s])
           shift == [t \in Session |-> IF t = s THEN 1 ELSE 0]
<1>1. /\ Running /\ s \in sessions /\ requests[s] # <<>> /\ m \in Message
      /\ requests' = [requests EXCEPT ![s] = Tail(@)] /\ process(s, m) /\ UNCHANGED peer_open
  BY HeadTailProperties DEF handleReceive, Idle, APITypeOK
<1>2. /\ shift \in [Session -> Nat]
      /\ \A t \in Session : \A p \in DOMAIN requests'[t] :
           p + shift[t] \in DOMAIN requests[t] /\ requests'[t][p] = requests[t][p + shift[t]]
  BY <1>1, TakenOff
<1>3. \A t \in Session \ sessions : requests[t] = <<>> /\ ~peer_open[t]
  BY <1>1 DEF ContractInv, GoneQuiet
<1>4. sessions' = sessions => GoneQuiet'
  BY <1>1, <1>3 DEF GoneQuiet, APITypeOK
<1>5. fate = "running" /\ outcome = "running"
  BY <1>1 DEF Running
<1> HIDE DEF m, shift
<1>6. ASSUME UNCHANGED <<live, bound_sh, nodes>>, UNCHANGED sessions \/ outcome' # "running"
      PROVE  ContractInv'
  <2>1. CASE UNCHANGED sessions
    BY <1>1, <1>2, <1>4, <1>6, <2>1, ContractFrame
  <2>2. CASE outcome' # "running"
    BY <2>2 DEF ContractInv, Running
  <2> QED BY <1>6, <2>1, <2>2
<1>7. CASE NodeRegister(s, m)
  <2>1. CASE next_node_id[s] = 0
    BY <1>6, <1>7, <2>1 DEF NodeRegister, remoteThrow, dbVars, sessionVars
  <2>2. CASE next_node_id[s] # 0
    <3>1. PICK n \in Node : createNode(n) /\ nodes' = [nodes EXCEPT ![s] = Insert(@, next_node_id[s], n)]
      BY <1>7, <2>2 DEF NodeRegister
    <3>2. UNCHANGED sessions \/ outcome' = "undefined"
      BY <1>7, <2>2 DEF NodeRegister, send
    <3>3. DBNext
      BY <1>5, <3>1 DEF DBNext
    <3>4. CASE outcome' = "undefined"
      BY <3>3, <3>4 DEF ContractInv, Running
    <3>5. CASE UNCHANGED sessions
      <4>1. n \notin live /\ live' = live \cup {n} /\ \A o \in Node : bound_sh'[o] = IF o = n THEN Null ELSE bound_sh[o]
        BY <3>1 DEF createNode, APITypeOK, DBTypeOK
      <4>2. \A o \in live' : bound_sh'[o] # Null => o \in live /\ bound_sh'[o] = bound_sh[o]
        BY <4>1 DEF APITypeOK, DBTypeOK
      <4>3. \A t \in Session : \A i \in Registered(nodes'[t]) :
              nodes'[t][i] = n \/ (i \in Registered(nodes[t]) /\ nodes'[t][i] = nodes[t][i])
        BY <3>1 DEF Registered, Insert, APITypeOK
      <4>4. \A t \in Session : \A i \in Registered(nodes'[t]) : nodes'[t][i] \in Node
        BY DEF Registered, APITypeOK
      <4>5. ContractInv'
        BY <1>1, <1>2, <1>4, <3>5, <4>1, <4>2, <4>3, <4>4, ContractFrame
      <4> QED BY <3>3, <4>5
    <3> QED BY <3>2, <3>4, <3>5
  <2> QED BY <2>1, <2>2
<1>8. CASE NodeUnRegister(s, m)
  <2>1. CASE m.node_id \notin Registered(nodes[s])
    BY <1>6, <1>8, <2>1 DEF NodeUnRegister, remoteThrow, dbVars, sessionVars
  <2>2. CASE m.node_id \in Registered(nodes[s])
    <3> DEFINE n == nodes[s][m.node_id]
    <3>1. destroyNode(n) /\ n \in live /\ n \in Node
      BY <1>1, <1>8, <2>2 DEF NodeUnRegister, SessionsOwnLiveNodes, Registered, APITypeOK
    <3>2. DBNext
      BY <1>5, <3>1 DEF DBNext
    <3>3. CASE fate' # "running"
      BY <3>2, <3>3 DEF ContractInv, Running
    <3>4. CASE fate' = "running"
      <4>1. nodes' = [nodes EXCEPT ![s] = Erase(@, m.node_id)] /\ send(s, m)
        BY <1>8, <2>2, <3>4 DEF NodeUnRegister
      <4>2. live' = live \ {n} /\ \A o \in Node : bound_sh'[o] = IF o = n THEN Null ELSE bound_sh[o]
        BY <3>1, <3>4 DEF destroyNode, delete, APITypeOK, DBTypeOK
      <4>3. CASE outcome' = "undefined"
        BY <3>2, <4>3 DEF ContractInv, Running
      <4>4. CASE UNCHANGED sessions
        <5>1. \A o \in live' : bound_sh'[o] # Null => o \in live /\ bound_sh'[o] = bound_sh[o]
          BY <4>2 DEF APITypeOK, DBTypeOK
        <5>2. \A t \in Session : \A i \in Registered(nodes'[t]) :
                i \in Registered(nodes[t]) /\ nodes'[t][i] = nodes[t][i] /\ nodes[t][i] \in Node
          BY <4>1 DEF Registered, Erase, APITypeOK
        <5>3. \A t \in Session : \A i \in Registered(nodes'[t]) :
                bound_sh'[nodes'[t][i]] # Null =>
                  i \in Registered(nodes[t]) /\ bound_sh'[nodes'[t][i]] = bound_sh[nodes[t][i]]
          BY <4>2, <5>2
        <5>4. ContractInv'
          BY <1>1, <1>2, <1>4, <4>4, <5>1, <5>3, ContractFrame
        <5> QED BY <3>2, <5>4
      <4> QED BY <4>1, <4>3, <4>4 DEF send
    <3> QED BY <3>3, <3>4
  <2> QED BY <2>1, <2>2
<1>9. CASE NodeBind(s, m) /\ m.type = "NODE_BIND"
  <2>1. CASE m.node_id \notin Registered(nodes[s]) \/ m.sh = Null
    BY <1>6, <1>9, <2>1 DEF NodeBind, remoteThrow, dbVars, sessionVars, send
  <2>2. CASE m.node_id \in Registered(nodes[s]) /\ m.sh # Null
    <3>1. /\ bind(nodes[s][m.node_id], m.sh) /\ UNCHANGED nodes
          /\ UNCHANGED sessions \/ outcome' = "undefined"
      BY <1>9, <2>2 DEF NodeBind, send
    <3>2. MayBind(nodes[s][m.node_id], m.sh) /\ nodes[s][m.node_id] \in live /\ m.sh \in SH
      BY <1>1, <1>9, <2>2, HeadMayBind DEF BindsKey, m
    <3>3. DBNext
      BY <1>5, <3>1, <3>2 DEF DBNext
    <3>4. CASE UNCHANGED sessions
      BY <1>1, <1>9, <2>2, <3>1, <3>3, <3>4, ContractBind DEF BindsKey, m
    <3>5. CASE outcome' = "undefined"
      BY <3>3, <3>5 DEF ContractInv, Running
    <3> QED BY <3>1, <3>4, <3>5
  <2> QED BY <2>1, <2>2
<1>10. CASE NodeListen(s, m) \/ NodeConnectOrAccept \/ SocketUnRegister(s, m)
  <2>1. UNCHANGED <<dbVars, nodes>> /\ (UNCHANGED sessions \/ outcome' # "running")
    BY <1>10 DEF NodeListen, NodeConnectOrAccept, SocketUnRegister, remoteThrow, send, sessionVars
  <2> QED BY <1>6, <2>1 DEF dbVars
<1> QED BY <1>1, <1>7, <1>8, <1>9, <1>10 DEF process

LEMMA ContractStep ==
  ASSUME APITypeOK, SessionsOwnLiveNodes, ContractInv, [APINext]_apiVars
  PROVE  ContractInv' /\ (DBNext \/ UNCHANGED dbVars)
<1> DEFINE zero == [t \in Session |-> 0]
<1>1. APITypeOK'
  BY APITypeStep
<1>2. \A t \in Session : \A p \in DOMAIN requests[t] : p + zero[t] = p
  <2> SUFFICES ASSUME NEW t \in Session, NEW p \in DOMAIN requests[t] PROVE p + 0 = p
    OBVIOUS
  <2>1. requests[t] \in Seq(Message)
    BY DEF APITypeOK
  <2> QED BY <2>1, LenProperties
<1>3. zero \in [Session -> Nat]
  OBVIOUS
<1> HIDE DEF zero
<1>4. Running => GoneQuiet
  BY DEF ContractInv
<1>5. ASSUME UNCHANGED <<dbVars, requests, outcome>>, Running => GoneQuiet',
             \A t \in Session : \A i \in Registered(nodes'[t]) : i \in Registered(nodes[t]) /\ nodes'[t][i] = nodes[t][i]
      PROVE  ContractInv' /\ UNCHANGED dbVars
  <2>1. CASE ~Running
    BY <1>5, <2>1 DEF ContractInv, Running, dbVars
  <2>2. CASE Running
    BY <1>1, <1>2, <1>3, <1>5, <2>2, ContractFrame DEF dbVars
  <2> QED BY <2>1, <2>2
<1>6. CASE NodeRegisterLoop \/ UNCHANGED apiVars
  <2>1. UNCHANGED <<dbVars, requests, peer_open, outcome, nodes, sessions>>
    BY <1>6 DEF NodeRegisterLoop, wireVars, apiVars, sessionVars
  <2> QED BY <1>4, <1>5, <2>1 DEF GoneQuiet
<1>7. ASSUME NEW s \in Session, handleAccept(s)
      PROVE  ContractInv' /\ UNCHANGED dbVars
  <2>1. /\ Running /\ UNCHANGED <<live, bound_sh>> /\ UNCHANGED dbVars /\ sessions' = sessions \cup {s}
        /\ \A t \in Session \ {s} : requests'[t] = requests[t] /\ nodes'[t] = nodes[t] /\ peer_open'[t] = peer_open[t]
        /\ requests'[s] = <<>> /\ nodes'[s] = NoNodes
    BY <1>7 DEF handleAccept, Idle, dbVars, APITypeOK
  <2>2. GoneQuiet'
    BY <1>4, <2>1 DEF GoneQuiet
  <2>3. \A t \in Session : \A p \in DOMAIN requests'[t] :
          p + zero[t] \in DOMAIN requests[t] /\ requests'[t][p] = requests[t][p + zero[t]]
    BY <1>2, <2>1
  <2>4. \A t \in Session : \A i \in Registered(nodes'[t]) : i \in Registered(nodes[t]) /\ nodes'[t][i] = nodes[t][i]
    BY <2>1 DEF Registered, NoNodes
  <2> QED BY <1>1, <1>3, <2>1, <2>2, <2>3, <2>4, ContractFrame
<1>8. ASSUME NEW s \in Session, handleReceiveError(s)
      PROVE  ContractInv' /\ UNCHANGED dbVars
  <2>1. /\ UNCHANGED <<dbVars, requests, peer_open, outcome>> /\ sessions' = sessions \ {s}
        /\ requests[s] = <<>> /\ ~peer_open[s]
        /\ nodes' = [nodes EXCEPT ![s] = NoNodes]
    BY <1>8 DEF handleReceiveError, dropSession, wireVars
  <2>2. \A t \in Session : \A i \in Registered(nodes'[t]) : i \in Registered(nodes[t]) /\ nodes'[t][i] = nodes[t][i]
    BY <2>1 DEF Registered, NoNodes, APITypeOK
  <2>3. Running => GoneQuiet'
    BY <1>4, <2>1 DEF GoneQuiet
  <2> QED BY <1>5, <2>1, <2>2, <2>3
<1>9. ASSUME NEW s \in Session, NEW m \in ClientRequest(s), clientSend(s, m)
      PROVE  ContractInv' /\ UNCHANGED dbVars
  <2>1. UNCHANGED <<dbVars, outcome>>
    BY <1>9 DEF clientSend
  <2>2. CASE Running
    BY <1>9, <2>1, <2>2, ContractSend
  <2>3. CASE ~Running
    BY <2>1, <2>3 DEF ContractInv, Running, dbVars
  <2> QED BY <2>2, <2>3
<1>10. ASSUME NEW s \in Session, clientReceive(s) \/ clientClose(s)
       PROVE  ContractInv' /\ UNCHANGED dbVars
  <2>1. /\ UNCHANGED <<dbVars, requests, outcome, sessions, nodes>>
        /\ \A t \in Session : peer_open'[t] => peer_open[t]
    BY <1>10 DEF clientReceive, clientClose, sessionVars, APITypeOK
  <2>2. Running => GoneQuiet'
    BY <1>4, <2>1 DEF GoneQuiet
  <2> QED BY <1>5, <2>1, <2>2
<1>11. ASSUME NEW s \in Session, handleReceive(s)
       PROVE  ContractInv' /\ (DBNext \/ UNCHANGED dbVars)
  BY <1>1, <1>11, ContractProcess
<1> QED BY <1>6, <1>7, <1>8, <1>9, <1>10, <1>11 DEF APINext, Daemon, Clients

\* The daemon calls the registry as its contract asks, whenever its clients ask for
\* no bind that the contract excludes: every step of a handler is a step of the
\* registry or none.  Requests under way count as if they had been served, so the
\* proof needs that what is checked when a request is sent holds when it is served.
THEOREM RegistryImplemented == APISpec => DBSpec
<1>1. APIInit => DBInit /\ ContractInv
  BY DEF APIInit, ContractInv, GoneQuiet, BoundOnce, KeysApart
<1>2. APITypeOK /\ SessionsOwnLiveNodes /\ ContractInv /\ [APINext]_apiVars
        => ContractInv' /\ [DBNext]_dbVars
  BY ContractStep
<1> QED BY <1>1, <1>2, APITypeCorrect, OwnershipCorrect, PTL DEF APISpec, DBSpec

\* So what the registry guarantees to callers that keep to its contract holds in the
\* daemon: without two live nodes of one key, its containers are exact ...
THEOREM DaemonConsistent == ~SharedKeys => (APISpec => []DBConsistent)
BY RegistryImplemented, ConsistentWithoutSharing

\* ... and if nodes are bound once, getBoundNode() returns no deleted node.
THEOREM DaemonNoDangling == ~Rebind => (APISpec => []NoDanglingBound)
BY RegistryImplemented, NoDanglingWithoutRebind

\* If clients keep both rules, nodemanager_db_non_consistent never ends the daemon.
THEOREM DaemonNeverThrows == ~Rebind /\ ~SharedKeys => (APISpec => []NeverInconsistent)
BY RegistryImplemented, ContractNeverThrows
=============================================================================
