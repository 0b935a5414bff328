--------------------------- MODULE APISession_proofs ---------------------------
(***************************************************************************)
(* For any number of sessions, nodes, keys and ids, and whatever the       *)
(* clients send: the search for the next node id is right, sessions own    *)
(* their nodes, and the daemon hands ids out as NodeIds specifies.         *)
(***************************************************************************)
EXTENDS APISession, SequenceTheorems, TLAPS

\* While the loop of NodeRegister runs in a session, every id below
\* next_node_id is registered and the iterator is at the first registered id
\* from next_node_id on; or the id has wrapped to 0 and none is free.
ScanInv ==
  scanning # Null =>
    LET next == next_node_id[scanning]
        reg == Registered(nodes[scanning])
    IN IF next = 0 THEN reg = NodeId
       ELSE /\ \A i \in 1..(next - 1) : i \in reg
            /\ \/ /\ new_iterator \in reg
                  /\ next <= new_iterator
                  /\ \A k \in reg : next <= k => new_iterator <= k
               \/ /\ new_iterator = End
                  /\ \A k \in reg : k < next

-----------------------------------------------------------------------------
\* next_node_id++ on an unsigned integer.
LEMMA IncrementWraps ==
  ASSUME NEW id \in 0..MaxId
  PROVE  Increment(id) = IF id = MaxId THEN 0 ELSE id + 1
BY APISessionAssumption DEF Increment

LEMMA MessageUpdate ==
  ASSUME NEW m \in Message, NEW i \in 0..MaxId
  PROVE  [m EXCEPT !.node_id = i] \in Message
BY DEF Message

\* What send() does to the session and to the connection.
LEMMA SendType ==
  ASSUME APITypeOK, NEW s \in sessions, NEW m \in Message, send(s, m)
  PROVE  /\ sessions' = (IF peer_open[s] THEN sessions ELSE sessions \ {s})
         /\ replies' \in [Session -> Seq(Message)]
         /\ outcome' \in {"running", "terminated", "undefined"}
<1>1. CASE peer_open[s]
  <2>1. replies' = [replies EXCEPT ![s] = Append(replies[s], m)] /\ UNCHANGED <<sessions, outcome>>
    BY <1>1 DEF send
  <2>2. Append(replies[s], m) \in Seq(Message)
    BY DEF APITypeOK
  <2>3. QED
    BY <1>1, <2>1, <2>2 DEF APITypeOK
<1>2. CASE ~peer_open[s]
  BY <1>2 DEF send, APITypeOK
<1>3. QED
  BY <1>1, <1>2

\* The operations of the NodeManager leave its variables in their types.
LEMMA DBStepType ==
  ASSUME DBTypeOK, NEW n \in Node, NEW sh \in SH,
         createNode(n) \/ bind(n, sh) \/ destroyNode(n)
  PROVE  DBTypeOK'
BY NodeManagerAssumption
   DEF DBTypeOK, Fate, createNode, bind, bindNode, destroyNode, delete, Insert, Erase

-----------------------------------------------------------------------------
\* A handler keeps the types of everything but the requests.
HandlerType ==
  /\ DBTypeOK
  /\ sessions \subseteq Session
  /\ nodes \in [Session -> [NodeId -> Node \cup {Null}]]
  /\ next_node_id \in [Session -> 0..MaxId]
  /\ scanning \in sessions \cup {Null}
  /\ new_iterator \in NodeId \cup {End}
  /\ replies \in [Session -> Seq(Message)]
  /\ outcome \in {"running", "terminated", "undefined"}

LEMMA ProcessType ==
  ASSUME APITypeOK, Idle, NEW s \in sessions, NEW m \in Message, process(s, m)
  PROVE  HandlerType'
<1> USE NodeManagerAssumption, APISessionAssumption DEF APITypeOK, HandlerType, Idle
<1>1. ASSUME UNCHANGED <<dbVars, sessionVars, replies, outcome>>
      PROVE  HandlerType'
  BY <1>1 DEF dbVars, sessionVars, DBTypeOK
<1>2. CASE NodeRegister(s, m)
  <2>1. CASE next_node_id[s] = 0
    BY <1>1, <1>2, <2>1 DEF NodeRegister, remoteThrow
  <2>2. CASE next_node_id[s] # 0
    <3>1. PICK n \in Node : /\ createNode(n)
                            /\ nodes' = [nodes EXCEPT ![s] = Insert(@, next_node_id[s], n)]
      BY <1>2, <2>2 DEF NodeRegister
    <3>2. send(s, [m EXCEPT !.node_id = next_node_id[s]])
      BY <1>2, <2>2 DEF NodeRegister
    <3>3. DBTypeOK'
      BY <3>1, NodeManagerAssumption DEF createNode, DBTypeOK
    <3>4. next_node_id[s] \in NodeId
      BY <2>2 DEF NodeId
    <3>5. nodes' \in [Session -> [NodeId -> Node \cup {Null}]]
      BY <3>1, <3>4 DEF Insert
    <3>6. /\ sessions' = (IF peer_open[s] THEN sessions ELSE sessions \ {s})
          /\ replies' \in [Session -> Seq(Message)]
          /\ outcome' \in {"running", "terminated", "undefined"}
      BY <3>2, SendType, MessageUpdate
    <3>7. CASE peer_open[s]
      <4>1. /\ next_node_id' = [next_node_id EXCEPT ![s] = Increment(@)]
            /\ scanning' = s
            /\ new_iterator' \in NodeId \cup {End}
        BY <1>2, <2>2, <3>7 DEF NodeRegister
      <4>2. Increment(next_node_id[s]) \in 0..MaxId
        BY IncrementWraps
      <4>3. QED
        BY <4>1, <4>2, <3>3, <3>5, <3>6, <3>7
    <3>8. CASE ~peer_open[s]
      <4>1. UNCHANGED <<next_node_id, scanning, new_iterator>>
        BY <1>2, <2>2, <3>8 DEF NodeRegister
      <4>2. QED
        BY <4>1, <3>3, <3>5, <3>6, <3>8
    <3>9. QED
      BY <3>7, <3>8
  <2>3. QED
    BY <2>1, <2>2
<1>3. CASE NodeUnRegister(s, m)
  <2>1. CASE m.node_id \notin Registered(nodes[s])
    BY <1>1, <1>3, <2>1 DEF NodeUnRegister, remoteThrow
  <2>2. CASE m.node_id \in Registered(nodes[s])
    <3>1. nodes[s][m.node_id] \in Node /\ m.node_id \in NodeId
      BY <2>2 DEF Registered
    <3>2. DBTypeOK'
      BY <1>3, <2>2, <3>1 DEF NodeUnRegister, DBTypeOK, Fate, destroyNode, delete, Erase
    <3>3. CASE fate' = "running"
      <4>1. /\ nodes' = [nodes EXCEPT ![s] = Erase(@, m.node_id)]
            /\ next_node_id' = [next_node_id EXCEPT ![s] = IF @ > m.node_id \/ @ = 0 THEN m.node_id ELSE @]
            /\ send(s, m)
            /\ UNCHANGED <<scanning, new_iterator>>
        BY <1>3, <2>2, <3>3 DEF NodeUnRegister, FreedId
      <4>2. /\ sessions' = (IF peer_open[s] THEN sessions ELSE sessions \ {s})
            /\ replies' \in [Session -> Seq(Message)]
            /\ outcome' \in {"running", "terminated", "undefined"}
        BY <4>1, SendType
      <4>3. nodes' \in [Session -> [NodeId -> Node \cup {Null}]]
        BY <4>1, <3>1 DEF Erase
      <4>4. next_node_id' \in [Session -> 0..MaxId]
        BY <4>1, <3>1 DEF NodeId
      <4>5. QED
        BY <4>1, <4>2, <4>3, <4>4, <3>2
    <3>4. CASE fate' # "running"
      BY <1>3, <2>2, <3>2, <3>4 DEF NodeUnRegister, sessionVars
    <3>5. QED
      BY <3>3, <3>4
  <2>3. QED
    BY <2>1, <2>2
<1>4. CASE NodeListen(s, m)
  <2>1. CASE m.node_id \notin Registered(nodes[s])
    BY <1>1, <1>4, <2>1 DEF NodeListen, remoteThrow
  <2>2. CASE m.node_id \in Registered(nodes[s])
    BY <1>4, <2>2, SendType DEF NodeListen, dbVars, DBTypeOK
  <2>3. QED
    BY <2>1, <2>2
<1>5. CASE NodeBind(s, m)
  <2>1. CASE m.node_id \notin Registered(nodes[s])
    BY <1>1, <1>5, <2>1 DEF NodeBind, remoteThrow
  <2>2. CASE m.node_id \in Registered(nodes[s]) /\ m.sh = Null
    <3>1. send(s, m) /\ UNCHANGED <<dbVars, nodes, next_node_id, scanning, new_iterator>>
      BY <1>5, <2>2 DEF NodeBind
    <3>2. QED
      BY <3>1, SendType DEF dbVars, DBTypeOK
  <2>3. CASE m.node_id \in Registered(nodes[s]) /\ m.sh # Null
    <3>1. nodes[s][m.node_id] \in Node /\ m.sh \in SH
      BY <2>3 DEF Registered, Message
    <3>2. /\ bind(nodes[s][m.node_id], m.sh)
          /\ UNCHANGED <<nodes, next_node_id, scanning, new_iterator>>
          /\ send(s, m) \/ UNCHANGED <<sessions, replies, outcome>>
      BY <1>5, <2>3 DEF NodeBind
    <3>3. DBTypeOK'
      BY <3>1, <3>2, DBStepType
    <3>4. CASE send(s, m)
      BY <3>2, <3>3, <3>4, SendType
    <3>5. CASE UNCHANGED <<sessions, replies, outcome>>
      BY <3>2, <3>3, <3>5
    <3>6. QED
      BY <3>2, <3>4, <3>5
  <2>4. QED
    BY <2>1, <2>2, <2>3
<1>6. CASE NodeConnectOrAccept
  BY <1>6 DEF NodeConnectOrAccept, dbVars, sessionVars, DBTypeOK
<1>7. CASE SocketUnRegister(s, m)
  BY <1>1, <1>7 DEF SocketUnRegister
<1>8. QED
  BY <1>2, <1>3, <1>4, <1>5, <1>6, <1>7 DEF process

LEMMA APITypeStep == APITypeOK /\ [APINext]_apiVars => APITypeOK'
<1> USE NodeManagerAssumption, APISessionAssumption
<1> SUFFICES ASSUME APITypeOK, [APINext]_apiVars
             PROVE  APITypeOK'
  OBVIOUS
<1> USE DEF APITypeOK
<1>1. CASE NodeRegisterLoop
  <2>1. scanning \in sessions /\ scanning \in Session
    BY <1>1 DEF NodeRegisterLoop
  <2>2. Increment(next_node_id[scanning]) \in 0..MaxId
    BY <2>1, IncrementWraps
  <2>3. /\ next_node_id' \in [Session -> 0..MaxId]
        /\ scanning' \in sessions \cup {Null} /\ new_iterator' \in NodeId \cup {End}
    <3>1. CASE scanning' = scanning
      <4>1. next_node_id' = [next_node_id EXCEPT ![scanning] = Increment(@)] /\ new_iterator' \in NodeId \cup {End}
        BY <1>1, <3>1 DEF NodeRegisterLoop
      <4> QED BY <2>1, <2>2, <3>1, <4>1
    <3>2. CASE scanning' # scanning
      BY <1>1, <2>1, <3>2 DEF NodeRegisterLoop
    <3> QED BY <3>1, <3>2
  <2>4. UNCHANGED <<live, bound_sh, nodes_unbound, nodes_bound, fate, sessions, nodes,
                    requests, replies, peer_open, outcome>>
    BY <1>1 DEF NodeRegisterLoop, dbVars, wireVars
  <2>5. QED
    BY <2>3, <2>4 DEF DBTypeOK
<1>2. ASSUME NEW s \in Session, handleAccept(s)
      PROVE  APITypeOK'
  <2>1. NoNodes \in [NodeId -> Node \cup {Null}] /\ 1 \in 0..MaxId
    BY DEF NoNodes
  <2>2. QED
    BY <1>2, <2>1 DEF handleAccept, Idle, dbVars, DBTypeOK
<1>3. ASSUME NEW s \in Session, handleReceive(s)
      PROVE  APITypeOK'
  <2>1. Head(requests[s]) \in Message /\ Tail(requests[s]) \in Seq(Message)
    BY <1>3 DEF handleReceive
  <2>2. HandlerType'
    BY <1>3, <2>1, ProcessType DEF handleReceive
  <2>3. QED
    BY <1>3, <2>1, <2>2 DEF handleReceive, HandlerType
<1>4. ASSUME NEW s \in Session, handleReceiveError(s)
      PROVE  APITypeOK'
  <2>1. NoNodes \in [NodeId -> Node \cup {Null}]
    BY DEF NoNodes
  <2>2. QED
    BY <1>4, <2>1 DEF handleReceiveError, dropSession, Idle, dbVars, wireVars, DBTypeOK
<1>5. ASSUME NEW s \in Session, NEW m \in ClientRequest(s), clientSend(s, m)
      PROVE  APITypeOK'
  <2>1. m \in Message
    BY DEF ClientRequest
  <2>2. Append(requests[s], m) \in Seq(Message)
    BY <2>1
  <2>3. QED
    BY <1>5, <2>2 DEF clientSend, dbVars, sessionVars, DBTypeOK
<1>6. ASSUME NEW s \in Session, clientReceive(s)
      PROVE  APITypeOK'
  <2>1. Tail(replies[s]) \in Seq(Message)
    BY <1>6 DEF clientReceive
  <2>2. QED
    BY <1>6, <2>1 DEF clientReceive, dbVars, sessionVars, DBTypeOK
<1>7. ASSUME NEW s \in Session, clientClose(s)
      PROVE  APITypeOK'
  BY <1>7 DEF clientClose, dbVars, sessionVars, DBTypeOK
<1>8. CASE UNCHANGED apiVars
  BY <1>8 DEF apiVars, dbVars, sessionVars, wireVars, DBTypeOK
<1>9. QED
  BY <1>1, <1>2, <1>3, <1>4, <1>5, <1>6, <1>7, <1>8 DEF APINext, Daemon, Clients

\* Sessions, maps, iterator and connections keep their types, and the loop of
\* NodeRegister only ever runs in a session that exists.
THEOREM APITypeCorrect == APISpec => []APITypeOK
<1> USE NodeManagerAssumption, APISessionAssumption
<1>1. APIInit => APITypeOK
  BY DEF APIInit, APITypeOK, DBInit, DBTypeOK, Fate, NoNodes, NodeId, End
<1>2. QED
  BY <1>1, APITypeStep, PTL DEF APISpec

-----------------------------------------------------------------------------
IdInv == NextIdIsLeastFree /\ ScanInv

LEMMA IdFrame ==
  ASSUME IdInv, sessions' \subseteq sessions,
         UNCHANGED <<nodes, next_node_id, scanning, new_iterator>>
  PROVE  IdInv'
BY DEF IdInv, NextIdIsLeastFree, ScanInv

\* NodeRegister up to the loop.
LEMMA RegisterKeepsIds ==
  ASSUME APITypeOK, IdInv, Idle, NEW s \in sessions, NEW m \in Message, NodeRegister(s, m)
  PROVE  IdInv'
<1> USE NodeManagerAssumption, APISessionAssumption
<1>1. CASE next_node_id[s] = 0
  BY <1>1, IdFrame DEF NodeRegister, remoteThrow, sessionVars
<1>2. CASE next_node_id[s] # 0 /\ ~peer_open[s]
  <2>1. sessions' = sessions \ {s} /\ UNCHANGED <<next_node_id, scanning, new_iterator>>
    BY <1>2 DEF NodeRegister, send
  <2>2. \A t \in sessions' : nodes'[t] = nodes[t]
    BY <1>2, <2>1 DEF NodeRegister, APITypeOK
  <2>3. scanning = Null
    BY DEF Idle
  <2>4. QED
    BY <2>1, <2>2, <2>3 DEF IdInv, NextIdIsLeastFree, ScanInv
<1>3. CASE next_node_id[s] # 0 /\ peer_open[s]
  <2> DEFINE id == next_node_id[s]
  <2>1. PICK n \in Node : /\ createNode(n)
                          /\ nodes' = [nodes EXCEPT ![s] = Insert(@, id, n)]
    BY <1>3 DEF NodeRegister
  <2>2. PICK j \in NodeId \cup {End} : Successor(nodes'[s], id, j) /\ new_iterator' = j
    BY <1>3 DEF NodeRegister
  <2>3. /\ next_node_id' = [next_node_id EXCEPT ![s] = Increment(@)]
        /\ scanning' = s
        /\ sessions' = sessions
    BY <1>3 DEF NodeRegister, send
  <2>4. /\ s \in Session /\ id \in NodeId
        /\ id \notin Registered(nodes[s])
        /\ \A i \in 1..(id - 1) : i \in Registered(nodes[s])
        /\ nodes[s] \in [NodeId -> Node \cup {Null}]
    BY <1>3 DEF IdInv, NextIdIsLeastFree, APITypeOK, Idle, NodeId
  <2>5. nodes'[s] = [nodes[s] EXCEPT ![id] = n]
    BY <2>1, <2>4 DEF Insert, Registered, APITypeOK
  <2>6. Registered(nodes'[s]) = Registered(nodes[s]) \cup {id}
    BY <2>4, <2>5 DEF Registered
  <2>7. next_node_id'[s] = IF id = MaxId THEN 0 ELSE id + 1
    BY <2>3, <2>4, IncrementWraps DEF APITypeOK
  <2> HIDE DEF id
  <2>8. ScanInv'
    <3>1. \A i \in 1..id : i \in Registered(nodes'[s])
      BY <2>4, <2>6 DEF NodeId
    <3>2. CASE id = MaxId
      BY <3>1, <3>2, <2>3, <2>7 DEF ScanInv, Registered, NodeId
    <3>3. CASE id # MaxId
      BY <3>1, <3>3, <2>2, <2>3, <2>4, <2>7 DEF ScanInv, Successor, Registered, NodeId, End
    <3>4. QED
      BY <3>2, <3>3
  <2>9. NextIdIsLeastFree'
    <3>1. \A t \in sessions' : t # s => nodes'[t] = nodes[t] /\ next_node_id'[t] = next_node_id[t]
      BY <2>1, <2>3 DEF APITypeOK
    <3>2. \A t \in sessions : scanning # t
      BY DEF Idle, APITypeOK
    <3>3. QED
      BY <3>1, <3>2, <2>3 DEF IdInv, NextIdIsLeastFree
  <2>10. QED
    BY <2>8, <2>9 DEF IdInv
<1>4. QED
  BY <1>1, <1>2, <1>3

\* An iteration of the loop, and its end.
LEMMA LoopKeepsIds ==
  ASSUME APITypeOK, IdInv, NodeRegisterLoop
  PROVE  IdInv'
<1> USE NodeManagerAssumption, APISessionAssumption
<1> DEFINE s == scanning
           next == next_node_id[s]
           more == next # 0 /\ new_iterator # End /\ new_iterator <= next
<1>1. s \in sessions /\ s \in Session /\ s # Null /\ next \in 0..MaxId
  BY DEF NodeRegisterLoop, APITypeOK
<1>2. CASE more
  <2>1. PICK j \in NodeId \cup {End} : Successor(nodes[s], new_iterator, j) /\ new_iterator' = j
    BY <1>2 DEF NodeRegisterLoop
  <2>2. /\ next_node_id' = [next_node_id EXCEPT ![s] = Increment(@)]
        /\ UNCHANGED <<nodes, sessions, scanning>>
    BY <1>2 DEF NodeRegisterLoop
  <2>3. next_node_id'[s] = IF next = MaxId THEN 0 ELSE next + 1
    BY <1>1, <2>2, IncrementWraps DEF APITypeOK
  <2>4. /\ new_iterator = next /\ next \in Registered(nodes[s])
        /\ \A i \in 1..(next - 1) : i \in Registered(nodes[s])
    BY <1>1, <1>2 DEF IdInv, ScanInv, Registered, NodeId, End
  <2> HIDE DEF next, s
  <2>5. ScanInv'
    <3>1. \A i \in 1..next : i \in Registered(nodes[s])
      BY <1>1, <2>4
    <3>2. CASE next = MaxId
      BY <3>1, <3>2, <2>2, <2>3 DEF ScanInv, Registered, NodeId, s
    <3>3. CASE next # MaxId
      BY <3>1, <3>3, <1>1, <2>1, <2>2, <2>3, <2>4 DEF ScanInv, Successor, Registered, NodeId, End, s
    <3>4. QED
      BY <3>2, <3>3
  <2>6. NextIdIsLeastFree'
    BY <2>2 DEF IdInv, NextIdIsLeastFree, s, APITypeOK
  <2>7. QED
    BY <2>5, <2>6 DEF IdInv
<1>3. CASE ~more
  <2>1. scanning' = Null /\ UNCHANGED <<nodes, sessions, next_node_id>>
    BY <1>3 DEF NodeRegisterLoop
  <2>2. IF next = 0 THEN Registered(nodes[s]) = NodeId
        ELSE /\ next \notin Registered(nodes[s])
             /\ \A i \in 1..(next - 1) : i \in Registered(nodes[s])
    BY <1>1, <1>3 DEF IdInv, ScanInv, Registered, NodeId, End
  <2>3. QED
    BY <2>1, <2>2 DEF IdInv, NextIdIsLeastFree, ScanInv
<1>4. QED
  BY <1>2, <1>3

LEMMA UnRegisterKeepsIds ==
  ASSUME APITypeOK, IdInv, Idle, NEW s \in sessions, NEW m \in Message, NodeUnRegister(s, m)
  PROVE  IdInv'
<1> USE NodeManagerAssumption, APISessionAssumption
<1> DEFINE id == m.node_id
<1>1. \/ UNCHANGED sessionVars
      \/ /\ id \in Registered(nodes[s])
         /\ nodes' = [nodes EXCEPT ![s] = Erase(@, id)]
         /\ next_node_id' = [next_node_id EXCEPT ![s] = IF @ > id \/ @ = 0 THEN id ELSE @]
         /\ sessions' \subseteq sessions
         /\ UNCHANGED <<scanning, new_iterator>>
  BY DEF NodeUnRegister, FreedId, remoteThrow, send
<1>2. CASE UNCHANGED sessionVars
  BY <1>2, IdFrame DEF sessionVars
<1>3. CASE ~ UNCHANGED sessionVars
  <2>1. \A t \in sessions : scanning # t
    BY DEF Idle, APITypeOK
  <2>2. \A t \in sessions : t # s => nodes'[t] = nodes[t] /\ next_node_id'[t] = next_node_id[t]
    BY <1>1, <1>3 DEF APITypeOK
  <2>3. id \in NodeId /\ id \in Registered(nodes[s])
    BY <1>1, <1>3 DEF Registered
  <2>4. Registered(nodes'[s]) = Registered(nodes[s]) \ {id}
    BY <1>1, <1>3, <2>3 DEF Registered, Erase, APITypeOK
  <2>5. next_node_id'[s] = IF next_node_id[s] > id \/ next_node_id[s] = 0 THEN id ELSE next_node_id[s]
    BY <1>1, <1>3 DEF APITypeOK
  <2>6. next_node_id[s] \in 0..MaxId /\ Registered(nodes[s]) \subseteq NodeId
    BY DEF APITypeOK, Registered
  <2> HIDE DEF id
  <2>7. /\ next_node_id'[s] # 0
        /\ next_node_id'[s] \notin Registered(nodes'[s])
        /\ \A i \in 1..(next_node_id'[s] - 1) : i \in Registered(nodes'[s])
    <3>1. CASE next_node_id[s] = 0
      <4>1. Registered(nodes[s]) = NodeId
        BY <3>1, <2>1 DEF IdInv, NextIdIsLeastFree
      <4>2. QED
        BY <3>1, <4>1, <2>3, <2>4, <2>5 DEF NodeId
    <3>2. CASE next_node_id[s] # 0
      <4>1. /\ next_node_id[s] \notin Registered(nodes[s])
            /\ \A i \in 1..(next_node_id[s] - 1) : i \in Registered(nodes[s])
        BY <3>2, <2>1 DEF IdInv, NextIdIsLeastFree
      <4>2. QED
        BY <3>2, <4>1, <2>3, <2>4, <2>5, <2>6 DEF NodeId
    <3>3. QED
      BY <3>1, <3>2
  <2>8. NextIdIsLeastFree'
    BY <1>1, <1>3, <2>1, <2>2, <2>7 DEF IdInv, NextIdIsLeastFree
  <2>9. ScanInv'
    BY <1>1, <1>3 DEF ScanInv, Idle
  <2>10. QED
    BY <2>8, <2>9 DEF IdInv
<1>4. QED
  BY <1>2, <1>3

LEMMA IdStep == APITypeOK /\ IdInv /\ [APINext]_apiVars => IdInv'
<1> USE NodeManagerAssumption, APISessionAssumption
<1> SUFFICES ASSUME APITypeOK, IdInv, [APINext]_apiVars
             PROVE  IdInv'
  OBVIOUS
<1>1. CASE NodeRegisterLoop
  BY <1>1, LoopKeepsIds
<1>2. ASSUME NEW s \in Session, handleAccept(s)
      PROVE  IdInv'
  <2>1. \A t \in sessions' : t # s => t \in sessions /\ nodes'[t] = nodes[t]
                                      /\ next_node_id'[t] = next_node_id[t]
    BY <1>2 DEF handleAccept, APITypeOK
  <2>2. next_node_id'[s] = 1 /\ Registered(nodes'[s]) = {}
    BY <1>2 DEF handleAccept, APITypeOK, Registered, NoNodes
  <2>3. scanning' = Null /\ scanning = Null
    BY <1>2 DEF handleAccept, Idle
  <2>4. \A t \in sessions : scanning # t
    BY <2>3 DEF APITypeOK
  <2>5. QED
    BY <2>1, <2>2, <2>3, <2>4 DEF IdInv, NextIdIsLeastFree, ScanInv
<1>3. ASSUME NEW s \in Session, handleReceive(s)
      PROVE  IdInv'
  <2>1. Head(requests[s]) \in Message /\ s \in sessions /\ Idle
    BY <1>3 DEF handleReceive, APITypeOK
  <2>2. PICK m \in Message : process(s, m)
    BY <1>3, <2>1 DEF handleReceive
  <2>3. CASE NodeRegister(s, m)
    BY <2>1, <2>3, RegisterKeepsIds
  <2>4. CASE NodeUnRegister(s, m)
    BY <2>1, <2>4, UnRegisterKeepsIds
  <2>5. CASE NodeListen(s, m) \/ NodeBind(s, m) \/ NodeConnectOrAccept \/ SocketUnRegister(s, m)
    <3>1. UNCHANGED <<nodes, next_node_id, scanning, new_iterator>> /\ sessions' \subseteq sessions
      BY <2>5 DEF NodeListen, NodeBind, NodeConnectOrAccept, SocketUnRegister, remoteThrow, send, sessionVars
    <3>2. QED
      BY <3>1, IdFrame
  <2>6. QED
    BY <2>2, <2>3, <2>4, <2>5 DEF process
<1>4. ASSUME NEW s \in Session, handleReceiveError(s)
      PROVE  IdInv'
  <2>1. /\ \A t \in sessions' : t \in sessions /\ nodes'[t] = nodes[t]
        /\ UNCHANGED <<next_node_id, scanning>>
        /\ scanning = Null
    BY <1>4 DEF handleReceiveError, dropSession, APITypeOK, Idle
  <2>2. QED
    BY <2>1 DEF IdInv, NextIdIsLeastFree, ScanInv
<1>5. CASE Clients \/ UNCHANGED apiVars
  BY <1>5, IdFrame DEF Clients, clientSend, clientReceive, clientClose, sessionVars, apiVars
<1>6. QED
  BY <1>1, <1>2, <1>3, <1>4, <1>5 DEF APINext, Daemon

\* The search of NodeRegister and the shortcut of NodeUnRegister always leave
\* the least free id, or 0 when there is none, in next_node_id.
THEOREM NextIdCorrect == APISpec => []NextIdIsLeastFree
<1> USE NodeManagerAssumption, APISessionAssumption
<1>1. APIInit => IdInv
  BY DEF APIInit, IdInv, NextIdIsLeastFree, ScanInv
<1>2. QED
  BY <1>1, IdStep, APITypeCorrect, PTL DEF APISpec, IdInv

-----------------------------------------------------------------------------
LEMMA OwnFrame ==
  ASSUME SessionsOwnLiveNodes, sessions' \subseteq sessions,
         \A t \in sessions' : nodes'[t] = nodes[t], live \subseteq live'
  PROVE  SessionsOwnLiveNodes'
BY DEF SessionsOwnLiveNodes

LEMMA OwnStep == APITypeOK /\ SessionsOwnLiveNodes /\ [APINext]_apiVars => SessionsOwnLiveNodes'
<1> USE NodeManagerAssumption, APISessionAssumption
<1> SUFFICES ASSUME APITypeOK, SessionsOwnLiveNodes, [APINext]_apiVars
             PROVE  SessionsOwnLiveNodes'
  OBVIOUS
<1>1. CASE NodeRegisterLoop
  BY <1>1, OwnFrame DEF NodeRegisterLoop, dbVars
<1>2. ASSUME NEW s \in Session, handleAccept(s)
      PROVE  SessionsOwnLiveNodes'
  <2>1. \A t \in sessions' : t # s => t \in sessions /\ nodes'[t] = nodes[t]
    BY <1>2 DEF handleAccept, APITypeOK
  <2>2. \A i \in NodeId : nodes'[s][i] = Null
    BY <1>2 DEF handleAccept, APITypeOK, NoNodes
  <2>3. live' = live
    BY <1>2 DEF handleAccept, dbVars
  <2>4. QED
    BY <2>1, <2>2, <2>3 DEF SessionsOwnLiveNodes
<1>3. ASSUME NEW s \in Session, handleReceive(s)
      PROVE  SessionsOwnLiveNodes'
  <2>1. PICK m \in Message : process(s, m)
    BY <1>3 DEF handleReceive, APITypeOK
  <2>2. s \in sessions
    BY <1>3 DEF handleReceive
  <2>3. CASE NodeRegister(s, m)
    <3>1. CASE next_node_id[s] = 0
      BY <2>3, <3>1, OwnFrame DEF NodeRegister, remoteThrow, dbVars, sessionVars
    <3>2. CASE next_node_id[s] # 0
      <4>1. PICK n \in Node : createNode(n) /\ nodes' = [nodes EXCEPT ![s] = Insert(@, next_node_id[s], n)]
        BY <2>3, <3>2 DEF NodeRegister
      <4>2. sessions' \subseteq sessions /\ next_node_id[s] \in NodeId
        BY <2>2, <2>3, <3>2 DEF NodeRegister, send, APITypeOK, NodeId
      <4>3. n \notin live /\ live' = live \cup {n}
        BY <4>1 DEF createNode
      <4>4. \A t \in sessions, i \in NodeId : nodes[t][i] # n
        BY <4>3 DEF SessionsOwnLiveNodes
      <4>5. \A t \in sessions, i \in NodeId :
              nodes'[t][i] = nodes[t][i] \/ (t = s /\ i = next_node_id[s] /\ nodes'[t][i] = n)
        BY <2>2, <4>1, <4>2 DEF Insert, APITypeOK
      <4>6. QED
        BY <4>2, <4>3, <4>4, <4>5 DEF SessionsOwnLiveNodes
    <3>3. QED
      BY <3>1, <3>2
  <2>4. CASE NodeUnRegister(s, m)
    <3>1. \/ UNCHANGED <<nodes, live>>
          \/ /\ m.node_id \in Registered(nodes[s])
             /\ live' = live \ {nodes[s][m.node_id]}
             /\ nodes' = [nodes EXCEPT ![s] = Erase(@, m.node_id)]
      <4>1. fate = "running"
        BY <1>3 DEF handleReceive, Idle, Running
      <4>2. QED
        BY <2>4, <4>1 DEF NodeUnRegister, remoteThrow, destroyNode, delete, dbVars, sessionVars
    <3>2. sessions' \subseteq sessions
      BY <2>4 DEF NodeUnRegister, remoteThrow, send, sessionVars
    <3>3. CASE UNCHANGED <<nodes, live>>
      BY <3>2, <3>3, OwnFrame
    <3>4. CASE /\ m.node_id \in Registered(nodes[s])
               /\ live' = live \ {nodes[s][m.node_id]}
               /\ nodes' = [nodes EXCEPT ![s] = Erase(@, m.node_id)]
      <4>1. \A t \in sessions, i \in NodeId :
              nodes'[t][i] = IF t = s /\ i = m.node_id THEN Null ELSE nodes[t][i]
        BY <2>2, <3>4 DEF Erase, APITypeOK, Registered
      <4>2. m.node_id \in NodeId
        BY <3>4 DEF Registered
      <4>3. QED
        BY <2>2, <3>2, <3>4, <4>1, <4>2 DEF SessionsOwnLiveNodes
    <3>5. QED
      BY <3>1, <3>3, <3>4
  <2>5. CASE NodeListen(s, m) \/ NodeBind(s, m) \/ NodeConnectOrAccept \/ SocketUnRegister(s, m)
    <3>1. UNCHANGED <<nodes, live>> /\ sessions' \subseteq sessions
      BY <2>5 DEF NodeListen, NodeBind, NodeConnectOrAccept, SocketUnRegister, remoteThrow, send,
                  sessionVars, dbVars, bind
    <3>2. QED
      BY <3>1, OwnFrame
  <2>6. QED
    BY <2>1, <2>3, <2>4, <2>5 DEF process
<1>4. ASSUME NEW s \in Session, handleReceiveError(s)
      PROVE  SessionsOwnLiveNodes'
  BY <1>4, OwnFrame DEF handleReceiveError, dropSession, APITypeOK, dbVars
<1>5. CASE Clients \/ UNCHANGED apiVars
  BY <1>5, OwnFrame DEF Clients, clientSend, clientReceive, clientClose, sessionVars, dbVars, apiVars
<1>6. QED
  BY <1>1, <1>2, <1>3, <1>4, <1>5 DEF APINext, Daemon

\* A session's pointers are to nodes that exist and that no other entry has,
\* so NodeUnRegister never deletes a node twice and never one of another
\* session.
THEOREM OwnershipCorrect == APISpec => []SessionsOwnLiveNodes
<1> USE NodeManagerAssumption, APISessionAssumption
<1>1. APIInit => SessionsOwnLiveNodes
  BY DEF APIInit, SessionsOwnLiveNodes
<1>2. QED
  BY <1>1, OwnStep, APITypeCorrect, PTL DEF APISpec

-----------------------------------------------------------------------------
\* The daemon implements NodeIds: a step of the id search or of a client is a
\* stutter, NodeRegister a Register of the least free id, a reply that cannot
\* be delivered a Close.
THEOREM IdsImplemented == APISpec => HandsOutLeastIds
<1> USE NodeManagerAssumption, APISessionAssumption
<1> DEFINE U == [s \in Session |-> IF s \in sessions THEN Registered(nodes[s]) ELSE {}]
<1>1. APIInit => Ids!Init
  BY DEF APIInit, Ids!Init
<1>2. APITypeOK /\ NextIdIsLeastFree /\ [APINext]_apiVars => [Ids!Next]_(Ids!idVars)
  <2> SUFFICES ASSUME APITypeOK, NextIdIsLeastFree, [APINext]_apiVars
               PROVE  Ids!Next \/ UNCHANGED <<sessions, U>>
    BY DEF Ids!idVars
  <2>1. ASSUME sessions' = sessions, \A s \in sessions : nodes'[s] = nodes[s]
        PROVE  UNCHANGED <<sessions, U>>
    BY <2>1
  <2>2. ASSUME NEW s \in sessions, sessions' = sessions \ {s},
               \A t \in sessions' : nodes'[t] = nodes[t]
        PROVE  Ids!Next
    <3>1. U' = [U EXCEPT ![s] = {}] /\ s \in Session
      BY <2>2 DEF APITypeOK
    <3>2. Ids!Close(s)
      BY <2>2, <3>1 DEF Ids!Close
    <3>3. QED
      BY <3>1, <3>2 DEF Ids!Next
  <2>3. ASSUME NEW s \in Session, handleAccept(s)
        PROVE  Ids!Next
    <3>1. U' = U
      BY <2>3 DEF handleAccept, APITypeOK, NoNodes, Registered
    <3>2. Ids!Open(s)
      BY <2>3, <3>1 DEF handleAccept, Ids!Open
    <3>3. QED
      BY <3>2 DEF Ids!Next
  <2>4. ASSUME NEW s \in Session, handleReceive(s)
        PROVE  Ids!Next \/ UNCHANGED <<sessions, U>>
    <3>1. PICK m \in Message : process(s, m)
      BY <2>4 DEF handleReceive, APITypeOK
    <3>2. s \in sessions /\ scanning # s
      BY <2>4 DEF handleReceive, Idle
    <3>3. CASE NodeRegister(s, m)
      <4>1. CASE next_node_id[s] = 0
        BY <3>3, <4>1, <2>1 DEF NodeRegister, remoteThrow, sessionVars
      <4>2. CASE next_node_id[s] # 0 /\ ~peer_open[s]
        BY <3>2, <3>3, <4>2, <2>2 DEF NodeRegister, send, APITypeOK
      <4>3. CASE next_node_id[s] # 0 /\ peer_open[s]
        <5>0. PICK id : id = next_node_id[s]
          OBVIOUS
        <5>1. PICK n \in Node : nodes' = [nodes EXCEPT ![s] = Insert(@, id, n)]
          BY <3>3, <4>3, <5>0 DEF NodeRegister
        <5>2. sessions' = sessions
          BY <3>3, <4>3 DEF NodeRegister, send
        <5>3. /\ id \in NodeId /\ id \notin Registered(nodes[s])
              /\ \A i \in NodeId : i < id => i \in Registered(nodes[s])
          BY <3>2, <4>3, <5>0 DEF NextIdIsLeastFree, APITypeOK, NodeId
        <5>4. Registered(nodes'[s]) = Registered(nodes[s]) \cup {id}
          BY <5>1, <5>3 DEF Insert, Registered, APITypeOK
        <5>5. U' = [U EXCEPT ![s] = Registered(nodes[s]) \cup {id}]
          BY <5>1, <5>2, <5>4, <3>2 DEF APITypeOK
        <5>6. Ids!Register(s, id)
          BY <5>2, <5>3, <5>5, <3>2 DEF Ids!Register, Ids!NodeId, NodeId
        <5>7. QED
          BY <5>3, <5>6 DEF Ids!Next, Ids!NodeId, NodeId
      <4>4. QED
        BY <4>1, <4>2, <4>3
    <3>4. CASE NodeUnRegister(s, m)
      <4>1. CASE UNCHANGED sessionVars
        BY <4>1, <2>1 DEF sessionVars
      <4>2. CASE ~ UNCHANGED sessionVars
        <5> DEFINE id == m.node_id
        <5>1. id \in Registered(nodes[s]) /\ nodes' = [nodes EXCEPT ![s] = Erase(@, id)] /\ send(s, m)
          BY <3>4, <4>2 DEF NodeUnRegister, remoteThrow
        <5>2. CASE ~peer_open[s]
          BY <5>1, <5>2, <3>2, <2>2 DEF send, APITypeOK
        <5>3. CASE peer_open[s]
          <6>1. sessions' = sessions
            BY <5>1, <5>3 DEF send
          <6>2. Registered(nodes'[s]) = Registered(nodes[s]) \ {id}
            BY <5>1 DEF Erase, Registered, APITypeOK
          <6>3. U' = [U EXCEPT ![s] = Registered(nodes[s]) \ {id}]
            BY <5>1, <6>1, <6>2, <3>2 DEF APITypeOK
          <6>4. Ids!Unregister(s, id) /\ id \in NodeId
            BY <5>1, <6>1, <6>3, <3>2 DEF Ids!Unregister, Registered
          <6>5. QED
            BY <6>4 DEF Ids!Next, Ids!NodeId, NodeId
        <5>4. QED
          BY <5>2, <5>3
      <4>3. QED
        BY <4>1, <4>2
    <3>5. CASE NodeListen(s, m) \/ NodeBind(s, m) \/ NodeConnectOrAccept \/ SocketUnRegister(s, m)
      <4>1. nodes' = nodes /\ (sessions' = sessions \/ sessions' = sessions \ {s})
        BY <3>5 DEF NodeListen, NodeBind, NodeConnectOrAccept, SocketUnRegister, remoteThrow, send, sessionVars
      <4>2. QED
        BY <4>1, <3>2, <2>1, <2>2
    <3>6. QED
      BY <3>1, <3>3, <3>4, <3>5 DEF process
  <2>5. ASSUME NEW s \in Session, handleReceiveError(s)
        PROVE  Ids!Next
    BY <2>5, <2>2 DEF handleReceiveError, dropSession, APITypeOK
  <2>6. CASE NodeRegisterLoop \/ Clients \/ UNCHANGED apiVars
    <3>1. UNCHANGED <<nodes, sessions>>
      BY <2>6 DEF NodeRegisterLoop, Clients, clientSend, clientReceive, clientClose, sessionVars, apiVars
    <3>2. QED
      BY <3>1
  <2>7. QED
    BY <2>3, <2>4, <2>5, <2>6 DEF APINext, Daemon
<1>3. QED
  BY <1>1, <1>2, APITypeCorrect, NextIdCorrect, PTL DEF APISpec, HandsOutLeastIds, Ids!Spec

-----------------------------------------------------------------------------
\* Registering a node puts it into a free place of the map of its session, where
\* Insert would otherwise have left the older node; unregistering takes the node
\* that is deleted out of its map and no other.  No node but those of a session
\* that ends gets lost.
THEOREM OrphansFromDropsOnly == APISpec => OrphanedOnlyByDrop
<1>1. ASSUME APITypeOK, SessionsOwnLiveNodes, NextIdIsLeastFree, [APINext]_apiVars
      PROVE  [Orphans' \subseteq Orphans \/ sessions' # sessions]_apiVars
  <2> SUFFICES ASSUME sessions' = sessions, NEW n \in Orphans'
               PROVE  n \in Orphans
    OBVIOUS
  <2>1. n \in live' /\ \A t \in sessions : \A i \in NodeId : nodes'[t][i] # n
    BY DEF Orphans
  <2>2. CASE live' = live /\ nodes' = nodes
    BY <2>1, <2>2 DEF Orphans
  <2>3. ASSUME NEW s \in Session, handleReceive(s)
        PROVE  n \in Orphans
    <3> DEFINE m == Head(requests[s])
    <3>1. s \in sessions /\ scanning = Null /\ process(s, m)
      BY <2>3 DEF handleReceive, Idle
    <3>2. sessions \subseteq Session /\ nodes \in [Session -> [NodeId -> Node \cup {Null}]]
          /\ live \subseteq Node /\ next_node_id[s] \in 0..MaxId
      BY <1>1 DEF APITypeOK, DBTypeOK
    <3>3. ASSUME NodeRegister(s, m)
          PROVE  n \in Orphans
      <4>1. CASE remoteThrow(s, m)
        BY <2>2, <4>1 DEF remoteThrow, dbVars, sessionVars
      <4> DEFINE id == next_node_id[s]
      <4>2. ASSUME NEW k \in Node, createNode(k), nodes' = [nodes EXCEPT ![s] = Insert(@, id, k)], id # 0
            PROVE  n \in Orphans
        <5>1. id \in NodeId /\ nodes[s][id] = Null
          BY <1>1, <3>1, <3>2, <4>2, APISessionAssumption DEF NextIdIsLeastFree, Registered, NodeId
        <5>2. nodes'[s] = [nodes[s] EXCEPT ![id] = k]
          BY <3>2, <4>2, <5>1 DEF Insert
        <5>3. nodes'[s][id] = k /\ \A i \in NodeId \ {id} : nodes'[s][i] = nodes[s][i]
          BY <3>2, <5>1, <5>2
        <5>4. n # k /\ live' = live \cup {k}
          BY <2>1, <3>1, <4>2, <5>1, <5>3 DEF createNode
        <5>5. ASSUME NEW t \in sessions, NEW i \in NodeId, nodes[t][i] = n
              PROVE  FALSE
          <6>1. nodes[t][i] # Null
            BY <2>1, <3>2, <5>4, <5>5, NodeManagerAssumption
          <6>2. nodes'[t][i] = nodes[t][i]
            BY <3>2, <4>2, <5>1, <5>3, <6>1
          <6> QED BY <2>1, <5>5, <6>2
        <5> QED BY <2>1, <5>4, <5>5 DEF Orphans
      <4> QED BY <3>3, <4>1, <4>2 DEF NodeRegister
    <3>4. ASSUME NodeUnRegister(s, m)
          PROVE  n \in Orphans
      <4> DEFINE id == m.node_id
      <4>1. CASE remoteThrow(s, m)
        BY <2>2, <4>1 DEF remoteThrow, dbVars, sessionVars
      <4>2. ASSUME id \in Registered(nodes[s]), destroyNode(nodes[s][id]), fate' = "running",
                   nodes' = [nodes EXCEPT ![s] = Erase(@, id)]
            PROVE  n \in Orphans
        <5>1. id \in NodeId /\ nodes[s][id] \in live
          BY <1>1, <3>1, <4>2 DEF Registered, SessionsOwnLiveNodes
        <5>2. live' = live \ {nodes[s][id]}
          BY <4>2 DEF destroyNode, delete
        <5>3. ASSUME NEW t \in sessions, NEW i \in NodeId, nodes[t][i] = n
              PROVE  FALSE
          <6>1. t # s \/ i # id
            BY <2>1, <5>2, <5>3
          <6>2. nodes'[t][i] = nodes[t][i]
            BY <3>2, <4>2, <5>1, <6>1 DEF Erase
          <6> QED BY <2>1, <5>3, <6>2
        <5> QED BY <2>1, <5>2, <5>3 DEF Orphans
      <4>3. ASSUME fate' # "running", destroyNode(nodes[s][id]), UNCHANGED nodes
            PROVE  n \in Orphans
        <5>1. fate' = fate => fate' = "running"
          BY <2>3 DEF handleReceive, Idle, Running
        <5>2. live' = live
          BY <4>3, <5>1 DEF destroyNode
        <5> QED BY <2>2, <4>3, <5>2
      <4> QED BY <3>4, <4>1, <4>2, <4>3 DEF NodeUnRegister, sessionVars
    <3>5. ASSUME NodeListen(s, m) \/ NodeBind(s, m) \/ NodeConnectOrAccept \/ SocketUnRegister(s, m)
          PROVE  n \in Orphans
      <4>1. live' = live /\ nodes' = nodes
        BY <3>5 DEF NodeListen, NodeBind, NodeConnectOrAccept, SocketUnRegister, remoteThrow, bind,
                    dbVars, sessionVars
      <4> QED BY <2>2, <4>1
    <3> QED BY <3>1, <3>3, <3>4, <3>5 DEF process
  <2>4. ASSUME NEW s \in Session, handleAccept(s) \/ handleReceiveError(s)
        PROVE  FALSE
    BY <2>4 DEF handleAccept, handleReceiveError, dropSession
  <2>5. CASE NodeRegisterLoop \/ Clients \/ UNCHANGED apiVars
    <3>1. live' = live /\ nodes' = nodes
      BY <2>5 DEF NodeRegisterLoop, Clients, clientSend, clientReceive, clientClose, apiVars, dbVars, sessionVars
    <3> QED BY <2>2, <3>1
  <2> QED BY <1>1, <2>3, <2>4, <2>5 DEF APINext, Daemon
<1> QED BY <1>1, APITypeCorrect, OwnershipCorrect, NextIdCorrect, PTL DEF APISpec, OrphanedOnlyByDrop
=============================================================================
