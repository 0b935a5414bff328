------------------------------ MODULE APISession ------------------------------
(***************************************************************************)
(* The daemon's side of the client API: the sessions of the Unix socket    *)
(* server (src/daemon/api/UnixAPIServer.cpp, APIServer.cpp) and the        *)
(* handlers of a session (APISession.cpp), on top of the NodeManager.      *)
(*                                                                         *)
(* The daemon runs one thread.  A handler is one step, except NodeRegister *)
(* whose search for the next free node id is modelled iteration by         *)
(* iteration: `scanning' is the session whose handler is in that loop, and *)
(* no other handler runs meanwhile.  Clients run concurrently with it.     *)
(***************************************************************************)
EXTENDS NodeManager, Sequences

CONSTANTS
  Session,      \* addresses a session can be allocated at
  MaxId,        \* the largest value of a node id (2^32 - 1 in the code)
  Token,        \* tokens clients mark their messages with
  Types,        \* the types of message clients send
  MaxInFlight   \* bound on the messages under way on one connection

MsgType == {"NODE_REGISTER", "NODE_UNREGISTER", "NODE_CONNECT", "NODE_ACCEPT",
            "NODE_LISTEN", "NODE_BIND", "SOCKET_UNREGISTER"}

ASSUME APISessionAssumption ==
  /\ Null \notin Session
  /\ MaxId \in Nat \ {0}
  /\ Types \subseteq MsgType
  /\ MaxInFlight \in Nat \ {0}

VARIABLES
  sessions,      \* APIServer::api_sessions
  nodes,         \* APISession::nodes of every session: node id to node, or Null
  next_node_id,  \* APISession::next_node_id of every session
  scanning,      \* the session in the loop of NodeRegister, or Null
  new_iterator,  \* the iterator of that loop: the id it is at, or End
  requests,      \* bytes under way to the daemon, per connection
  replies,       \* bytes under way to the client, per connection
  peer_open,     \* whether the client still has its end of the connection open
  outcome        \* what became of the daemon's process

sessionVars == <<sessions, nodes, next_node_id, scanning, new_iterator>>
wireVars == <<requests, replies, peer_open>>
apiVars == <<dbVars, sessionVars, wireVars, outcome>>

NodeId == 1..MaxId
End == 0

\* An APIMessage.  error is its remote-throw field.
Message == [type : MsgType, token : Token, node_id : 0..MaxId,
            sh : SH \cup {Null}, error : BOOLEAN]

APITypeOK ==
  /\ DBTypeOK
  /\ sessions \subseteq Session
  /\ nodes \in [Session -> [NodeId -> Node \cup {Null}]]
  /\ next_node_id \in [Session -> 0..MaxId]
  /\ scanning \in sessions \cup {Null}
  /\ new_iterator \in NodeId \cup {End}
  /\ requests \in [Session -> Seq(Message)]
  /\ replies \in [Session -> Seq(Message)]
  /\ peer_open \in [Session -> BOOLEAN]
  /\ outcome \in {"running", "terminated", "undefined"}

NoNodes == [i \in NodeId |-> Null]
Registered(map) == {i \in NodeId : map[i] # Null}

APIInit ==
  /\ DBInit
  /\ sessions = {}
  /\ nodes = [s \in Session |-> NoNodes]
  /\ next_node_id = [s \in Session |-> 1]
  /\ scanning = Null
  /\ new_iterator = End
  /\ requests = [s \in Session |-> <<>>]
  /\ replies = [s \in Session |-> <<>>]
  /\ peer_open = [s \in Session |-> FALSE]
  /\ outcome = "running"

Running == fate = "running" /\ outcome = "running"
Idle == Running /\ scanning = Null

-----------------------------------------------------------------------------
(***************************************************************************)
(* Sending, and the end of a session.                                      *)
(***************************************************************************)

\* Deletes the session; its nodes are left alone.
dropSession(s) ==
  /\ sessions' = sessions \ {s}
  /\ nodes' = [nodes EXCEPT ![s] = NoNodes]

\* UnixAPISession::send.  A write to a connection the client has closed fails:
\* the session is deleted while the handler that is sending, and handleReceive
\* above it, still use it.
send(s, m) ==
  \/ /\ peer_open[s]
     /\ replies' = [replies EXCEPT ![s] = Append(@, m)]
     /\ UNCHANGED <<sessions, outcome>>
  \/ /\ ~peer_open[s]
     /\ sessions' = sessions \ {s}
     /\ outcome' = "undefined"
     /\ UNCHANGED replies

\* Fills in a reply with the error and does not send it.
remoteThrow(s, m) == UNCHANGED <<dbVars, sessionVars, replies, outcome>>

-----------------------------------------------------------------------------
(***************************************************************************)
(* The handlers.  m is the request, already taken off the connection.      *)
(***************************************************************************)

\* j is where ++ takes an iterator of the map that is at id i.
Successor(map, i, j) ==
  \/ /\ j \in Registered(map) /\ i < j
     /\ \A k \in Registered(map) : i < k => j <= k
  \/ /\ j = End
     /\ \A k \in Registered(map) : k <= i

Increment(id) == (id + 1) % (MaxId + 1)

NodeRegister(s, m) ==
  \/ /\ next_node_id[s] = 0
     /\ remoteThrow(s, m)
  \/ /\ next_node_id[s] # 0
     /\ \E n \in Node :
          /\ createNode(n)
          /\ nodes' = [nodes EXCEPT ![s] = Insert(@, next_node_id[s], n)]
     /\ send(s, [m EXCEPT !.node_id = next_node_id[s]])
     /\ \/ /\ peer_open[s]
           /\ next_node_id' = [next_node_id EXCEPT ![s] = Increment(@)]
           /\ scanning' = s
           /\ \E j \in NodeId \cup {End} :
                /\ Successor(nodes'[s], next_node_id[s], j)
                /\ new_iterator' = j
        \/ /\ ~peer_open[s]
           /\ UNCHANGED <<next_node_id, scanning, new_iterator>>

\* Mutant: an iterator that is at next_node_id ends the loop.
NodeRegisterLoop_strict ==
  /\ Running
  /\ scanning # Null
  /\ LET next == next_node_id[scanning]
         more == next # 0 /\ new_iterator # End /\ new_iterator < next
     IN /\ next_node_id' = [next_node_id EXCEPT ![scanning] = IF more THEN Increment(@) ELSE @]
        /\ \E j \in NodeId \cup {End} :
             /\ IF more THEN Successor(nodes[scanning], new_iterator, j) ELSE j = End
             /\ new_iterator' = j
        /\ scanning' = IF more THEN scanning ELSE Null
  /\ UNCHANGED <<dbVars, sessions, nodes, wireVars, outcome>>

\* The while loop of NodeRegister: one iteration, or the way out.
NodeRegisterLoop ==
  /\ Running
  /\ scanning # Null
  /\ LET next == next_node_id[scanning]
         more == next # 0 /\ new_iterator # End /\ new_iterator <= next
     IN \/ /\ more
           /\ next_node_id' = [next_node_id EXCEPT ![scanning] = Increment(@)]
           /\ \E j \in NodeId \cup {End} :
                /\ Successor(nodes[scanning], new_iterator, j)
                /\ new_iterator' = j
           /\ UNCHANGED scanning
        \/ /\ ~more
           /\ scanning' = Null
           /\ new_iterator' = End
           /\ UNCHANGED next_node_id
  /\ UNCHANGED <<dbVars, sessions, nodes, wireVars, outcome>>

\* Mutants: an id that is freed when all ids were in use is not offered again;
\* an id that is freed is offered only then.
FreedId_forgetsZero(next, id) == IF next > id THEN id ELSE next
FreedId_onlyZero(next, id) == IF next = 0 THEN id ELSE next

\* next_node_id once the node of the id is unregistered.
FreedId(next, id) == IF next > id \/ next = 0 THEN id ELSE next

\* Mutants: the entry of the node stays in the session; the node is deleted
\* without the NodeManager.
NodeUnRegister_keepsEntry(s, m) ==
  /\ m.node_id \in Registered(nodes[s])
  /\ destroyNode(nodes[s][m.node_id])
  /\ send(s, m)
  /\ UNCHANGED <<nodes, next_node_id, scanning, new_iterator>>

NodeUnRegister_deletes(s, m) ==
  /\ m.node_id \in Registered(nodes[s])
  /\ delete(nodes[s][m.node_id])
  /\ nodes' = [nodes EXCEPT ![s] = Erase(@, m.node_id)]
  /\ send(s, m)
  /\ UNCHANGED <<nodes_unbound, nodes_bound, fate, next_node_id, scanning, new_iterator>>

NodeUnRegister(s, m) ==
  LET id == m.node_id IN
  \/ /\ id \notin Registered(nodes[s])
     /\ remoteThrow(s, m)
  \/ /\ id \in Registered(nodes[s])
     /\ destroyNode(nodes[s][id])
     /\ \/ /\ fate' = "running"
           /\ nodes' = [nodes EXCEPT ![s] = Erase(@, id)]
           /\ next_node_id' = [next_node_id EXCEPT ![s] = FreedId(@, id)]
           /\ send(s, m)
           /\ UNCHANGED <<scanning, new_iterator>>
        \/ /\ fate' # "running"
           /\ UNCHANGED <<sessionVars, replies, outcome>>

\* Mutant: no reply.
NodeListen_silent(s, m) == UNCHANGED <<dbVars, sessionVars, replies, outcome>>

\* max_connections of the node is set here and read nowhere.
NodeListen(s, m) ==
  \/ /\ m.node_id \notin Registered(nodes[s])
     /\ remoteThrow(s, m)
  \/ /\ m.node_id \in Registered(nodes[s])
     /\ send(s, m)
     /\ UNCHANGED <<dbVars, nodes, next_node_id, scanning, new_iterator>>

\* A request without a key is answered as if it had bound the node.
NodeBind(s, m) ==
  \/ /\ m.node_id \notin Registered(nodes[s])
     /\ remoteThrow(s, m)
  \/ /\ m.node_id \in Registered(nodes[s])
     /\ m.sh = Null
     /\ send(s, m)
     /\ UNCHANGED <<dbVars, nodes, next_node_id, scanning, new_iterator>>
  \/ /\ m.node_id \in Registered(nodes[s])
     /\ m.sh # Null
     /\ bind(nodes[s][m.node_id], m.sh)
     /\ \/ fate' = "running" /\ send(s, m)
        \/ fate' # "running" /\ UNCHANGED <<sessions, replies, outcome>>
     /\ UNCHANGED <<nodes, next_node_id, scanning, new_iterator>>

\* NodeConnect and NodeAccept: `throw;' with no exception being handled.
NodeConnectOrAccept ==
  /\ outcome' = "terminated"
  /\ UNCHANGED <<dbVars, sessionVars, replies>>

SocketUnRegister(s, m) == UNCHANGED <<dbVars, sessionVars, replies, outcome>>

process(s, m) ==
  \/ m.type = "NODE_REGISTER" /\ NodeRegister(s, m)
  \/ m.type = "NODE_UNREGISTER" /\ NodeUnRegister(s, m)
  \/ m.type \in {"NODE_CONNECT", "NODE_ACCEPT"} /\ NodeConnectOrAccept
  \/ m.type = "NODE_LISTEN" /\ NodeListen(s, m)
  \/ m.type = "NODE_BIND" /\ NodeBind(s, m)
  \/ m.type = "SOCKET_UNREGISTER" /\ SocketUnRegister(s, m)

-----------------------------------------------------------------------------
(***************************************************************************)
(* The server: one outstanding accept, one outstanding receive a session.  *)
(***************************************************************************)

\* A client connects and handleAccept makes a session of the connection.
handleAccept(s) ==
  /\ Idle
  /\ s \notin sessions
  /\ sessions' = sessions \cup {s}
  /\ nodes' = [nodes EXCEPT ![s] = NoNodes]
  /\ next_node_id' = [next_node_id EXCEPT ![s] = 1]
  /\ requests' = [requests EXCEPT ![s] = <<>>]
  /\ replies' = [replies EXCEPT ![s] = <<>>]
  /\ peer_open' = [peer_open EXCEPT ![s] = TRUE]
  /\ UNCHANGED <<dbVars, scanning, new_iterator, outcome>>

\* A message was received.
handleReceive(s) ==
  /\ Idle
  /\ s \in sessions
  /\ requests[s] # <<>>
  /\ requests' = [requests EXCEPT ![s] = Tail(@)]
  /\ process(s, Head(requests[s]))
  /\ UNCHANGED peer_open

\* The receive failed: the client has closed, and all it sent has been read.
handleReceiveError(s) ==
  /\ Idle
  /\ s \in sessions
  /\ requests[s] = <<>>
  /\ ~peer_open[s]
  /\ dropSession(s)
  /\ UNCHANGED <<dbVars, next_node_id, scanning, new_iterator, wireVars, outcome>>

Daemon ==
  \/ NodeRegisterLoop
  \/ \E s \in Session : handleAccept(s) \/ handleReceive(s) \/ handleReceiveError(s)

-----------------------------------------------------------------------------
(***************************************************************************)
(* Clients: programs that speak the protocol of APIMessage.proto.  Rebind  *)
(* and SharedKeys say which bind requests they make; requests under way    *)
(* count as if they had been served.                                       *)
(***************************************************************************)
PendingBind(s) == {requests[s][p] : p \in {q \in DOMAIN requests[s] : requests[s][q].type = "NODE_BIND"}}

MayRequestBind(s, i, sh) ==
  /\ \/ Rebind
     \/ /\ nodes[s][i] # Null => bound_sh[nodes[s][i]] = Null
        /\ \A b \in PendingBind(s) : b.node_id # i
  /\ \/ SharedKeys
     \/ /\ \A n \in live : bound_sh[n] # sh
        /\ \A t \in Session : \A b \in PendingBind(t) : b.sh # sh

clientSend(s, m) ==
  /\ peer_open[s]
  /\ Len(requests[s]) + Len(replies[s]) < MaxInFlight
  /\ requests' = [requests EXCEPT ![s] = Append(@, m)]
  /\ UNCHANGED <<dbVars, sessionVars, replies, peer_open, outcome>>

\* What clients of this environment send: register with no node id, the rest
\* with one, and a key only in a bind.
ClientRequest(s) ==
  {m \in Message :
     /\ m.type \in Types
     /\ ~m.error
     /\ (m.node_id = 0) <=> (m.type = "NODE_REGISTER")
     /\ m.sh # Null => m.type = "NODE_BIND" /\ MayRequestBind(s, m.node_id, m.sh)}

clientReceive(s) ==
  /\ peer_open[s]
  /\ replies[s] # <<>>
  /\ replies' = [replies EXCEPT ![s] = Tail(@)]
  /\ UNCHANGED <<dbVars, sessionVars, requests, peer_open, outcome>>

clientClose(s) ==
  /\ peer_open[s]
  /\ peer_open' = [peer_open EXCEPT ![s] = FALSE]
  /\ replies' = [replies EXCEPT ![s] = <<>>]
  /\ UNCHANGED <<dbVars, sessionVars, requests, outcome>>

Clients ==
  \E s \in Session :
    \/ \E m \in ClientRequest(s) : clientSend(s, m)
    \/ clientReceive(s)
    \/ clientClose(s)

APINext == Daemon \/ Clients

APISpec == APIInit /\ [][APINext]_apiVars

-----------------------------------------------------------------------------
(***************************************************************************)
(* Properties.                                                             *)
(***************************************************************************)

\* Between two handlers, next_node_id is the least id that is not in use in
\* the session, and 0 exactly when all are (APISession.cpp:74, "If it turns
\* into zero, than this was the last node we can create on this APISession").
NextIdIsLeastFree ==
  \A s \in sessions : scanning # s =>
    LET next == next_node_id[s] IN
    IF next = 0 THEN Registered(nodes[s]) = NodeId
    ELSE /\ next \notin Registered(nodes[s])
         /\ \A i \in 1..(next - 1) : i \in Registered(nodes[s])

\* The pointers sessions hold are to nodes that exist, and no node has two
\* owners, although addresses are used again and sessions come and go.
SessionsOwnLiveNodes ==
  \A s, t \in sessions : \A i, j \in NodeId :
    /\ nodes[s][i] # Null => nodes[s][i] \in live
    /\ nodes[s][i] # Null /\ nodes[s][i] = nodes[t][j] => s = t /\ i = j

\* Nodes that are in no session's map.
Orphans == {n \in live : \A s \in sessions : \A i \in NodeId : nodes[s][i] # n}

\* A node is orphaned only by the end of its session (APISession.cpp:162,
\* "TODO: delete nodes."), never by registering or unregistering nodes.
OrphanedOnlyByDrop ==
  [][Orphans' \subseteq Orphans \/ sessions' # sessions]_apiVars

\* The daemon never goes on with a session it has deleted (APISession.h:65,
\* on dropSession: "Just a caution: deletes this APISession instance").
NoUseAfterDelete == outcome # "undefined"

\* NodeRegister, with its incremental search for the next id, and
\* NodeUnRegister hand ids out as the specification of NodeIds asks.
Ids == INSTANCE NodeIds WITH
  open <- sessions,
  used <- [s \in Session |-> IF s \in sessions THEN Registered(nodes[s]) ELSE {}]

HandsOutLeastIds == Ids!Spec
=============================================================================
