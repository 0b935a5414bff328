--------------------------- MODULE P2PSession_proofs ---------------------------
(***************************************************************************)
(* For any number of programs, objects, nodes, keys, ids and tokens.  The  *)
(* library is a client as APISession assumes clients to be, so everything  *)
(* proved of the daemon holds in the composition; and the two ends of a    *)
(* connection agree on the nodes of the program and on the call under way. *)
(***************************************************************************)
EXTENDS P2PSession, NodeManager_proofs

\* The map of a session has the ids of the program's objects, each once.
Matches(map, ids) ==
  /\ Registered(map) = {ids[o] : o \in Object} \ {0}
  /\ \A o, p \in Object : ids[o] = ids[p] => o = p \/ ids[o] = 0

\* The ids once the caller of clientExchange() has got m as its answer.
Answered(s, m) == [handle[s] EXCEPT ![exchange[s].object] = NewHandle(@, exchange[s].request, m)]

\* The only promise is that of the call under way, and has the value v.
Promise(s, v) == [NoPromises EXCEPT ![exchange[s].request.token] = v]

\* The program is not in a call: nothing is under way.
BetweenCalls(s) ==
  /\ exchange[s] = Null
  /\ requests[s] = <<>> /\ replies[s] = <<>>
  /\ awaiting_receive[s] = NoPromises
  /\ Matches(nodes[s], handle[s])

\* The request is on its way ...
CallSent(s) ==
  /\ requests[s] = <<exchange[s].request>> /\ replies[s] = <<>>
  /\ awaiting_receive[s] = Promise(s, Unset)
  /\ Matches(nodes[s], handle[s])

\* ... or its answer is ...
CallServed(s, m) ==
  /\ requests[s] = <<>> /\ replies[s] = <<m>>
  /\ awaiting_receive[s] = Promise(s, Unset)
  /\ m.token = exchange[s].request.token
  /\ Matches(nodes[s], Answered(s, m))

\* ... or the answer is in the promise ...
CallAnswered(s, m) ==
  /\ requests[s] = <<>> /\ replies[s] = <<>>
  /\ awaiting_receive[s] = Promise(s, m)
  /\ Matches(nodes[s], Answered(s, m))

\* ... or no answer comes: the daemon has filled one in and not sent it, or is
\* no longer there.
CallLost(s) ==
  /\ requests[s] = <<>> /\ replies[s] = <<>>
  /\ awaiting_receive[s] = Promise(s, Unset)

\* The object of the call has no node exactly if the call is to register one.
InCall(s) ==
  /\ exchange[s] # Null
  /\ exchange[s].request.node_id = handle[s][exchange[s].object]
  /\ (exchange[s].request.type = "NODE_REGISTER") <=> (handle[s][exchange[s].object] = 0)
  /\ ~exchange[s].request.error
  /\ \/ CallSent(s)
     \/ \E m \in Message : ~m.error /\ (CallServed(s, m) \/ CallAnswered(s, m))
     \/ CallLost(s)

Closed(s) ==
  /\ handle[s] = NoHandles /\ exchange[s] = Null
  /\ awaiting_receive[s] = NoPromises
  /\ replies[s] = <<>>

ConnectionInv(s) ==
  IF peer_open[s] THEN s \in sessions /\ (BetweenCalls(s) \/ InCall(s)) ELSE Closed(s)

ClientInv == \A s \in Session : ConnectionInv(s)
-----------------------------------------------------------------------------
(***************************************************************************)
(* What clients of the daemon do, the library does, and nothing else.      *)
(***************************************************************************)
LEMMA MarkedToken ==
  ASSUME NEW t \in Token
  PROVE  markMessage(t) \in Token
<1>1. MaxToken \in Nat /\ t \in 0..MaxToken /\ Token = 0..MaxToken
  BY P2PSessionAssumption
<1>2. (t + 1) % (MaxToken + 1) \in 0..MaxToken
  BY <1>1
<1> QED BY <1>1, <1>2 DEF markMessage

\* A call sends one request, and one that APISession allows, when nothing is
\* under way.
LEMMA CallIsSend ==
  ASSUME ClientTypeOK, NEW s \in Session, ConnectionInv(s), NEW o \in Object, NEW request \in Message,
         ~request.error, request.type \in Types,
         (request.node_id = 0) <=> (request.type = "NODE_REGISTER"),
         request.sh # Null => request.type = "NODE_BIND" /\ MayRequestBind(s, request.node_id, request.sh),
         clientExchange(s, o, request)
  PROVE  \E m \in ClientRequest(s) : clientSend(s, m)
<1> DEFINE m == [request EXCEPT !.token = next_msg_token[s]]
<1>1. m \in Message
  BY DEF ClientTypeOK, Message
<1>2. m.type = request.type /\ m.node_id = request.node_id /\ m.sh = request.sh /\ m.error = request.error
  BY DEF Message
<1> HIDE DEF m
<1>3. m \in ClientRequest(s)
  BY <1>1, <1>2 DEF ClientRequest
<1>4. requests[s] = <<>> /\ replies[s] = <<>> /\ peer_open[s]
  BY DEF clientExchange, ConnectionInv, BetweenCalls, InCall
<1>5. Len(requests[s]) + Len(replies[s]) < MaxInFlight
  BY <1>4, APISessionAssumption
<1>6. /\ requests' = [requests EXCEPT ![s] = Append(@, m)]
      /\ UNCHANGED <<dbVars, sessionVars, replies, peer_open, outcome>>
  BY DEF clientExchange, m
<1> QED BY <1>3, <1>4, <1>5, <1>6 DEF clientSend

LEMMA RequestIsMessage ==
  ASSUME NEW type \in MsgType, NEW id \in 0..MaxId, NEW sh \in SH \cup {Null}
  PROVE  /\ Request(type, id, sh) \in Message
         /\ Request(type, id, sh).type = type
         /\ Request(type, id, sh).node_id = id
         /\ Request(type, id, sh).sh = sh
         /\ ~Request(type, id, sh).error
BY P2PSessionAssumption DEF Request, Message

LEMMA CallsSend ==
  ASSUME ClientTypeOK, NEW s \in Session, ConnectionInv(s), Calls(s)
  PROVE  Clients
<1>1. PICK o \in Object : construct(s, o) \/ (\E type \in MsgType : callNode(s, o, type))
                          \/ (\E sh \in SH : bindNodeTo(s, o, sh))
  BY DEF Calls
<1>2. Types \subseteq MsgType /\ handle[s][o] \in 0..MaxId /\ 0 \in 0..MaxId
  BY APISessionAssumption DEF ClientTypeOK
<1>3. CASE construct(s, o)
  <2> DEFINE r == Request("NODE_REGISTER", 0, Null)
  <2>1. /\ r \in Message /\ r.type = "NODE_REGISTER" /\ r.node_id = 0 /\ r.sh = Null /\ ~r.error
        /\ r.type \in Types /\ clientExchange(s, o, r)
    BY <1>2, <1>3, RequestIsMessage DEF construct, MsgType
  <2> HIDE DEF r
  <2> QED BY <2>1, CallIsSend DEF Clients
<1>4. ASSUME NEW type \in MsgType, callNode(s, o, type)
      PROVE  Clients
  <2> DEFINE r == Request(type, handle[s][o], Null)
  <2>1. /\ r \in Message /\ r.type = type /\ r.node_id = handle[s][o] /\ r.sh = Null /\ ~r.error
        /\ type \in Types \ {"NODE_REGISTER"} /\ handle[s][o] # 0 /\ clientExchange(s, o, r)
    BY <1>2, <1>4, RequestIsMessage DEF callNode
  <2> HIDE DEF r
  <2> QED BY <2>1, CallIsSend DEF Clients
<1>5. ASSUME NEW sh \in SH, bindNodeTo(s, o, sh)
      PROVE  Clients
  <2> DEFINE r == Request("NODE_BIND", handle[s][o], sh)
  <2>1. /\ r \in Message /\ r.type = "NODE_BIND" /\ r.node_id = handle[s][o] /\ r.sh = sh /\ ~r.error
        /\ r.type \in Types /\ handle[s][o] # 0 /\ MayRequestBind(s, handle[s][o], sh)
        /\ clientExchange(s, o, r)
    BY <1>2, <1>5, RequestIsMessage DEF bindNodeTo, MsgType
  <2> HIDE DEF r
  <2> QED BY <2>1, CallIsSend DEF Clients
<1> QED BY <1>1, <1>3, <1>4, <1>5

LEMMA LibraryIsClient ==
  ASSUME ClientTypeOK, ClientInv, [ClientNext]_clientVars
  PROVE  [APINext]_apiVars
<1>1. CASE DaemonLoop
  BY <1>1 DEF DaemonLoop, APINext, Daemon
<1>2. ASSUME NEW s \in Session, DaemonStep(s) \/ connect(s)
      PROVE  APINext
  BY <1>2 DEF DaemonStep, connect, APINext, Daemon
<1>3. ASSUME NEW s \in Session, receiveReply(s) \/ disconnect(s)
      PROVE  APINext
  BY <1>3 DEF receiveReply, disconnect, clientReceive, APINext, Clients
<1>4. ASSUME NEW s \in Session, Calls(s)
      PROVE  APINext
  BY <1>4, CallsSend DEF ClientInv, APINext
<1>5. ASSUME NEW s \in Session, exchangeReturns(s)
      PROVE  UNCHANGED apiVars
  BY <1>5 DEF exchangeReturns
<1>6. CASE UNCHANGED clientVars
  BY <1>6 DEF clientVars
<1> QED BY <1>1, <1>2, <1>3, <1>4, <1>5, <1>6 DEF ClientNext, Library

-----------------------------------------------------------------------------
LEMMA ExchangeType ==
  ASSUME ClientTypeOK, NEW s \in Session, NEW o \in Object, NEW request \in Message,
         clientExchange(s, o, request)
  PROVE  /\ exchange' \in [Session -> [object : Object, request : Message] \cup {Null}]
         /\ awaiting_receive' \in [Session -> [Token -> Message \cup {Unset, Null}]]
         /\ next_msg_token' \in [Session -> Token]
         /\ handle' = handle
<1> DEFINE m == [request EXCEPT !.token = next_msg_token[s]]
<1>1. m \in Message
  BY DEF ClientTypeOK, Message
<1>2. m.token \in Token
  BY <1>1 DEF Message
<1>3. /\ exchange' = [exchange EXCEPT ![s] = [object |-> o, request |-> m]]
      /\ awaiting_receive' = [awaiting_receive EXCEPT ![s] = Insert(@, m.token, Unset)]
      /\ next_msg_token' = [next_msg_token EXCEPT ![s] = markMessage(@)]
      /\ handle' = handle
  BY DEF clientExchange
<1> HIDE DEF m
<1>4. Insert(awaiting_receive[s], m.token, Unset) \in [Token -> Message \cup {Unset, Null}]
  BY <1>2 DEF Insert, ClientTypeOK
<1>5. [object |-> o, request |-> m] \in [object : Object, request : Message]
  BY <1>1
<1>6. markMessage(next_msg_token[s]) \in Token
  BY MarkedToken DEF ClientTypeOK
<1> QED BY <1>3, <1>4, <1>5, <1>6 DEF ClientTypeOK

LEMMA CallType ==
  ASSUME ClientTypeOK, NEW s \in Session, Calls(s)
  PROVE  \E o \in Object, r \in Message :
           /\ r.node_id = handle[s][o]
           /\ (r.type = "NODE_REGISTER") <=> (handle[s][o] = 0)
           /\ ~r.error
           /\ clientExchange(s, o, r)
<1>1. PICK o \in Object : construct(s, o) \/ (\E type \in MsgType : callNode(s, o, type))
                          \/ (\E sh \in SH : bindNodeTo(s, o, sh))
  BY DEF Calls
<1>2. handle[s][o] \in 0..MaxId
  BY DEF ClientTypeOK
<1>3. CASE construct(s, o)
  BY <1>2, <1>3, RequestIsMessage DEF construct, MsgType
<1>4. ASSUME NEW type \in MsgType, callNode(s, o, type)
      PROVE  \E r \in Message :
               /\ r.node_id = handle[s][o]
               /\ (r.type = "NODE_REGISTER") <=> (handle[s][o] = 0)
               /\ ~r.error
               /\ clientExchange(s, o, r)
  BY <1>2, <1>4, RequestIsMessage DEF callNode
<1>5. ASSUME NEW sh \in SH, bindNodeTo(s, o, sh)
      PROVE  \E r \in Message :
               /\ r.node_id = handle[s][o]
               /\ (r.type = "NODE_REGISTER") <=> (handle[s][o] = 0)
               /\ ~r.error
               /\ clientExchange(s, o, r)
  BY <1>2, <1>5, RequestIsMessage DEF bindNodeTo, MsgType
<1> QED BY <1>1, <1>3, <1>4, <1>5

LEMMA ClientTypeStep ==
  ASSUME ClientTypeOK, ClientInv, [ClientNext]_clientVars
  PROVE  ClientTypeOK'
<1>1. APITypeOK'
  BY LibraryIsClient, APITypeStep DEF ClientTypeOK
<1> DEFINE LibraryTypeOK == /\ handle \in [Session -> [Object -> 0..MaxId]]
                            /\ exchange \in [Session -> [object : Object, request : Message] \cup {Null}]
                            /\ awaiting_receive \in [Session -> [Token -> Message \cup {Unset, Null}]]
                            /\ next_msg_token \in [Session -> Token]
<1> SUFFICES LibraryTypeOK'
  BY <1>1 DEF ClientTypeOK
<1>2. LibraryTypeOK
  BY DEF ClientTypeOK
<1>3. CASE UNCHANGED libraryVars
  BY <1>2, <1>3 DEF libraryVars
<1>4. ASSUME NEW s \in Session, connect(s)
      PROVE  LibraryTypeOK'
  BY <1>2, <1>4, P2PSessionAssumption DEF connect
<1>5. ASSUME NEW s \in Session, disconnect(s)
      PROVE  LibraryTypeOK'
  <2>1. NoHandles \in [Object -> 0..MaxId] /\ NoPromises \in [Token -> Message \cup {Unset, Null}]
    BY APISessionAssumption DEF NoHandles, NoPromises
  <2> QED BY <1>2, <1>5, <2>1 DEF disconnect
<1>6. ASSUME NEW s \in Session, receiveReply(s)
      PROVE  LibraryTypeOK'
  <2> DEFINE m == Head(replies[s])
  <2>1. m \in Message
    BY <1>6 DEF receiveReply, ClientTypeOK, APITypeOK
  <2>2. m.token \in Token
    BY <2>1 DEF Message
  <2>3. awaiting_receive' = [awaiting_receive EXCEPT ![s][m.token] = m]
        /\ UNCHANGED <<handle, exchange, next_msg_token>>
    BY <1>6 DEF receiveReply
  <2> HIDE DEF m
  <2> QED BY <1>2, <2>1, <2>2, <2>3
<1>7. ASSUME NEW s \in Session, exchangeReturns(s)
      PROVE  LibraryTypeOK'
  <2> DEFINE request == exchange[s].request
             o == exchange[s].object
             reply == awaiting_receive[s][request.token]
             new == IF reply.error /\ request.type # "NODE_UNREGISTER" THEN handle[s][o]
                    ELSE NewHandle(handle[s][o], request, reply)
  <2>1. /\ awaiting_receive' = [awaiting_receive EXCEPT ![s] = Pruned(@, request.token)]
        /\ handle' = [handle EXCEPT ![s][o] = new]
        /\ exchange' = [exchange EXCEPT ![s] = Null]
        /\ next_msg_token' = next_msg_token
        /\ exchange[s] # Null /\ reply \notin {Unset, Null}
    BY <1>7 DEF exchangeReturns
  <2>2. o \in Object /\ request \in Message
    BY <1>2, <2>1
  <2>3. request.token \in Token
    BY <2>2 DEF Message
  <2>4. reply \in Message
    BY <1>2, <2>1, <2>3
  <2>5. reply.node_id \in 0..MaxId /\ handle[s][o] \in 0..MaxId
    BY <1>2, <2>2, <2>4 DEF Message
  <2>6. new \in 0..MaxId
    <3>1. 0 \in 0..MaxId
      BY APISessionAssumption
    <3> QED BY <2>5, <3>1, Zenon DEF NewHandle
  <2>7. Pruned(awaiting_receive[s], request.token) \in [Token -> Message \cup {Unset, Null}]
    BY <1>2, <2>3 DEF Pruned, Erase
  <2> HIDE DEF request, o, reply, new
  <2> QED BY <1>2, <2>1, <2>2, <2>6, <2>7
<1>8. ASSUME NEW s \in Session, Calls(s)
      PROVE  LibraryTypeOK'
  <2>1. PICK o \in Object, r \in Message : clientExchange(s, o, r)
    BY <1>8, CallType
  <2> QED BY <1>2, <2>1, ExchangeType
<1> QED
  BY <1>3, <1>4, <1>5, <1>6, <1>7, <1>8
     DEF ClientNext, Library, DaemonLoop, DaemonStep, clientVars

-----------------------------------------------------------------------------
(***************************************************************************)
(* The ids of a program's objects and the map of its session.              *)
(***************************************************************************)

\* A new node for an object that has none, under an id that is free.
LEMMA MatchesAdd ==
  ASSUME NEW map \in [NodeId -> Node \cup {Null}], NEW ids \in [Object -> 0..MaxId], Matches(map, ids),
         NEW o \in Object, ids[o] = 0, NEW id \in NodeId, map[id] = Null, NEW n \in Node
  PROVE  Matches([map EXCEPT ![id] = n], [ids EXCEPT ![o] = id])
<1> DEFINE map2 == [map EXCEPT ![id] = n]
           ids2 == [ids EXCEPT ![o] = id]
<1>1. id # 0 /\ n # Null
  BY NodeManagerAssumption, APISessionAssumption DEF NodeId
<1>2. map2[id] = n /\ \A i \in NodeId \ {id} : map2[i] = map[i]
  OBVIOUS
<1>3. ids2[o] = id /\ \A p \in Object \ {o} : ids2[p] = ids[p]
  BY APISessionAssumption DEF NodeId
<1> HIDE DEF map2, ids2
<1>4. Registered(map2) = Registered(map) \cup {id}
  BY <1>1, <1>2 DEF Registered
<1>5. {ids2[p] : p \in Object} \ {0} = ({ids[p] : p \in Object} \ {0}) \cup {id}
  BY <1>1, <1>3
<1>6. \A p \in Object : ids[p] # id
  BY <1>1 DEF Matches, Registered
<1>7. \A p, q \in Object : ids2[p] = ids2[q] => p = q \/ ids2[p] = 0
  BY <1>1, <1>3, <1>6 DEF Matches
<1> QED BY <1>4, <1>5, <1>7 DEF Matches, map2, ids2

\* The node of an object goes.
LEMMA MatchesRemove ==
  ASSUME NEW map \in [NodeId -> Node \cup {Null}], NEW ids \in [Object -> 0..MaxId], Matches(map, ids),
         NEW o \in Object, ids[o] # 0
  PROVE  Matches([map EXCEPT ![ids[o]] = Null], [ids EXCEPT ![o] = 0])
<1> DEFINE map2 == [map EXCEPT ![ids[o]] = Null]
           ids2 == [ids EXCEPT ![o] = 0]
<1>1. ids[o] \in NodeId
  BY APISessionAssumption DEF NodeId
<1>2. map2[ids[o]] = Null /\ \A i \in NodeId \ {ids[o]} : map2[i] = map[i]
  BY <1>1
<1>3. ids2[o] = 0 /\ \A p \in Object \ {o} : ids2[p] = ids[p]
  OBVIOUS
<1> HIDE DEF map2, ids2
<1>4. Registered(map2) = Registered(map) \ {ids[o]}
  BY <1>1, <1>2 DEF Registered
<1>5. \A p \in Object \ {o} : ids[p] # ids[o]
  BY DEF Matches
<1>6. {ids2[p] : p \in Object} \ {0} = ({ids[p] : p \in Object} \ {0}) \ {ids[o]}
  BY <1>3, <1>5
<1>7. \A p, q \in Object : ids2[p] = ids2[q] => p = q \/ ids2[p] = 0
  BY <1>3 DEF Matches
<1> QED BY <1>4, <1>6, <1>7 DEF Matches, map2, ids2

-----------------------------------------------------------------------------
\* A handler of one session leaves the others alone, and writes to no client
\* that has closed.
LEMMA ProcessLocal ==
  ASSUME APITypeOK, NEW s \in sessions, NEW m \in Message, process(s, m)
  PROVE  /\ \A t \in Session \ {s} : /\ nodes'[t] = nodes[t] /\ replies'[t] = replies[t]
                                     /\ t \in sessions => t \in sessions'
         /\ peer_open[s] => sessions' = sessions
         /\ ~peer_open[s] => replies' = replies
<1> DEFINE Local == /\ \A t \in Session \ {s} : /\ nodes'[t] = nodes[t] /\ replies'[t] = replies[t]
                                                /\ t \in sessions => t \in sessions'
                    /\ peer_open[s] => sessions' = sessions
                    /\ ~peer_open[s] => replies' = replies
<1> SUFFICES Local
  OBVIOUS
<1>1. ASSUME UNCHANGED <<sessions, nodes, replies>>
      PROVE  Local
  BY <1>1
<1>2. ASSUME NEW r, send(s, r), \A t \in Session \ {s} : nodes'[t] = nodes[t]
      PROVE  Local
  BY <1>2 DEF send, APITypeOK
<1> HIDE DEF Local
<1>3. CASE NodeRegister(s, m)
  <2>1. CASE remoteThrow(s, m)
    BY <1>1, <2>1 DEF remoteThrow, sessionVars
  <2>2. CASE ~remoteThrow(s, m)
    <3>1. PICK n \in Node : nodes' = [nodes EXCEPT ![s] = Insert(@, next_node_id[s], n)]
      BY <1>3, <2>2 DEF NodeRegister
    <3>2. send(s, [m EXCEPT !.node_id = next_node_id[s]])
      BY <1>3, <2>2 DEF NodeRegister
    <3>3. \A t \in Session \ {s} : nodes'[t] = nodes[t]
      BY <3>1 DEF APITypeOK
    <3> QED BY <1>2, <3>2, <3>3
  <2> QED BY <2>1, <2>2
<1>4. CASE NodeUnRegister(s, m)
  <2>1. CASE UNCHANGED <<sessions, nodes, replies>>
    BY <1>1, <2>1
  <2>2. CASE nodes' = [nodes EXCEPT ![s] = Erase(@, m.node_id)] /\ send(s, m)
    <3>1. \A t \in Session \ {s} : nodes'[t] = nodes[t]
      BY <2>2 DEF APITypeOK
    <3> QED BY <1>2, <2>2, <3>1
  <2> QED BY <1>4, <2>1, <2>2 DEF NodeUnRegister, remoteThrow, sessionVars
<1>5. CASE NodeListen(s, m) \/ NodeBind(s, m) \/ NodeConnectOrAccept \/ SocketUnRegister(s, m)
  <2>1. nodes' = nodes
    BY <1>5 DEF NodeListen, NodeBind, NodeConnectOrAccept, SocketUnRegister, remoteThrow, sessionVars
  <2>2. UNCHANGED <<sessions, replies>> \/ send(s, m)
    BY <1>5 DEF NodeListen, NodeBind, NodeConnectOrAccept, SocketUnRegister, remoteThrow, sessionVars
  <2> QED BY <1>1, <1>2, <2>1, <2>2
<1> QED BY <1>3, <1>4, <1>5 DEF process

LEMMA ConnectionFrame ==
  ASSUME NEW t \in Session, ConnectionInv(t), t \in sessions => t \in sessions',
         peer_open'[t] = peer_open[t], nodes'[t] = nodes[t],
         requests'[t] = requests[t], replies'[t] = replies[t],
         handle'[t] = handle[t], exchange'[t] = exchange[t], awaiting_receive'[t] = awaiting_receive[t]
  PROVE  ConnectionInv(t)'
BY DEF ConnectionInv, BetweenCalls, InCall, CallSent, CallServed, CallAnswered, CallLost, Closed, Answered, Promise

\* The handler of the request that is on its way answers it, having done with
\* the map what the caller will do with the id of the object; or the answer is
\* lost.
LEMMA ProcessAnswers ==
  ASSUME ClientTypeOK, IdInv, NEW s \in sessions, scanning = Null, peer_open[s], InCall(s), CallSent(s),
         process(s, exchange[s].request), requests'[s] = <<>>, UNCHANGED <<peer_open, libraryVars>>
  PROVE  ConnectionInv(s)'
<1> DEFINE r == exchange[s].request
           o == exchange[s].object
           ids == handle[s]
           Lost == CallLost(s)'
           Served(m) == CallServed(s, m)'
<1>1. /\ s \in Session /\ exchange[s] \in [object : Object, request : Message]
      /\ ids \in [Object -> 0..MaxId] /\ nodes[s] \in [NodeId -> Node \cup {Null}]
      /\ nodes \in [Session -> [NodeId -> Node \cup {Null}]] /\ replies \in [Session -> Seq(Message)]
  BY DEF ClientTypeOK, APITypeOK, InCall
<1>2. o \in Object /\ r \in Message
  BY <1>1
<1>3. /\ Matches(nodes[s], ids) /\ replies[s] = <<>> /\ awaiting_receive[s] = Promise(s, Unset)
      /\ r.node_id = ids[o] /\ ~r.error
      /\ (r.type = "NODE_REGISTER") <=> (ids[o] = 0)
  BY DEF CallSent, InCall
<1>4. process(s, r) /\ UNCHANGED <<handle, exchange, awaiting_receive>>
  BY DEF libraryVars
<1>5. ids[o] # 0 => ids[o] \in Registered(nodes[s])
  BY <1>1, <1>2, <1>3 DEF Matches
<1>6. sessions' = sessions
  BY <1>2, <1>4, ProcessLocal DEF ClientTypeOK
<1>7. ASSUME replies' = replies
      PROVE  Lost
  BY <1>3, <1>4, <1>7 DEF CallLost, Promise
<1>8. ASSUME NEW m \in Message, m.token = r.token, send(s, m),
             Matches(nodes'[s], [ids EXCEPT ![o] = NewHandle(@, r, m)])
      PROVE  Served(m)
  <2>1. replies'[s] = Append(replies[s], m)
    BY <1>1, <1>8 DEF send
  <2>2. replies'[s] = <<m>>
    BY <1>3, <2>1
  <2> QED BY <1>3, <1>4, <1>8, <2>2 DEF CallServed, Answered, Promise
<1>9. ASSUME Lost \/ \E m \in Message : ~m.error /\ Served(m)
      PROVE  ConnectionInv(s)'
  BY <1>3, <1>4, <1>6, <1>9 DEF ConnectionInv, InCall
<1> HIDE DEF Lost, Served, r, o, ids
<1>10. CASE r.type = "NODE_REGISTER" /\ NodeRegister(s, r)
  <2> DEFINE id == next_node_id[s]
             m == [r EXCEPT !.node_id = id]
  <2>1. CASE id = 0
    BY <1>7, <1>9, <1>10, <2>1 DEF NodeRegister, remoteThrow
  <2>2. CASE id # 0
    <3>1. PICK n \in Node : nodes' = [nodes EXCEPT ![s] = Insert(@, id, n)]
      BY <1>10, <2>2 DEF NodeRegister
    <3>2. send(s, m)
      BY <1>10, <2>2 DEF NodeRegister
    <3>3. id \in NodeId /\ id \in 0..MaxId
      BY <1>1, <2>2, APISessionAssumption DEF ClientTypeOK, APITypeOK, NodeId
    <3>4. nodes[s][id] = Null
      BY <1>1, <2>2, <3>3, APISessionAssumption DEF IdInv, NextIdIsLeastFree, Registered
    <3>5. m \in Message /\ m.token = r.token /\ m.error = r.error /\ m.node_id = id
      BY <1>2, <3>3 DEF Message
    <3>6. nodes'[s] = [nodes[s] EXCEPT ![id] = n]
      BY <1>1, <3>1, <3>4 DEF Insert
    <3>7. Matches(nodes'[s], [ids EXCEPT ![o] = id])
      <4>1. Matches([nodes[s] EXCEPT ![id] = n], [ids EXCEPT ![o] = id])
        BY <1>1, <1>2, <1>3, <1>10, <3>3, <3>4, MatchesAdd
      <4> QED BY <3>6, <4>1
    <3> HIDE DEF m
    <3>8. NewHandle(ids[o], r, m) = id
      BY <1>10, <3>5 DEF NewHandle
    <3> QED BY <1>3, <1>8, <1>9, <3>2, <3>5, <3>7, <3>8
  <2> QED BY <2>1, <2>2
<1>11. CASE r.type = "NODE_UNREGISTER" /\ NodeUnRegister(s, r)
  <2>1. ids[o] # 0 /\ ids[o] \in Registered(nodes[s])
    BY <1>3, <1>5, <1>11
  <2>2. CASE fate' = "running"
    <3>1. nodes' = [nodes EXCEPT ![s] = Erase(@, ids[o])] /\ send(s, r)
      BY <1>3, <1>11, <2>1, <2>2 DEF NodeUnRegister
    <3>2. nodes'[s] = [nodes[s] EXCEPT ![ids[o]] = Null]
      BY <1>1, <3>1 DEF Erase
    <3>3. Matches(nodes'[s], [ids EXCEPT ![o] = 0])
      <4>1. Matches([nodes[s] EXCEPT ![ids[o]] = Null], [ids EXCEPT ![o] = 0])
        BY <1>1, <1>2, <1>3, <2>1, MatchesRemove
      <4> QED BY <3>2, <4>1
    <3>4. NewHandle(ids[o], r, r) = 0
      BY <1>11 DEF NewHandle
    <3> QED BY <1>2, <1>3, <1>8, <1>9, <3>1, <3>3, <3>4
  <2>3. CASE fate' # "running"
    BY <1>3, <1>7, <1>9, <1>11, <2>1, <2>3 DEF NodeUnRegister
  <2> QED BY <2>2, <2>3
<1>12. CASE r.type \in {"NODE_LISTEN", "NODE_BIND"} /\ (NodeListen(s, r) \/ NodeBind(s, r))
  <2>1. nodes' = nodes
    BY <1>12 DEF NodeListen, NodeBind, remoteThrow, sessionVars
  <2>2. NewHandle(ids[o], r, r) = ids[o]
    BY <1>12 DEF NewHandle
  <2>3. [ids EXCEPT ![o] = ids[o]] = ids
    BY <1>1, <1>2
  <2>4. CASE send(s, r)
    BY <1>2, <1>3, <1>8, <1>9, <2>1, <2>2, <2>3, <2>4
  <2>5. CASE replies' = replies
    BY <1>7, <1>9, <2>5
  <2> QED BY <1>12, <2>4, <2>5 DEF NodeListen, NodeBind, remoteThrow
<1>13. CASE NodeConnectOrAccept \/ SocketUnRegister(s, r)
  BY <1>7, <1>9, <1>13 DEF NodeConnectOrAccept, SocketUnRegister
<1> QED BY <1>4, <1>10, <1>11, <1>12, <1>13 DEF process

-----------------------------------------------------------------------------
LEMMA ClientStep ==
  ASSUME ClientTypeOK, IdInv, ClientInv, [ClientNext]_clientVars
  PROVE  ClientInv'
<1> SUFFICES ASSUME NEW t \in Session
             PROVE  ConnectionInv(t)'
  BY DEF ClientInv
<1>1. ConnectionInv(t)
  BY DEF ClientInv
<1>2. APITypeOK
  BY DEF ClientTypeOK
<1>3. CASE DaemonLoop \/ UNCHANGED clientVars
  <2>1. UNCHANGED <<sessions, nodes, requests, replies, peer_open, handle, exchange, awaiting_receive>>
    BY <1>3 DEF DaemonLoop, NodeRegisterLoop, wireVars, libraryVars, clientVars, apiVars, sessionVars
  <2> QED BY <1>1, <2>1, ConnectionFrame
<1>4. ASSUME NEW s \in Session, handleReceive(s), UNCHANGED libraryVars
      PROVE  ConnectionInv(t)'
  <2> DEFINE m == Head(requests[s])
  <2>1. /\ s \in sessions /\ scanning = Null /\ requests[s] # <<>> /\ process(s, m)
        /\ requests' = [requests EXCEPT ![s] = Tail(@)] /\ peer_open' = peer_open
    BY <1>4 DEF handleReceive, Idle
  <2>2. requests \in [Session -> Seq(Message)] /\ m \in Message
    BY <1>2, <2>1 DEF APITypeOK
  <2>3. UNCHANGED <<handle, exchange, awaiting_receive>>
    BY <1>4 DEF libraryVars
  <2> HIDE DEF m
  <2>4. CASE t # s
    <3>1. t \in sessions => t \in sessions'
      BY <1>2, <2>1, <2>2, <2>4, ProcessLocal
    <3>2. nodes'[t] = nodes[t] /\ replies'[t] = replies[t]
      BY <1>2, <2>1, <2>2, <2>4, ProcessLocal
    <3> QED BY <1>1, <2>1, <2>2, <2>3, <2>4, <3>1, <3>2, ConnectionFrame
  <2>5. CASE t = s /\ ~peer_open[s]
    <3>1. replies' = replies
      BY <1>2, <2>1, <2>2, <2>5, ProcessLocal
    <3> QED BY <1>1, <2>1, <2>3, <2>5, <3>1 DEF ConnectionInv, Closed
  <2>6. CASE t = s /\ peer_open[s]
    <3>1. InCall(s) /\ CallSent(s)
      BY <1>1, <2>1, <2>6 DEF ConnectionInv, BetweenCalls, InCall, CallServed, CallAnswered, CallLost
    <3>2. requests[s] = <<exchange[s].request>>
      BY <3>1 DEF CallSent
    <3>3. m = exchange[s].request /\ requests'[s] = <<>>
      BY <2>1, <2>2, <3>2 DEF m
    <3> QED BY <1>4, <2>1, <2>6, <3>1, <3>3, ProcessAnswers
  <2> QED BY <2>4, <2>5, <2>6
<1>5. ASSUME NEW s \in Session, handleReceiveError(s), UNCHANGED libraryVars
      PROVE  ConnectionInv(t)'
  <2>1. /\ ~peer_open[s] /\ sessions' = sessions \ {s} /\ nodes' = [nodes EXCEPT ![s] = NoNodes]
        /\ UNCHANGED <<requests, replies, peer_open, handle, exchange, awaiting_receive>>
    BY <1>5 DEF handleReceiveError, dropSession, wireVars, libraryVars
  <2>2. CASE t # s
    BY <1>1, <1>2, <2>1, <2>2, ConnectionFrame DEF APITypeOK
  <2>3. CASE t = s
    BY <1>1, <2>1, <2>3 DEF ConnectionInv, Closed
  <2> QED BY <2>2, <2>3
<1>6. ASSUME NEW s \in Session, connect(s)
      PROVE  ConnectionInv(t)'
  <2>1. /\ ~peer_open[s] /\ sessions' = sessions \cup {s}
        /\ nodes' = [nodes EXCEPT ![s] = NoNodes]
        /\ requests' = [requests EXCEPT ![s] = <<>>] /\ replies' = [replies EXCEPT ![s] = <<>>]
        /\ peer_open' = [peer_open EXCEPT ![s] = TRUE]
        /\ UNCHANGED <<handle, exchange, awaiting_receive>>
    BY <1>6 DEF connect, handleAccept
  <2>2. CASE t # s
    BY <1>1, <1>2, <2>1, <2>2, ConnectionFrame DEF APITypeOK
  <2>3. CASE t = s
    <3>1. /\ peer_open'[s] /\ nodes'[s] = NoNodes /\ requests'[s] = <<>> /\ replies'[s] = <<>>
          /\ handle'[s] = NoHandles /\ exchange'[s] = Null /\ awaiting_receive'[s] = NoPromises
      BY <1>1, <1>2, <2>1, <2>3 DEF APITypeOK, ConnectionInv, Closed
    <3>2. Matches(NoNodes, NoHandles)
      BY DEF Matches, NoNodes, NoHandles, Registered
    <3> QED BY <2>1, <2>3, <3>1, <3>2 DEF ConnectionInv, BetweenCalls
  <2> QED BY <2>2, <2>3
<1>7. ASSUME NEW s \in Session, disconnect(s)
      PROVE  ConnectionInv(t)'
  <2>1. /\ peer_open' = [peer_open EXCEPT ![s] = FALSE] /\ replies' = [replies EXCEPT ![s] = <<>>]
        /\ handle' = [handle EXCEPT ![s] = NoHandles] /\ exchange' = [exchange EXCEPT ![s] = Null]
        /\ awaiting_receive' = [awaiting_receive EXCEPT ![s] = NoPromises]
        /\ UNCHANGED <<sessions, nodes, requests>>
    BY <1>7 DEF disconnect, clientClose, sessionVars
  <2>2. CASE t # s
    BY <1>1, <1>2, <2>1, <2>2, ConnectionFrame DEF APITypeOK, ClientTypeOK
  <2>3. CASE t = s
    BY <1>2, <2>1, <2>3 DEF APITypeOK, ClientTypeOK, ConnectionInv, Closed
  <2> QED BY <2>2, <2>3
<1>8. ASSUME NEW s \in Session, receiveReply(s)
      PROVE  ConnectionInv(t)'
  <2> DEFINE m == Head(replies[s])
  <2>1. /\ peer_open[s] /\ replies[s] # <<>>
        /\ awaiting_receive' = [awaiting_receive EXCEPT ![s][m.token] = m]
        /\ replies' = [replies EXCEPT ![s] = Tail(@)]
        /\ UNCHANGED <<sessions, nodes, requests, peer_open, handle, exchange>>
    BY <1>8 DEF receiveReply, sessionVars
  <2>2. CASE t # s
    BY <1>1, <1>2, <2>1, <2>2, ConnectionFrame DEF APITypeOK, ClientTypeOK
  <2>3. CASE t = s
    <3>1. InCall(s)
      BY <1>1, <2>1, <2>3 DEF ConnectionInv, BetweenCalls
    <3>2. PICK r \in Message : ~r.error /\ CallServed(s, r)
      BY <2>1, <3>1 DEF InCall, CallSent, CallAnswered, CallLost
    <3> DEFINE token == exchange[s].request.token
    <3>3. /\ requests[s] = <<>> /\ replies[s] = <<r>> /\ r.token = token
          /\ awaiting_receive[s] = [NoPromises EXCEPT ![token] = Unset]
          /\ Matches(nodes[s], Answered(s, r))
      BY <3>2 DEF CallServed, Promise
    <3>4. m = r /\ replies'[s] = <<>>
      BY <1>2, <2>1, <3>3 DEF APITypeOK
    <3>5. exchange[s] \in [object : Object, request : Message]
      BY <3>1 DEF InCall, ClientTypeOK
    <3>6. token \in Token
      BY <3>5 DEF Message
    <3> HIDE DEF token, m
    <3>7. awaiting_receive'[s] = [NoPromises EXCEPT ![token] = r]
      <4>1. awaiting_receive'[s] = [awaiting_receive[s] EXCEPT ![token] = r]
        BY <2>1, <3>3, <3>4 DEF ClientTypeOK
      <4> QED BY <3>3, <3>6, <4>1 DEF NoPromises
    <3>8. CallAnswered(s, r)'
      BY <2>1, <3>3, <3>4, <3>7 DEF CallAnswered, Promise, Answered, token
    <3>9. InCall(s)'
      BY <2>1, <3>1, <3>2, <3>8 DEF InCall
    <3> QED BY <1>1, <2>1, <2>3, <3>9 DEF ConnectionInv
  <2> QED BY <2>2, <2>3
<1>9. ASSUME NEW s \in Session, exchangeReturns(s)
      PROVE  ConnectionInv(t)'
  <2> DEFINE r == exchange[s].request
             o == exchange[s].object
             reply == awaiting_receive[s][r.token]
             new == IF reply.error /\ r.type # "NODE_UNREGISTER" THEN handle[s][o]
                    ELSE NewHandle(handle[s][o], r, reply)
  <2>1. /\ peer_open[s] /\ exchange[s] # Null /\ reply # Unset
        /\ awaiting_receive' = [awaiting_receive EXCEPT ![s] = Pruned(@, r.token)]
        /\ handle' = [handle EXCEPT ![s][o] = new]
        /\ exchange' = [exchange EXCEPT ![s] = Null]
    BY <1>9 DEF exchangeReturns
  <2>2. UNCHANGED <<sessions, nodes, requests, replies, peer_open>>
    BY <1>9 DEF exchangeReturns, apiVars, sessionVars, wireVars
  <2>3. CASE t # s
    BY <1>1, <2>1, <2>2, <2>3, ConnectionFrame DEF ClientTypeOK
  <2>4. CASE t = s
    <3>1. InCall(s)
      BY <1>1, <2>1, <2>4 DEF ConnectionInv, BetweenCalls
    <3>2. exchange[s] \in [object : Object, request : Message]
      BY <2>1 DEF ClientTypeOK
    <3>3. o \in Object /\ r.token \in Token
      BY <3>2 DEF Message
    <3>4. \A v : Promise(s, v)[r.token] = v
      BY <3>3 DEF Promise, NoPromises
    <3>5. PICK m \in Message : ~m.error /\ CallAnswered(s, m)
      BY <2>1, <3>1, <3>4 DEF InCall, CallSent, CallServed, CallLost
    <3>6. /\ requests[s] = <<>> /\ replies[s] = <<>> /\ awaiting_receive[s] = Promise(s, m)
          /\ Matches(nodes[s], Answered(s, m))
      BY <3>5 DEF CallAnswered
    <3>7. reply = m /\ new = NewHandle(handle[s][o], r, m)
      BY <3>4, <3>5, <3>6
    <3>8. handle'[s] = Answered(s, m)
      BY <2>1, <3>7 DEF ClientTypeOK, Answered
    <3>9. awaiting_receive'[s] = NoPromises
      <4>1. awaiting_receive'[s] = [Promise(s, m) EXCEPT ![r.token] = Null]
        BY <2>1, <3>6 DEF ClientTypeOK, Pruned, Erase
      <4> QED BY <3>3, <4>1 DEF Promise, NoPromises
    <3>10. exchange'[s] = Null
      BY <2>1 DEF ClientTypeOK
    <3> HIDE DEF r, o, reply, new
    <3>11. BetweenCalls(s)'
      BY <2>2, <3>6, <3>8, <3>9, <3>10 DEF BetweenCalls
    <3> QED BY <1>1, <2>1, <2>2, <2>4, <3>11 DEF ConnectionInv
  <2> QED BY <2>3, <2>4
<1>10. ASSUME NEW s \in Session, Calls(s)
       PROVE  ConnectionInv(t)'
  <2>1. PICK o \in Object, r \in Message :
           /\ r.node_id = handle[s][o]
           /\ (r.type = "NODE_REGISTER") <=> (handle[s][o] = 0)
           /\ ~r.error
           /\ clientExchange(s, o, r)
    BY <1>10, CallType
  <2> DEFINE m == [r EXCEPT !.token = next_msg_token[s]]
             x == [object |-> o, request |-> m]
  <2>2. m \in Message /\ m.token \in Token
    BY DEF ClientTypeOK, Message
  <2>3. m.type = r.type /\ m.node_id = r.node_id /\ m.error = r.error
    BY DEF Message
  <2>4. /\ peer_open[s] /\ exchange[s] = Null
        /\ awaiting_receive' = [awaiting_receive EXCEPT ![s] = Insert(@, m.token, Unset)]
        /\ requests' = [requests EXCEPT ![s] = Append(@, m)]
        /\ exchange' = [exchange EXCEPT ![s] = x]
        /\ UNCHANGED <<sessions, nodes, replies, peer_open, handle>>
    BY <2>1 DEF clientExchange, sessionVars
  <2>5. x \in [object : Object, request : Message] /\ x.object = o /\ x.request = m
    BY <2>2
  <2> HIDE DEF m, x
  <2>6. CASE t # s
    BY <1>1, <1>2, <2>4, <2>6, ConnectionFrame DEF APITypeOK, ClientTypeOK
  <2>7. CASE t = s
    <3>1. BetweenCalls(s)
      BY <1>1, <2>4, <2>7 DEF ConnectionInv, InCall
    <3>2. exchange'[s] = x /\ exchange'[s] # Null
      BY <2>4, <2>5, P2PSessionAssumption DEF ClientTypeOK
    <3>3. requests'[s] = <<m>>
      <4>1. requests'[s] = Append(requests[s], m)
        BY <1>2, <2>4 DEF APITypeOK
      <4>2. requests[s] = <<>>
        BY <3>1 DEF BetweenCalls
      <4> QED BY <4>1, <4>2
    <3>4. awaiting_receive'[s] = [NoPromises EXCEPT ![m.token] = Unset]
      BY <2>2, <2>4, <3>1 DEF ClientTypeOK, BetweenCalls, Insert, NoPromises
    <3>5. CallSent(s)'
      BY <2>4, <2>5, <3>1, <3>2, <3>3, <3>4 DEF CallSent, BetweenCalls, Promise
    <3>6. InCall(s)'
      BY <2>1, <2>3, <2>4, <2>5, <3>2, <3>5 DEF InCall
    <3> QED BY <1>1, <2>4, <2>7, <3>6 DEF ConnectionInv
  <2> QED BY <2>6, <2>7
<1> QED
  BY <1>3, <1>4, <1>5, <1>6, <1>7, <1>8, <1>9, <1>10 DEF ClientNext, Library, DaemonStep

-----------------------------------------------------------------------------
\* At every point of every call the connection of a program is in one of the
\* states of ConnectionInv, and the ids the daemon hands out stay the least free.
LEMMA ClientInvariant == ClientSpec => [](ClientTypeOK /\ IdInv /\ ClientInv)
<1>1. ClientInit => ClientTypeOK /\ IdInv /\ ClientInv
  <2> SUFFICES ASSUME ClientInit
               PROVE  ClientTypeOK /\ IdInv /\ ClientInv
    OBVIOUS
  <2>1. APITypeOK
    BY NodeManagerAssumption, APISessionAssumption
       DEF ClientInit, APIInit, DBInit, APITypeOK, DBTypeOK, Fate, NoNodes, NodeId, End
  <2>2. ClientTypeOK
    BY <2>1, APISessionAssumption, P2PSessionAssumption
       DEF ClientInit, ClientTypeOK, NoHandles, NoPromises
  <2>3. IdInv
    BY DEF ClientInit, APIInit, IdInv, NextIdIsLeastFree, ScanInv
  <2>4. ClientInv
    BY DEF ClientInit, APIInit, ClientInv, ConnectionInv, Closed
  <2> QED BY <2>2, <2>3, <2>4
<1>2. ClientTypeOK /\ IdInv /\ ClientInv /\ [ClientNext]_clientVars => (ClientTypeOK /\ IdInv /\ ClientInv)'
  <2> SUFFICES ASSUME ClientTypeOK, IdInv, ClientInv, [ClientNext]_clientVars
               PROVE  ClientTypeOK' /\ IdInv' /\ ClientInv'
    OBVIOUS
  <2>1. IdInv'
    BY LibraryIsClient, IdStep DEF ClientTypeOK
  <2> QED BY <2>1, ClientTypeStep, ClientStep
<1> QED BY <1>1, <1>2, PTL DEF ClientSpec

\* The library is one of the clients the daemon is modelled with: it never has
\* two messages under way, sends ids it was given, and a key only in a bind.
THEOREM LibraryImplementsClient == ClientSpec => APISpec
<1>1. ClientInit => APIInit
  BY DEF ClientInit
<1>2. ClientTypeOK /\ ClientInv /\ [ClientNext]_clientVars => [APINext]_apiVars
  BY LibraryIsClient
<1> QED BY <1>1, <1>2, ClientInvariant, PTL DEF ClientSpec, APISpec

\* The promises, tokens and ids of the library stay what they are declared to
\* be, the token counter wrapping and replies of any content included.
THEOREM ClientTypeCorrect == ClientSpec => []ClientTypeOK
BY ClientInvariant, PTL

\* When no call is under way, a program and the daemon agree on its nodes,
\* whatever crashed before at the same address and whatever other programs do.
THEOREM HandlesCorrect == ClientSpec => []NodesMatchHandles
<1>1. ClientTypeOK /\ ClientInv => NodesMatchHandles
  <2> SUFFICES ASSUME ClientTypeOK, ClientInv, NEW s \in sessions, peer_open[s], exchange[s] = Null
               PROVE  /\ Registered(nodes[s]) = Handles(s)
                      /\ \A o, p \in Object : handle[s][o] = handle[s][p] => o = p \/ handle[s][o] = 0
    BY DEF NodesMatchHandles
  <2>1. BetweenCalls(s)
    BY DEF ClientTypeOK, APITypeOK, ClientInv, ConnectionInv, InCall
  <2> QED BY <2>1 DEF BetweenCalls, Matches, Handles
<1> QED BY <1>1, ClientInvariant, PTL

\* The reply the receiving thread is about to hand over is the answer to the
\* call that waits, and the promise find() leads to is there and has no value.
THEOREM RepliesFindPromise == ClientSpec => []RepliesAwaited
<1>1. ClientTypeOK /\ ClientInv => RepliesAwaited
  <2> SUFFICES ASSUME ClientTypeOK, ClientInv, NEW s \in Session, peer_open[s], replies[s] # <<>>
               PROVE  /\ awaiting_receive[s][Head(replies[s]).token] = Unset
                      /\ exchange[s] # Null /\ exchange[s].request.token = Head(replies[s]).token
    BY DEF RepliesAwaited
  <2>1. InCall(s)
    BY DEF ClientInv, ConnectionInv, BetweenCalls
  <2>2. PICK m \in Message : CallServed(s, m)
    BY <2>1 DEF InCall, CallSent, CallAnswered, CallLost
  <2>3. /\ replies[s] = <<m>> /\ m.token = exchange[s].request.token
        /\ awaiting_receive[s] = [NoPromises EXCEPT ![m.token] = Unset]
    BY <2>2 DEF CallServed, Promise
  <2>4. m.token \in Token
    BY DEF Message
  <2>5. Head(replies[s]) = m
    BY <2>3
  <2>6. exchange[s] # Null
    BY <2>1 DEF InCall
  <2> QED BY <2>3, <2>4, <2>5, <2>6 DEF NoPromises
<1> QED BY <1>1, ClientInvariant, PTL

\* Programs that bind each of their nodes once find no deleted node under a key,
\* even if two programs have the same key and any of them crashes at any point.
THEOREM ProgramsNoDangling == ~Rebind => (ClientSpec => []NoDanglingBound)
BY LibraryImplementsClient, DaemonNoDangling

\* If moreover no two programs have the same key, the daemon never throws
\* nodemanager_db_non_consistent on them.
THEOREM ProgramsNeverThrow == ~Rebind /\ ~SharedKeys => (ClientSpec => []NeverInconsistent)
BY LibraryImplementsClient, DaemonNeverThrows
================================================================================
