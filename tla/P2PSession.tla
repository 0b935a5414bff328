------------------------------ MODULE P2PSession ------------------------------
(***************************************************************************)
(* Programs that use the client library, composed with the daemon of       *)
(* APISession: the P2PNode objects of a program                            *)
(* (src/library/P2PNode.cpp) and the exchange of messages under them       *)
(* (src/library/P2PSession.cpp, src/common/api/UnixAPISocket.cpp).         *)
(*                                                                         *)
(* A program has one connection, and a member of Session stands for both   *)
(* ends of it.  The program calls the library from one thread (the maps of *)
(* P2PSession are not guarded); a second thread of the library receives.   *)
(* A frame is written in one piece: the socket buffer has room for it.     *)
(***************************************************************************)
EXTENDS APISession

CONSTANTS
  Object,    \* the P2PNode objects a program can have at a time
  MaxToken,  \* the largest value of a token (2^32 - 1 in the code)
  Unset,     \* a promise without a value
  Crash      \* may a program die at any point?

ASSUME P2PSessionAssumption ==
  /\ MaxToken \in Nat /\ Token = 0..MaxToken
  /\ Unset \notin Message \cup {Null}
  /\ Null \notin [object : Object, request : Message]
  /\ Crash \in BOOLEAN

VARIABLES
  handle,            \* P2PNode::Impl::node_id of every object, 0 if there is no object
  exchange,          \* the call under way: its object and request, or Null
  awaiting_receive,  \* P2PSession::awaiting_receive: token to reply, Null if there is no
                     \* entry and Unset if the promise has no value yet
  next_msg_token     \* P2PSession::next_msg_token

libraryVars == <<handle, exchange, awaiting_receive, next_msg_token>>
clientVars == <<apiVars, libraryVars>>

ClientTypeOK ==
  /\ APITypeOK
  /\ handle \in [Session -> [Object -> 0..MaxId]]
  /\ exchange \in [Session -> [object : Object, request : Message] \cup {Null}]
  /\ awaiting_receive \in [Session -> [Token -> Message \cup {Unset, Null}]]
  /\ next_msg_token \in [Session -> Token]

NoHandles == [o \in Object |-> 0]
NoPromises == [t \in Token |-> Null]

ClientInit ==
  /\ APIInit
  /\ handle = [s \in Session |-> NoHandles]
  /\ exchange = [s \in Session |-> Null]
  /\ awaiting_receive = [s \in Session |-> NoPromises]
  /\ next_msg_token = [s \in Session |-> 0]

-----------------------------------------------------------------------------
(***************************************************************************)
(* clientExchange() up to the point where it waits for the reply, and the  *)
(* calls that make it.                                                     *)
(***************************************************************************)

\* Mutant: the counter is wider than the tokens.
markMessage_wide(t) == t + 1

\* The next token; the counter is unsigned and wraps.
markMessage(t) == (t + 1) % (MaxToken + 1)

clientExchange(s, o, request) ==
  LET m == [request EXCEPT !.token = next_msg_token[s]] IN
  /\ peer_open[s]
  /\ exchange[s] = Null
  /\ awaiting_receive' = [awaiting_receive EXCEPT ![s] = Insert(@, m.token, Unset)]
  /\ next_msg_token' = [next_msg_token EXCEPT ![s] = markMessage(@)]
  /\ requests' = [requests EXCEPT ![s] = Append(@, m)]
  /\ exchange' = [exchange EXCEPT ![s] = [object |-> o, request |-> m]]
  /\ UNCHANGED <<dbVars, sessionVars, replies, peer_open, outcome, handle>>

Request(type, id, sh) == [type |-> type, token |-> 0, node_id |-> id, sh |-> sh, error |-> FALSE]

\* The constructor of P2PNode.
construct(s, o) ==
  /\ "NODE_REGISTER" \in Types
  /\ handle[s][o] = 0
  /\ clientExchange(s, o, Request("NODE_REGISTER", 0, Null))

\* The destructor, listen(), connect() and accept() of P2PNode.
callNode(s, o, type) ==
  /\ type \in Types \ {"NODE_REGISTER", "NODE_BIND", "SOCKET_UNREGISTER"}
  /\ handle[s][o] # 0
  /\ clientExchange(s, o, Request(type, handle[s][o], Null))

bindNodeTo(s, o, sh) ==
  /\ "NODE_BIND" \in Types
  /\ handle[s][o] # 0
  /\ MayRequestBind(s, handle[s][o], sh)
  /\ clientExchange(s, o, Request("NODE_BIND", handle[s][o], sh))

-----------------------------------------------------------------------------
\* P2PSession::handleReceive on the receiving thread.  At the end of the
\* stream it gets a message without a token, over and over, and does nothing.
receiveReply(s) ==
  /\ peer_open[s]
  /\ replies[s] # <<>>
  /\ LET m == Head(replies[s]) IN
       awaiting_receive' = [awaiting_receive EXCEPT ![s][m.token] = m]
  /\ replies' = [replies EXCEPT ![s] = Tail(@)]
  /\ UNCHANGED <<dbVars, sessionVars, requests, peer_open, outcome, handle, exchange, next_msg_token>>

\* Mutant: the id of the node is not taken from the reply.
NewHandle_ofRequest(old, request, reply) == IF request.type = "NODE_UNREGISTER" THEN 0 ELSE request.node_id

\* What the caller of clientExchange() makes of the reply.
NewHandle(old, request, reply) ==
  IF request.type = "NODE_REGISTER" THEN reply.node_id
  ELSE IF request.type = "NODE_UNREGISTER" THEN 0
  ELSE old

\* Mutant: the promise stays where it is.
Pruned_not(promises, token) == promises

\* awaiting_receive once the promise of the token is erased.
Pruned(promises, token) == Erase(promises, token)

\* clientExchange() goes on with the reply, erases the promise and returns, or
\* throws if the reply has an error; a destructor ends in either case.
exchangeReturns(s) ==
  /\ peer_open[s]
  /\ exchange[s] # Null
  /\ LET request == exchange[s].request
         o == exchange[s].object
         reply == awaiting_receive[s][request.token]
     IN /\ reply \notin {Unset, Null}
        /\ awaiting_receive' = [awaiting_receive EXCEPT ![s] = Pruned(@, request.token)]
        /\ handle' = [handle EXCEPT ![s][o] =
             IF reply.error /\ request.type # "NODE_UNREGISTER" THEN @
             ELSE NewHandle(@, request, reply)]
  /\ exchange' = [exchange EXCEPT ![s] = Null]
  /\ UNCHANGED <<apiVars, next_msg_token>>

\* The objects of a program share one P2PAutoDaemon, which goes with the last
\* of them (SharedSingleton) and takes the connection with it.
Unshared(s) == exchange[s] = Null /\ handle[s] = NoHandles

\* The connection ends: after the objects are gone, or, if Crash, at any point.
disconnect(s) ==
  /\ Crash \/ Unshared(s)
  /\ clientClose(s)
  /\ handle' = [handle EXCEPT ![s] = NoHandles]
  /\ exchange' = [exchange EXCEPT ![s] = Null]
  /\ awaiting_receive' = [awaiting_receive EXCEPT ![s] = NoPromises]
  /\ UNCHANGED next_msg_token

\* A program starts: P2PUnixDaemon::connect, accepted by the daemon.
connect(s) ==
  /\ handleAccept(s)
  /\ ~peer_open[s]
  /\ next_msg_token' = [next_msg_token EXCEPT ![s] = 0]
  /\ UNCHANGED <<handle, exchange, awaiting_receive>>

\* What a program calls: the methods of P2PNode, or the functions of the C
\* interface, which make the same calls and return a code for what is thrown.
\* The pointer to an object of p2p_createNode() does not get to the caller: the
\* object stays, and nothing is called on it, which is a choice programs have.
Calls(s) ==
  \E o \in Object : \/ construct(s, o)
                    \/ \E type \in MsgType : callNode(s, o, type)
                    \/ \E sh \in SH : bindNodeTo(s, o, sh)

Library(s) == connect(s) \/ receiveReply(s) \/ exchangeReturns(s) \/ disconnect(s) \/ Calls(s)

DaemonStep(s) == (handleReceive(s) \/ handleReceiveError(s)) /\ UNCHANGED libraryVars
DaemonLoop == NodeRegisterLoop /\ UNCHANGED libraryVars

ClientNext == DaemonLoop \/ \E s \in Session : Library(s) \/ DaemonStep(s)

ClientSpec == ClientInit /\ [][ClientNext]_clientVars

\* Threads that can go on do.  The io_service of the daemon serves handlers in
\* the order they became ready: a handler that has to wait for others again
\* and again gets its turn.  Programs need not call anything.
ClientFairness ==
  /\ WF_clientVars(DaemonLoop)
  /\ \A s \in Session :
       /\ SF_clientVars(DaemonStep(s))
       /\ WF_clientVars(receiveReply(s))
       /\ WF_clientVars(exchangeReturns(s))

ClientLiveSpec == ClientSpec /\ ClientFairness

-----------------------------------------------------------------------------
(***************************************************************************)
(* Properties.                                                             *)
(***************************************************************************)

Handles(s) == {handle[s][o] : o \in Object} \ {0}

\* While a program is connected and not in a call, the daemon has exactly the
\* nodes the program has objects for, and the objects have different ids.
NodesMatchHandles ==
  \A s \in sessions : peer_open[s] /\ exchange[s] = Null /\ Running =>
    /\ Registered(nodes[s]) = Handles(s)
    /\ \A o, p \in Object : handle[s][o] = handle[s][p] => o = p \/ handle[s][o] = 0

\* A reply finds the promise of the request it answers (P2PSession.cpp:44
\* dereferences what find() returned), never one of an earlier call.
RepliesAwaited ==
  \A s \in Session : peer_open[s] /\ replies[s] # <<>> =>
    /\ awaiting_receive[s][Head(replies[s]).token] = Unset
    /\ exchange[s] # Null /\ exchange[s].request.token = Head(replies[s]).token

\* APISession.h:40, "It is thrown in answer to request_message", and
\* P2PSession.cpp:100, "the message can include something we call remote-throw":
\* as long as the daemon runs, every call returns or throws.
ExchangeReturns ==
  \A s \in Session : exchange[s] # Null ~> exchange[s] = Null \/ ~Running
=============================================================================
