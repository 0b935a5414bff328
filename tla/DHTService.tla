----------------------------- MODULE DHTService ------------------------------
(***************************************************************************)
(* The messages of the DHT (src/daemon/dht/DHTService.cpp) over the tree   *)
(* of k-buckets.  The class is abstract and has no subclass yet: send and  *)
(* foundNode are external, and so are the additions to the tree.           *)
(* getClosestTo is virtual too; in the base class it calls itself.         *)
(***************************************************************************)
EXTENDS KBucket

CONSTANTS
  Peer,        \* other services
  Target,      \* hashes that are looked for
  alpha        \* calls in parallel

ASSUME DHTServiceAssumption ==
  Target \subseteq Hash /\ alpha \in Nat \ {0}

VARIABLES
  received,  \* the message that process() was last called with, or Null
  sent,      \* the message sent in that call or by findAny(), or Null
  found      \* the contacts passed to foundNode() in that call

serviceVars == <<received, sent, found>>
dhtVars == <<kbVars, serviceVars>>

Request == {"FIND_NODE", "FIND_VALUE"}
Reply == {"FIND_NODE_REPLY", "FIND_VALUE_REPLY"}
DHTPart ==
  [peer : Peer, type : Request, hash : Target, contacts : {{}}]
    \cup [peer : Peer, type : Reply, hash : Target, contacts : SUBSET DHTNode]

DHTTypeOK ==
  /\ KBTypeOK
  /\ received \in DHTPart \cup {Null} /\ sent \in DHTPart \cup {Null}
  /\ found \subseteq DHTNode

DHTInit == KBInit /\ received = Null /\ sent = Null /\ found = {}

-----------------------------------------------------------------------------
Part(peer, type, hash, contacts) == [peer |-> peer, type |-> type, hash |-> hash, contacts |-> contacts]

\* What an overridden getClosestTo may return: nodes of the tree.
ClosestTo(limit) == {c \in SUBSET {n \in DHTNode : Stored(n)} : Cardinality(c) <= limit}

\* Mutant: the reply keeps the type of the request.
ReplyType_asAsked(type) == type

ReplyType(type) == IF type = "FIND_NODE" THEN "FIND_NODE_REPLY" ELSE "FIND_VALUE_REPLY"

\* process() of a request in a subclass that overrides getClosestTo; no value
\* is ever found.
processRequest(m) ==
  /\ Idle /\ m.type \in Request
  /\ received' = m /\ found' = {}
  /\ \E contacts \in ClosestTo(k) : sent' = Part(m.peer, ReplyType(m.type), m.hash, contacts)
  /\ UNCHANGED kbVars

\* process() of a request in one that does not.
processRequestBase(m) ==
  /\ Idle /\ m.type \in Request
  /\ received' = m /\ found' = {} /\ sent' = Null
  /\ outcome' = "looping"
  /\ UNCHANGED <<treeVars, adding, rebuilding>>

\* process() of a reply: the contacts of a FIND_VALUE_REPLY are not looked at.
processReply(m) ==
  /\ Idle /\ m.type \in Reply
  /\ received' = m /\ sent' = Null
  /\ found' = IF m.type = "FIND_NODE_REPLY" THEN m.contacts ELSE {}
  /\ UNCHANGED kbVars

\* findNode() and findValue().
findAny(hash, dest, action) ==
  /\ Idle
  /\ sent' = Part(dest, action, hash, {}) /\ received' = Null /\ found' = {}
  /\ UNCHANGED kbVars

\* findNodeIterative() and findValueIterative(): the call makes a new entry of
\* searches and does not come back from getClosest, since alpha > 0.
findAnyIterative(hash) ==
  /\ Idle
  /\ outcome' = getClosest(hash, alpha)
  /\ UNCHANGED <<treeVars, adding, rebuilding, serviceVars>>

DHTNext ==
  \/ KBNext /\ UNCHANGED serviceVars
  \/ \E m \in DHTPart : processRequest(m) \/ processRequestBase(m) \/ processReply(m)
  \/ \E hash \in Target : \/ findAnyIterative(hash)
                          \/ \E dest \in Peer, action \in Request : findAny(hash, dest, action)

DHTSpec == DHTInit /\ [][DHTNext]_dhtVars /\ WF_dhtVars(addContinues /\ UNCHANGED serviceVars)
=============================================================================
