------------------------------ MODULE NodeManager ------------------------------
(***************************************************************************)
(* The daemon's registry of p2p nodes (src/daemon/p2p/NodeManager.cpp) and *)
(* the part of a node it depends on (src/daemon/p2p/Node.cpp).             *)
(*                                                                         *)
(* A node is a heap object: a member of Node is an address, and the        *)
(* allocator may hand out an address again once the node at it is deleted. *)
(* The registry keeps raw pointers in a set of unbound nodes and a map     *)
(* from the hash of a bound node's public key (its SH) to the node.        *)
(***************************************************************************)
EXTENDS Naturals

CONSTANTS
  Node,        \* addresses a node can be allocated at
  SH,          \* hashes of the public keys that nodes are bound to
  Null,        \* nullptr, the empty hash, the end() of a map
  Rebind,      \* may a caller bind a node that is bound already?
  SharedKeys   \* may a caller bind a key that a live node is bound to?

ASSUME NodeManagerAssumption ==
  /\ Null \notin Node \cup SH
  /\ Rebind \in BOOLEAN
  /\ SharedKeys \in BOOLEAN

VARIABLES
  live,           \* addresses at which there is a node
  bound_sh,       \* Node::bound_sh of every node, Null before bind()
  nodes_unbound,  \* NodeManager::nodes_unbound
  nodes_bound,    \* NodeManager::nodes_bound, Null where there is no entry
  fate            \* whether the daemon got past every throw of the NodeManager

dbVars == <<live, bound_sh, nodes_unbound, nodes_bound, fate>>

\* "inconsistent": nodemanager_db_non_consistent was thrown; nothing between
\* the NodeManager and the end of main() catches it.
Fate == {"running", "inconsistent"}

DBTypeOK ==
  /\ live \subseteq Node
  /\ bound_sh \in [Node -> SH \cup {Null}]
  /\ nodes_unbound \subseteq Node
  /\ nodes_bound \in [SH -> Node \cup {Null}]
  /\ fate \in Fate

DBInit ==
  /\ live = {}
  /\ bound_sh = [n \in Node |-> Null]
  /\ nodes_unbound = {}
  /\ nodes_bound = [sh \in SH |-> Null]
  /\ fate = "running"

-----------------------------------------------------------------------------
\* std::map::insert: an entry that is there already stays as it is.
Insert(map, key, value) ==
  IF map[key] = Null THEN [map EXCEPT ![key] = value] ELSE map

Erase(map, key) == [map EXCEPT ![key] = Null]

\* Mutant: the pointer is put into the set before it is assigned.
createNode_unassigned(n) ==
  /\ n \notin live
  /\ live' = live \cup {n}
  /\ bound_sh' = [bound_sh EXCEPT ![n] = Null]
  /\ nodes_unbound' = nodes_unbound \cup {Null}
  /\ UNCHANGED <<nodes_bound, fate>>

createNode(n) ==
  /\ n \notin live
  /\ live' = live \cup {n}
  /\ bound_sh' = [bound_sh EXCEPT ![n] = Null]
  /\ nodes_unbound' = nodes_unbound \cup {n}
  /\ UNCHANGED <<nodes_bound, fate>>

\* Mutants: a node that is bound stays in nodes_unbound; an unbound node leaves
\* nodes_unbound and gets to nodes_bound only if there is an entry to replace.
bindNode_staysUnbound(n, sh) ==
  /\ nodes_bound' = Insert(nodes_bound, sh, n)
  /\ UNCHANGED <<nodes_unbound, fate>>

bindNode_replacesOnly(n, sh) ==
  /\ nodes_bound' = IF nodes_bound[sh] = Null THEN nodes_bound ELSE [nodes_bound EXCEPT ![sh] = n]
  /\ nodes_unbound' = nodes_unbound \ {n}
  /\ UNCHANGED fate

\* Looks a node that is not in nodes_unbound up by bound_sh'[n]: bind() has
\* assigned the new hash by the time it calls bindNode().
bindNode(n, sh) ==
  \/ /\ n \in nodes_unbound
     /\ nodes_bound' = Insert(nodes_bound, sh, n)
     /\ nodes_unbound' = nodes_unbound \ {n}
     /\ UNCHANGED fate
  \/ /\ n \notin nodes_unbound
     /\ nodes_bound[bound_sh'[n]] # Null
     /\ nodes_bound' = Insert(Erase(nodes_bound, bound_sh'[n]), sh, n)
     /\ UNCHANGED <<nodes_unbound, fate>>
  \/ /\ n \notin nodes_unbound
     /\ nodes_bound[bound_sh'[n]] = Null
     /\ fate' = "inconsistent"
     /\ UNCHANGED <<nodes_unbound, nodes_bound>>

bind(n, sh) ==
  /\ bound_sh' = [bound_sh EXCEPT ![n] = sh]
  /\ bindNode(n, sh)
  /\ UNCHANGED live

delete(n) ==
  /\ live' = live \ {n}
  /\ bound_sh' = [bound_sh EXCEPT ![n] = Null]

\* Mutant: the entry of a bound node is not erased.
destroyNode_keepsEntry(n) ==
  /\ nodes_unbound' = nodes_unbound \ {n}
  /\ delete(n)
  /\ UNCHANGED <<nodes_bound, fate>>

destroyNode(n) ==
  \/ /\ n \in nodes_unbound
     /\ nodes_unbound' = nodes_unbound \ {n}
     /\ delete(n)
     /\ UNCHANGED <<nodes_bound, fate>>
  \/ /\ n \notin nodes_unbound
     /\ nodes_bound[bound_sh[n]] # Null
     /\ nodes_bound' = Erase(nodes_bound, bound_sh[n])
     /\ delete(n)
     /\ UNCHANGED <<nodes_unbound, fate>>
  \/ /\ n \notin nodes_unbound
     /\ nodes_bound[bound_sh[n]] = Null
     /\ fate' = "inconsistent"
     /\ UNCHANGED <<live, bound_sh, nodes_unbound, nodes_bound>>

getBoundNode(sh) == nodes_bound[sh]

-----------------------------------------------------------------------------
\* What callers ask for, as far as Rebind and SharedKeys let them.
MayBind(n, sh) ==
  /\ Rebind \/ bound_sh[n] = Null
  /\ SharedKeys \/ \A m \in live \ {n} : bound_sh[m] # sh

DBNext ==
  /\ fate = "running"
  /\ \/ \E n \in Node : createNode(n)
     \/ \E n \in live, sh \in SH : MayBind(n, sh) /\ bind(n, sh)
     \/ \E n \in live : destroyNode(n)

DBSpec == DBInit /\ [][DBNext]_dbVars

-----------------------------------------------------------------------------
\* NodeManager.h:36, "Sets specified SH to node.": whoever was bound to a key
\* is the node that getBoundNode() finds under the hash of that key.
BoundNodesFindable ==
  \A n \in live : bound_sh[n] # Null => getBoundNode(bound_sh[n]) = n

\* bindNode() and destroyNode() never get to their
\* throw std::system_error(nodemanager_db_non_consistent).
NeverInconsistent == fate # "inconsistent"

\* getBoundNode() never returns a node that destroyNode() has deleted, or
\* one that lives at the address of a deleted node but is bound elsewhere.
NoDanglingBound ==
  \A sh \in SH : getBoundNode(sh) # Null =>
    getBoundNode(sh) \in live /\ bound_sh[getBoundNode(sh)] = sh

\* As long as bindNode() has not thrown, the two containers partition the
\* nodes that exist by whether bind() was called on them, and the map is the
\* inverse of bound_sh.
DBConsistent ==
  NeverInconsistent =>
    /\ nodes_unbound = {n \in live : bound_sh[n] = Null}
    /\ NoDanglingBound
    /\ BoundNodesFindable
=============================================================================
