------------------------------- MODULE KBucket -------------------------------
(***************************************************************************)
(* The tree of k-buckets of the DHT (src/daemon/dht/KBucket.cpp).          *)
(*                                                                         *)
(* A bucket is named by its path from the root, the bits that led to it;   *)
(* its field "index" is the length of the path.  The code splits a bucket  *)
(* on bit index+1, counted from 0, so bit 0 of a hash is never looked at.  *)
(* addNode() calls itself on a child: a call under way is a record with    *)
(* the bucket it has reached, and takes one step per bucket.               *)
(***************************************************************************)
EXTENDS Integers, SequencesExt

CONSTANTS
  DHTNode,   \* the nodes that exist (pointers to DHTNode)
  HashOf,    \* getHash() of each node, a sequence of bits
  OwnHash,   \* the hash the root was made with
  Bits,      \* length of a hash, 224 in the code
  k,         \* nodes in a bucket
  MaxLeaf,   \* bound: callers insist while no bucket has more nodes than this
  Null

Hash == [1..Bits -> 0..1]
Path == UNION {[1..i -> 0..1] : i \in 0..(Bits - 1)}

\* Nodes other than ourselves differ from us in some bit that splits look at.
ASSUME KBucketAssumption ==
  /\ Bits \in Nat \ {0} /\ k \in Nat \ {0}
  /\ HashOf \in [DHTNode -> Hash] /\ OwnHash \in Hash
  /\ \A n \in DHTNode : \E i \in 2..Bits : HashOf[n][i] # OwnHash[i]
  /\ Null \notin [node : DHTNode, force : BOOLEAN, at : Path]

VARIABLES
  split_buckets,    \* the paths of the buckets that have been split
  bucket_contents,  \* the list of nodes of each bucket
  bad,              \* the nodes whose getReliability() is BAD
  adding,           \* the call of addNode under way: node, force, bucket; or Null
  rebuilding,       \* the nodes rebuild() has yet to add
  outcome           \* "running"; "past_hash" once a bit beyond the hash was read;
                    \* "past_end" or "looping" after getClosest

treeVars == <<split_buckets, bucket_contents, bad>>
callVars == <<adding, rebuilding, outcome>>
kbVars == <<treeVars, callVars>>

KBTypeOK ==
  /\ split_buckets \subseteq Path
  /\ DOMAIN bucket_contents = Path
  /\ \A p \in Path : bucket_contents[p] \in Seq(DHTNode)
  /\ bad \subseteq DHTNode
  /\ adding \in [node : DHTNode, force : BOOLEAN, at : Path] \cup {Null}
  /\ rebuilding \subseteq DHTNode
  /\ outcome \in {"running", "past_hash", "past_end", "looping"}

EmptyTree == [p \in Path |-> <<>>]

KBInit ==
  /\ split_buckets = {}
  /\ bucket_contents = EmptyTree
  /\ bad = {}
  /\ adding = Null /\ rebuilding = {} /\ outcome = "running"

-----------------------------------------------------------------------------
\* Mutant: the bits are counted from 1.
getBit_fromOne(hash, bit_index) == hash[bit_index]

\* The bit of a hash, counted from 0.
getBit(hash, bit_index) == hash[bit_index + 1]

isSplit(p) == p \in split_buckets

\* Mutant: both children may be split.
Splittable_both(p) == TRUE

\* Children are splittable on the side of our own hash; the root is.
Splittable(p) == p = <<>> \/ Last(p) = getBit(OwnHash, Len(p))

\* The child that a hash belongs to.
determineBucket(p, hash) == Append(p, getBit(hash, Len(p) + 1))

\* The nodes of a list that are in a set, in the order of the list.
Filtered(list, nodes) ==
  LET kept[i \in 0..Len(list)] ==
        IF i = 0 THEN <<>>
        ELSE IF list[i] \in nodes THEN Append(kept[i - 1], list[i]) ELSE kept[i - 1]
  IN kept[Len(list)]

\* Mutant: the list is filtered the other way round.
RemoveIf_good(list) ==
  LET kept == Filtered(list, bad) IN
    kept \o SubSeq(list, Len(kept) + 1, Len(list))

\* std::remove_if moves the elements that stay to the front and leaves the
\* end of the list as it was; the list is not made shorter.
RemoveIf(list) ==
  LET kept == Filtered(list, DHTNode \ bad) IN
    kept \o SubSeq(list, Len(kept) + 1, Len(list))

\* split(): the nodes of the bucket go to its children.
Distributed(p, list) ==
  [q \in Path |->
    IF q = p THEN <<>>
    ELSE IF Len(q) = Len(p) + 1 /\ IsPrefix(p, q)
    THEN Filtered(list, {n \in DHTNode : determineBucket(p, HashOf[n]) = q})
    ELSE bucket_contents[q]]

-----------------------------------------------------------------------------
Idle == adding = Null /\ rebuilding = {} /\ outcome = "running"
Return == adding' = Null

\* A bucket that only grows when callers insist grows without limit: tidying
\* up overwrites a BAD node by a copy of another and never makes room.
addNode(n, force) ==
  /\ Idle
  /\ force => \A p \in Path : Len(bucket_contents[p]) < MaxLeaf
  /\ adding' = [node |-> n, force |-> force, at |-> <<>>]
  /\ UNCHANGED <<treeVars, rebuilding, outcome>>

\* The call goes on in the child of a bucket that is split.
addDescends ==
  /\ adding # Null /\ outcome = "running" /\ isSplit(adding.at)
  /\ adding' = [adding EXCEPT !.at = determineBucket(@, HashOf[adding.node])]
  /\ UNCHANGED <<treeVars, rebuilding, outcome>>

\* A leaf with room takes the node, whether it is there already or not.
addToLeaf ==
  /\ adding # Null /\ outcome = "running" /\ ~isSplit(adding.at)
  /\ Len(bucket_contents[adding.at]) < k
  /\ bucket_contents' = [bucket_contents EXCEPT ![adding.at] = Append(@, adding.node)]
  /\ Return
  /\ UNCHANGED <<split_buckets, bad, rebuilding, outcome>>

\* Mutant: the caller's wish is ignored.
Takes_unforced(list, force) == Len(list) < k

\* Mutant: a bucket that is full and not splittable takes the node all the same.
Takes_always(list, force) == TRUE

Takes(list, force) == Len(list) < k \/ force

\* A full leaf is tidied up; then it has the node already, is split, or takes
\* the node if there is room or the caller insists.
addToFullLeaf ==
  /\ adding # Null /\ outcome = "running" /\ ~isSplit(adding.at)
  /\ Len(bucket_contents[adding.at]) >= k
  /\ LET p == adding.at
         list == RemoveIf(bucket_contents[p])
         mine == Contains(list, adding.node)
         splits == ~mine /\ Len(list) >= k /\ Splittable(p)
         takes == ~mine /\ ~splits /\ Takes(list, adding.force)
     IN IF splits
        THEN IF Len(p) = Bits - 1
             THEN outcome' = "past_hash" /\ UNCHANGED <<split_buckets, bucket_contents, adding>>
             ELSE /\ split_buckets' = split_buckets \cup {p}
                  /\ bucket_contents' = Distributed(p, list)
                  /\ adding' = [adding EXCEPT !.at = determineBucket(p, HashOf[adding.node])]
                  /\ UNCHANGED outcome
        ELSE /\ bucket_contents' = [bucket_contents EXCEPT ![p] =
                  IF takes THEN Append(list, adding.node) ELSE list]
             /\ Return /\ UNCHANGED <<split_buckets, outcome>>
  /\ UNCHANGED <<bad, rebuilding>>

\* The leaf under bucket p that a hash belongs to.
LeafOf(hash) ==
  LET tail == [i \in 1..(Bits - 1) |-> getBit(hash, i)] IN
    CHOOSE p \in Path : IsPrefix(p, tail) /\ ~isSplit(p) /\ \A i \in 0..(Len(p) - 1) : isSplit(SubSeq(p, 1, i))

\* removeNode() erases the first occurrence.
removeNode(n) ==
  /\ Idle
  /\ bucket_contents' = [bucket_contents EXCEPT ![LeafOf(HashOf[n])] = RemoveFirst(@, n)]
  /\ UNCHANGED <<split_buckets, bad, callVars>>

\* rebuild() empties the root and adds the nodes of a set in the order of
\* their addresses; its parameter node_hash is not used.
rebuild(node_list) ==
  /\ Idle
  /\ split_buckets' = {}
  /\ bucket_contents' = EmptyTree
  /\ rebuilding' = node_list
  /\ UNCHANGED <<bad, adding, outcome>>

rebuildAdds ==
  /\ adding = Null
  /\ \E n \in rebuilding :
       /\ adding' = [node |-> n, force |-> FALSE, at |-> <<>>]
       /\ rebuilding' = rebuilding \ {n}
  /\ UNCHANGED <<treeVars, outcome>>

\* Time passes and queries go unanswered: external to the tree.
reliabilityChanges(nodes) ==
  /\ Idle
  /\ bad' = nodes
  /\ UNCHANGED <<split_buckets, bucket_contents, callVars>>

\* getClosest() goes to the leaf of the hash.  Its loop does not advance the
\* iterator: it ends at once on an empty leaf with n = 0, goes past the end of
\* an empty leaf otherwise, and never ends on a leaf that has nodes.
getClosest(hash, n) ==
  CASE bucket_contents[LeafOf(hash)] # <<>> -> "looping"
    [] bucket_contents[LeafOf(hash)] = <<>> /\ n > 0 -> "past_end"
    [] OTHER -> "running"

addContinues == addDescends \/ addToLeaf \/ addToFullLeaf \/ rebuildAdds

KBNext ==
  \/ addContinues
  \/ \E n \in DHTNode : \/ \E force \in BOOLEAN : addNode(n, force)
                        \/ removeNode(n)
  \/ \E nodes \in SUBSET DHTNode : rebuild(nodes) \/ reliabilityChanges(nodes)

\* Calls of the single thread of the daemon go on.
KBSpec == KBInit /\ [][KBNext]_kbVars /\ WF_kbVars(addContinues)

-----------------------------------------------------------------------------
(***************************************************************************)
(* Properties.                                                             *)
(***************************************************************************)

Stored(n) == \E p \in Path : Contains(bucket_contents[p], n)
Adds(n) == adding # Null /\ adding.node = n
OnOwnPath(p) == \A i \in 1..Len(p) : p[i] = OwnHash[i + 1]

\* Only buckets on the path of our own hash are split, down from the root, and
\* a node is in the one leaf that the bits of its hash lead to, so that a later
\* removeNode or getClosest looks where addNode put it (KBucket.cpp:46).
PlacedByPrefix ==
  /\ \A p \in split_buckets : /\ OnOwnPath(p) /\ bucket_contents[p] = <<>>
                              /\ \A i \in 0..(Len(p) - 1) : SubSeq(p, 1, i) \in split_buckets
  /\ \A p \in Path : bucket_contents[p] # <<>> /\ p # <<>> => Front(p) \in split_buckets
  /\ \A p \in Path : \A n \in ToSet(bucket_contents[p]) : \A i \in 1..Len(p) : p[i] = HashOf[n][i + 1]

\* KBucket.h:72, "number of nodes in each KBucket binary tree leaf": a leaf grows
\* beyond k only when the caller insists, and never one that could be split.
OverfullOnlyByForce ==
  [][\A p \in Path :
       Len(bucket_contents'[p]) > k /\ Len(bucket_contents'[p]) > Len(bucket_contents[p]) =>
         adding # Null /\ adding.force /\ ~OnOwnPath(p)]_kbVars

\* The tidying of a full bucket (KBucket.cpp:83) and the splits lose no node: one
\* that is not BAD stays until it is removed or the tree is rebuilt.
NodesKept ==
  [][\A n \in DHTNode \ bad : Stored(n) /\ ~Stored(n)' =>
       removeNode(n) \/ \E nodes \in SUBSET DHTNode : rebuild(nodes)]_kbVars

\* A caller of addNode that insists finds the node in its leaf afterwards, however
\* many splits that took.
ForcedIsStored ==
  [][\A n \in DHTNode : Adds(n) /\ adding.force /\ adding' = Null =>
       Contains(bucket_contents'[LeafOf(HashOf[n])'], n)]_kbVars

\* The recursion of addNode (KBucket.cpp:94) ends: nodes that no bit tells apart
\* are not split until there is no bit left ("past_hash").
AddReturns == adding # Null ~> adding = Null
=============================================================================
