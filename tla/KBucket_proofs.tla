---------------------------- MODULE KBucket_proofs ----------------------------
(***************************************************************************)
(* For any nodes, hashes of any length, any size of a bucket, and whatever *)
(* the service that uses the tree of k-buckets does.                       *)
(***************************************************************************)
EXTENDS DHTService, SequenceTheorems, WellFoundedInduction, TLAPS

(***************************************************************************)
(* Lists.                                                                  *)
(***************************************************************************)

\* A set of naturals has a least member.
LEMMA LeastMember ==
  ASSUME NEW T, T \subseteq Nat, T # {}
  PROVE  \E m \in T : \A j \in T : m <= j
<1> DEFINE R == OpToRel(<, Nat)
<1>1. IsWellFoundedOn(R, Nat)
  BY NatLessThanWellFounded
<1>2. R = {ss \in Nat \X Nat : ss[1] < ss[2]}
  BY DEF OpToRel
<1> HIDE DEF R
<1>3. PICK m \in T : \A y \in T : ~ (<<y, m>> \in R)
  BY <1>1, WFMin
<1>4. \A y \in T : ~ (y < m)
  BY <1>2, <1>3
<1> QED BY <1>3, <1>4

\* Induction, with a set for the formula.
LEMMA Induction ==
  ASSUME NEW T, 0 \in T, \A n \in Nat : n \in T => n + 1 \in T
  PROVE  Nat \subseteq T
<1> SUFFICES ASSUME Nat \ T # {}
             PROVE  FALSE
  OBVIOUS
<1>1. PICK m \in Nat \ T : \A j \in Nat \ T : m <= j
  BY LeastMember
<1>2. m # 0 /\ m - 1 \in Nat /\ m - 1 \in T
  BY <1>1
<1> QED BY <1>1, <1>2

LEMMA MinMember ==
  ASSUME NEW T, T \subseteq Nat, T # {}
  PROVE  Min(T) \in T /\ \A j \in T : Min(T) <= j
BY LeastMember DEF Min

\* f[i] is what is kept of the first i nodes of the list.
Step(list, nodes, f, i) == IF list[i] \in nodes THEN Append(f[i - 1], list[i]) ELSE f[i - 1]
Filters(list, nodes, n, f) ==
  /\ f = [i \in 0..n |-> f[i]]
  /\ f[0] = <<>>
  /\ \A i \in 1..n : f[i] = Step(list, nodes, f, i)

LEMMA FiltersExists ==
  ASSUME NEW list \in Seq(DHTNode), NEW nodes
  PROVE  \E f : Filters(list, nodes, Len(list), f)
<1> DEFINE T == {n \in Nat : n <= Len(list) => \E f : Filters(list, nodes, n, f)}
<1>1. 0 \in T
  <2> DEFINE g == [i \in 0..0 |-> <<>>]
  <2>1. Filters(list, nodes, 0, g)
    BY DEF Filters
  <2> QED BY <2>1
<1>2. ASSUME NEW n \in Nat, n \in T
      PROVE  n + 1 \in T
  <2> SUFFICES ASSUME n + 1 <= Len(list)
               PROVE  \E f : Filters(list, nodes, n + 1, f)
    OBVIOUS
  <2>1. PICK f : Filters(list, nodes, n, f)
    BY <1>2
  <2> DEFINE g == [i \in 0..n + 1 |-> IF i = n + 1 THEN Step(list, nodes, f, n + 1) ELSE f[i]]
  <2>2. g = [i \in 0..n + 1 |-> g[i]]
    OBVIOUS
  <2>3. \A i \in 0..n : g[i] = f[i]
    OBVIOUS
  <2>4. g[n + 1] = Step(list, nodes, f, n + 1)
    OBVIOUS
  <2> HIDE DEF g
  <2>5. g[n + 1] = Step(list, nodes, g, n + 1)
    BY <2>3, <2>4 DEF Step
  <2>6. ASSUME NEW i \in 1..n
        PROVE  g[i] = Step(list, nodes, g, i)
    <3>1. f[i] = Step(list, nodes, f, i)
      BY <2>1 DEF Filters
    <3>2. g[i] = f[i] /\ g[i - 1] = f[i - 1]
      BY <2>3
    <3> QED BY <3>1, <3>2 DEF Step
  <2>7. \A i \in 1..n + 1 : i \in 1..n \/ i = n + 1
    OBVIOUS
  <2>8. \A i \in 1..n + 1 : g[i] = Step(list, nodes, g, i)
    BY <2>5, <2>6, <2>7
  <2>9. g[0] = <<>>
    BY <2>1, <2>3 DEF Filters
  <2> QED BY <2>2, <2>8, <2>9 DEF Filters
<1>3. Len(list) \in T
  <2> HIDE DEF T
  <2> QED BY <1>1, <1>2, Induction
<1> QED BY <1>3

LEMMA FilteredIs ==
  ASSUME NEW list \in Seq(DHTNode), NEW nodes
  PROVE  \E f : Filters(list, nodes, Len(list), f) /\ Filtered(list, nodes) = f[Len(list)]
<1> DEFINE Rec(h) == h = [i \in 0..Len(list) |->
               IF i = 0 THEN <<>> ELSE IF list[i] \in nodes THEN Append(h[i - 1], list[i]) ELSE h[i - 1]]
           F == CHOOSE h : Rec(h)
<1>1. PICK f : Filters(list, nodes, Len(list), f)
  BY FiltersExists
<1>2. Rec(f)
  <2>1. f = [i \in 0..Len(list) |-> f[i]]
    BY <1>1 DEF Filters
  <2>2. f[0] = <<>> /\ \A i \in 1..Len(list) : f[i] = Step(list, nodes, f, i)
    BY <1>1 DEF Filters
  <2>3. \A i \in 0..Len(list) : i # 0 => i \in 1..Len(list)
    OBVIOUS
  <2>4. \A i \in 0..Len(list) : f[i] = IF i = 0 THEN <<>> ELSE IF list[i] \in nodes THEN Append(f[i - 1], list[i]) ELSE f[i - 1]
    BY <2>2, <2>3 DEF Step
  <2> QED BY <2>1, <2>4
<1>3. Rec(F)
  BY <1>2
<1>4. Filtered(list, nodes) = F[Len(list)]
  BY DEF Filtered
<1> HIDE DEF F
<1>5. Filters(list, nodes, Len(list), F)
  <2>1. F = [i \in 0..Len(list) |-> F[i]]
    BY <1>3
  <2>2. \A i \in 0..Len(list) : F[i] = IF i = 0 THEN <<>> ELSE IF list[i] \in nodes THEN Append(F[i - 1], list[i]) ELSE F[i - 1]
    BY <1>3
  <2> HIDE DEF Rec
  <2> QED BY <2>1, <2>2 DEF Filters, Step
<1> QED BY <1>4, <1>5

\* What is kept are the nodes of the list that are in the set, and not more of them
\* than there are.
LEMMA FilteredProperties ==
  ASSUME NEW list \in Seq(DHTNode), NEW nodes
  PROVE  /\ Filtered(list, nodes) \in Seq(DHTNode)
         /\ Len(Filtered(list, nodes)) <= Len(list)
         /\ \A n : Contains(Filtered(list, nodes), n) <=> Contains(list, n) /\ n \in nodes
<1>1. PICK f : Filters(list, nodes, Len(list), f) /\ Filtered(list, nodes) = f[Len(list)]
  BY FilteredIs
<1>2. f[0] = <<>> /\ \A i \in 1..Len(list) : f[i] = Step(list, nodes, f, i)
  BY <1>1 DEF Filters
<1> DEFINE Right(i) == /\ f[i] \in Seq(DHTNode) /\ Len(f[i]) <= i
                       /\ \A n : Contains(f[i], n) <=> n \in nodes /\ \E j \in 1..i : list[j] = n
           T == {i \in Nat : i <= Len(list) => Right(i)}
<1>3. 0 \in T
  <2>1. \A n : ~Contains(f[0], n) /\ ~ \E j \in 1..0 : list[j] = n
    BY <1>2 DEF Contains
  <2>2. f[0] \in Seq(DHTNode) /\ Len(f[0]) = 0
    BY <1>2
  <2>3. Right(0)
    BY <2>1, <2>2
  <2> QED BY <2>3
<1>4. ASSUME NEW i \in Nat, i \in T
      PROVE  i + 1 \in T
  <2> SUFFICES ASSUME i + 1 <= Len(list)
               PROVE  Right(i + 1)
    OBVIOUS
  <2>1. Right(i)
    BY <1>4
  <2>2. i + 1 \in 1..Len(list) /\ list[i + 1] \in DHTNode /\ (i + 1) - 1 = i
    BY LenProperties
  <2>3. f[i + 1] = IF list[i + 1] \in nodes THEN Append(f[i], list[i + 1]) ELSE f[i]
    BY <1>2, <2>2 DEF Step
  <2>4. \A n : (\E j \in 1..i + 1 : list[j] = n) <=> (\E j \in 1..i : list[j] = n) \/ list[i + 1] = n
    <3>1. \A j : j \in 1..i + 1 <=> j \in 1..i \/ j = i + 1
      OBVIOUS
    <3> QED BY <3>1
  <2>5. CASE list[i + 1] \in nodes
    <3>1. /\ f[i + 1] \in Seq(DHTNode) /\ Len(f[i + 1]) = Len(f[i]) + 1 /\ Len(f[i]) \in Nat
          /\ \A j \in 1..Len(f[i]) : f[i + 1][j] = f[i][j]
          /\ f[i + 1][Len(f[i]) + 1] = list[i + 1]
      BY <2>1, <2>2, <2>3, <2>5, AppendProperties, LenProperties
    <3>2. \A j : j \in 1..Len(f[i]) + 1 <=> j \in 1..Len(f[i]) \/ j = Len(f[i]) + 1
      BY <3>1
    <3>3. \A n : Contains(f[i + 1], n) <=> Contains(f[i], n) \/ list[i + 1] = n
      BY <3>1, <3>2 DEF Contains
    <3> QED BY <2>1, <2>4, <2>5, <3>1, <3>3
  <2>6. CASE list[i + 1] \notin nodes
    BY <2>1, <2>3, <2>4, <2>6
  <2> QED BY <2>5, <2>6
<1>5. Len(list) \in T /\ Len(list) \in Nat
  <2> HIDE DEF T
  <2> QED BY <1>3, <1>4, Induction, LenProperties
<1>6. Right(Len(list))
  BY <1>5
<1> QED BY <1>1, <1>6 DEF Contains

LEMMA AppendContains ==
  ASSUME NEW s \in Seq(DHTNode), NEW n \in DHTNode
  PROVE  /\ Append(s, n) \in Seq(DHTNode) /\ Len(Append(s, n)) = Len(s) + 1 /\ Len(s) \in Nat
         /\ \A m : Contains(Append(s, n), m) <=> Contains(s, m) \/ m = n
<1>1. /\ Append(s, n) \in Seq(DHTNode) /\ Len(Append(s, n)) = Len(s) + 1 /\ Len(s) \in Nat
      /\ \A j \in 1..Len(s) : Append(s, n)[j] = s[j]
      /\ Append(s, n)[Len(s) + 1] = n
  BY AppendProperties, LenProperties
<1>2. \A j : j \in 1..Len(s) + 1 <=> j \in 1..Len(s) \/ j = Len(s) + 1
  BY <1>1
<1>3. \A m : Contains(Append(s, n), m) <=> Contains(s, m) \/ m = n
  BY <1>1, <1>2 DEF Contains
<1> QED BY <1>1, <1>3

LEMMA ConcatContains ==
  ASSUME NEW s \in Seq(DHTNode), NEW t \in Seq(DHTNode)
  PROVE  /\ s \o t \in Seq(DHTNode) /\ Len(s \o t) = Len(s) + Len(t)
         /\ \A n : Contains(s \o t, n) <=> Contains(s, n) \/ Contains(t, n)
<1>1. /\ s \o t \in Seq(DHTNode) /\ Len(s \o t) = Len(s) + Len(t)
      /\ \A i \in 1..Len(s) + Len(t) : (s \o t)[i] = IF i <= Len(s) THEN s[i] ELSE t[i - Len(s)]
      /\ Len(s) \in Nat /\ Len(t) \in Nat
  BY ConcatProperties, LenProperties
<1> DEFINE u == s \o t
           a == Len(s)
           b == Len(t)
<1> HIDE DEF u
<1>2. ASSUME NEW n, Contains(u, n)
      PROVE  Contains(s, n) \/ Contains(t, n)
  <2>1. PICK i \in 1..a + b : u[i] = n
    BY <1>1, <1>2 DEF Contains, u
  <2>2. CASE i <= a
    BY <1>1, <2>1, <2>2 DEF Contains, u
  <2>3. CASE ~(i <= a)
    <3>1. i - a \in 1..b /\ t[i - a] = n
      BY <1>1, <2>1, <2>3 DEF u
    <3> QED BY <3>1 DEF Contains
  <2> QED BY <2>2, <2>3
<1>3. ASSUME NEW n, Contains(s, n)
      PROVE  Contains(u, n)
  <2>1. PICK i \in 1..a : s[i] = n
    BY <1>3 DEF Contains
  <2>2. i \in 1..a + b /\ u[i] = n
    BY <1>1, <2>1 DEF u
  <2> QED BY <1>1, <2>2 DEF Contains, u
<1>4. ASSUME NEW n, Contains(t, n)
      PROVE  Contains(u, n)
  <2>1. PICK i \in 1..b : t[i] = n
    BY <1>4 DEF Contains
  <2>2. a + i \in 1..a + b /\ ~(a + i <= a) /\ (a + i) - a = i
    BY <1>1
  <2>3. u[a + i] = n
    BY <1>1, <2>1, <2>2 DEF u
  <2> QED BY <1>1, <2>2, <2>3 DEF Contains, u
<1> QED BY <1>1, <1>2, <1>3, <1>4 DEF u

LEMMA SubSeqContains ==
  ASSUME NEW list \in Seq(DHTNode), NEW x \in 1..Len(list) + 1, NEW y \in 0..Len(list), x <= y + 1
  PROVE  /\ SubSeq(list, x, y) \in Seq(DHTNode) /\ Len(SubSeq(list, x, y)) = y - x + 1
         /\ \A n : Contains(SubSeq(list, x, y), n) <=> \E i \in x..y : list[i] = n
<1>1. Len(list) \in Nat /\ x \in Int /\ y \in Int /\ \A i \in x..y : list[i] \in DHTNode
  BY LenProperties
<1> DEFINE u == SubSeq(list, x, y)
<1>2. /\ u \in Seq(DHTNode) /\ Len(u) = (IF x <= y THEN y - x + 1 ELSE 0)
      /\ \A i \in 1..y - x + 1 : u[i] = list[x + i - 1]
  BY <1>1, SubSeqProperties
<1> HIDE DEF u
<1>3. Len(u) = y - x + 1
  BY <1>1, <1>2
<1>4. ASSUME NEW n, Contains(u, n)
      PROVE  \E i \in x..y : list[i] = n
  <2>1. PICK i \in 1..y - x + 1 : u[i] = n
    BY <1>3, <1>4 DEF Contains
  <2>2. x + i - 1 \in x..y /\ list[x + i - 1] = n
    BY <1>1, <1>2, <2>1
  <2> QED BY <2>2
<1>5. ASSUME NEW n, NEW i \in x..y, list[i] = n
      PROVE  Contains(u, n)
  <2>1. i - x + 1 \in 1..y - x + 1 /\ x + (i - x + 1) - 1 = i
    BY <1>1
  <2>2. u[i - x + 1] = n
    BY <1>2, <1>5, <2>1
  <2> QED BY <1>3, <2>1, <2>2 DEF Contains
<1> QED BY <1>2, <1>3, <1>4, <1>5 DEF u

\* std::remove_if keeps the length of the list and every node that is not BAD, and
\* adds none.
LEMMA RemoveIfProperties ==
  ASSUME NEW list \in Seq(DHTNode)
  PROVE  /\ RemoveIf(list) \in Seq(DHTNode) /\ Len(RemoveIf(list)) = Len(list)
         /\ \A n : Contains(RemoveIf(list), n) => Contains(list, n)
         /\ \A n \in DHTNode \ bad : Contains(list, n) => Contains(RemoveIf(list), n)
<1> DEFINE kept == Filtered(list, DHTNode \ bad)
           rest == SubSeq(list, Len(kept) + 1, Len(list))
<1>1. RemoveIf(list) = kept \o rest
  BY DEF RemoveIf
<1>2. /\ kept \in Seq(DHTNode) /\ Len(kept) <= Len(list)
      /\ \A n : Contains(kept, n) <=> Contains(list, n) /\ n \in DHTNode \ bad
  BY FilteredProperties
<1> HIDE DEF kept
<1>3. Len(kept) \in Nat /\ Len(list) \in Nat
  BY <1>2, LenProperties
<1>4. Len(kept) + 1 \in 1..Len(list) + 1 /\ Len(list) \in 0..Len(list) /\ Len(kept) + 1 <= Len(list) + 1
  BY <1>2, <1>3
<1>5. /\ rest \in Seq(DHTNode) /\ Len(rest) = Len(list) - (Len(kept) + 1) + 1
      /\ \A n : Contains(rest, n) <=> \E i \in Len(kept) + 1..Len(list) : list[i] = n
  BY <1>4, SubSeqContains
<1> HIDE DEF rest
<1>6. /\ kept \o rest \in Seq(DHTNode) /\ Len(kept \o rest) = Len(kept) + Len(rest)
      /\ \A n : Contains(kept \o rest, n) <=> Contains(kept, n) \/ Contains(rest, n)
  BY <1>2, <1>5, ConcatContains
<1>7. Len(kept \o rest) = Len(list)
  BY <1>3, <1>5, <1>6
<1>8. \A n : Contains(rest, n) => Contains(list, n)
  <2>1. \A i \in Len(kept) + 1..Len(list) : i \in 1..Len(list)
    BY <1>3
  <2> QED BY <1>5, <2>1 DEF Contains
<1> QED BY <1>1, <1>2, <1>6, <1>7, <1>8

\* Erasing the first occurrence of a node leaves the others.
LEMMA RemoveFirstProperties ==
  ASSUME NEW list \in Seq(DHTNode), NEW n
  PROVE  /\ RemoveFirst(list, n) \in Seq(DHTNode) /\ Len(RemoveFirst(list, n)) <= Len(list)
         /\ \A m : Contains(RemoveFirst(list, n), m) => Contains(list, m)
         /\ \A m : m # n /\ Contains(list, m) => Contains(RemoveFirst(list, n), m)
<1>1. Len(list) \in Nat
  BY LenProperties
<1>2. CASE \E i \in 1..Len(list) : list[i] = n
  <2> DEFINE I == {i \in 1..Len(list) : list[i] = n}
             x == Min(I)
             s == SubSeq(list, 1, x - 1)
             t == SubSeq(list, x + 1, Len(list))
  <2>1. RemoveFirst(list, n) = s \o t
    BY <1>2 DEF RemoveFirst, RemoveAt, SelectInSeq
  <2>2. I \subseteq Nat /\ I # {}
    BY <1>2
  <2>3. x \in I
    <3> HIDE DEF I
    <3> QED BY <2>2, MinMember
  <2> HIDE DEF x
  <2>4. x \in 1..Len(list) /\ list[x] = n
    BY <2>3
  <2>5. /\ s \in Seq(DHTNode) /\ Len(s) = (x - 1) - 1 + 1
        /\ \A m : Contains(s, m) <=> \E i \in 1..x - 1 : list[i] = m
    BY <1>1, <2>4, SubSeqContains
  <2>6. /\ t \in Seq(DHTNode) /\ Len(t) = Len(list) - (x + 1) + 1
        /\ \A m : Contains(t, m) <=> \E i \in x + 1..Len(list) : list[i] = m
    BY <1>1, <2>4, SubSeqContains
  <2> HIDE DEF s, t
  <2>7. /\ s \o t \in Seq(DHTNode) /\ Len(s \o t) = Len(s) + Len(t)
        /\ \A m : Contains(s \o t, m) <=> Contains(s, m) \/ Contains(t, m)
    BY <2>5, <2>6, ConcatContains
  <2>8. Len(s \o t) <= Len(list)
    BY <1>1, <2>4, <2>5, <2>6, <2>7
  <2>9. \A i \in 1..Len(list) : i \in 1..x - 1 \/ i = x \/ i \in x + 1..Len(list)
    BY <1>1, <2>4
  <2>10. \A i : i \in 1..x - 1 \/ i \in x + 1..Len(list) => i \in 1..Len(list)
    BY <1>1, <2>4
  <2>11. \A m : Contains(s \o t, m) => Contains(list, m)
    BY <2>5, <2>6, <2>7, <2>10 DEF Contains
  <2>12. \A m : m # n /\ Contains(list, m) => Contains(s \o t, m)
    BY <2>4, <2>5, <2>6, <2>7, <2>9 DEF Contains
  <2> QED BY <2>1, <2>7, <2>8, <2>11, <2>12
<1>3. CASE ~ \E i \in 1..Len(list) : list[i] = n
  BY <1>1, <1>3 DEF RemoveFirst
<1> QED BY <1>2, <1>3

-----------------------------------------------------------------------------
(***************************************************************************)
(* Paths.                                                                  *)
(***************************************************************************)
LEMMA PathSeq ==
  ASSUME NEW p
  PROVE  p \in Path <=> p \in Seq(0..1) /\ Len(p) <= Bits - 1
<1>1. Bits - 1 \in Nat
  BY KBucketAssumption
<1>2. ASSUME p \in Path
      PROVE  p \in Seq(0..1) /\ Len(p) <= Bits - 1
  <2>1. PICK i \in 0..Bits - 1 : p \in [1..i -> 0..1]
    BY <1>2 DEF Path
  <2>2. i \in Nat /\ i <= Bits - 1
    BY <1>1
  <2>3. p \in Seq(0..1) /\ Len(p) = i
    BY <2>1, <2>2
  <2> QED BY <2>2, <2>3
<1>3. ASSUME p \in Seq(0..1), Len(p) <= Bits - 1
      PROVE  p \in Path
  <2>1. Len(p) \in 0..Bits - 1 /\ p \in [1..Len(p) -> 0..1]
    BY <1>1, <1>3, LenProperties
  <2> QED BY <2>1 DEF Path
<1> QED BY <1>2, <1>3

LEMMA PathLen ==
  ASSUME NEW p \in Path
  PROVE  p \in Seq(0..1) /\ Len(p) \in 0..Bits - 1 /\ \A i \in 1..Len(p) : p[i] \in 0..1
<1>1. p \in Seq(0..1) /\ Len(p) <= Bits - 1
  BY PathSeq
<1>2. Len(p) \in Nat /\ p \in [1..Len(p) -> 0..1]
  BY <1>1, LenProperties
<1> QED BY <1>1, <1>2, KBucketAssumption

LEMMA SamePrefix ==
  ASSUME NEW p \in Path, NEW q \in Path, NEW i \in 0..Len(p), i <= Len(q),
         \A j \in 1..i : p[j] = q[j]
  PROVE  SubSeq(p, 1, i) = SubSeq(q, 1, i)
<1>1. Len(p) \in Nat /\ Len(q) \in Nat /\ i \in Nat
  BY PathLen
<1>2. \A j \in 1..i : p[j] \in 0..1 /\ q[j] \in 0..1
  BY <1>1, PathLen
<1>3. /\ SubSeq(p, 1, i) \in Seq(0..1) /\ Len(SubSeq(p, 1, i)) = (IF 1 <= i THEN i - 1 + 1 ELSE 0)
      /\ \A j \in 1..i - 1 + 1 : SubSeq(p, 1, i)[j] = p[1 + j - 1]
  BY <1>1, <1>2, SubSeqProperties
<1>4. /\ SubSeq(q, 1, i) \in Seq(0..1) /\ Len(SubSeq(q, 1, i)) = (IF 1 <= i THEN i - 1 + 1 ELSE 0)
      /\ \A j \in 1..i - 1 + 1 : SubSeq(q, 1, i)[j] = q[1 + j - 1]
  BY <1>1, <1>2, SubSeqProperties
<1> DEFINE s == SubSeq(p, 1, i)
           t == SubSeq(q, 1, i)
<1> HIDE DEF s, t
<1>5. Len(s) = i /\ Len(t) = i /\ i - 1 + 1 = i
  BY <1>1, <1>3, <1>4 DEF s, t
<1>6. \A j \in 1..i : 1 + j - 1 = j
  BY <1>1
<1>7. \A j \in 1..i : s[j] = t[j]
  BY <1>3, <1>4, <1>5, <1>6 DEF s, t
<1>8. s = t
  BY <1>3, <1>4, <1>5, <1>7, SeqEqual DEF s, t
<1> QED BY <1>8 DEF s, t

LEMMA WholePrefix ==
  ASSUME NEW p \in Path
  PROVE  SubSeq(p, 1, Len(p)) = p
BY PathSeq, SubSeqFull

LEMMA PrefixAgrees ==
  ASSUME NEW p \in Path, NEW q \in Path
  PROVE  IsPrefix(p, q) <=> Len(p) <= Len(q) /\ \A i \in 1..Len(p) : p[i] = q[i]
<1>1. Len(p) \in Nat /\ Len(q) \in Nat
  BY PathLen
<1>2. ASSUME Len(p) <= Len(q), \A i \in 1..Len(p) : p[i] = q[i]
      PROVE  IsPrefix(p, q)
  BY <1>1, <1>2, SamePrefix DEF IsPrefix
<1>3. ASSUME IsPrefix(p, q)
      PROVE  Len(p) <= Len(q) /\ \A i \in 1..Len(p) : p[i] = q[i]
  <2>1. Len(p) <= Len(q) /\ SubSeq(q, 1, Len(p)) = p
    BY <1>3, WholePrefix DEF IsPrefix
  <2>2. \A j \in 1..Len(p) : q[j] \in 0..1
    BY <1>1, <2>1, PathLen
  <2>3. \A j \in 1..Len(p) - 1 + 1 : SubSeq(q, 1, Len(p))[j] = q[1 + j - 1]
    BY <1>1, <2>2, SubSeqProperties
  <2>4. Len(p) - 1 + 1 = Len(p) /\ \A j \in 1..Len(p) : 1 + j - 1 = j
    BY <1>1
  <2>5. \A j \in 1..Len(p) : SubSeq(q, 1, Len(p))[j] = q[j]
    BY <2>3, <2>4
  <2> QED BY <2>1, <2>5
<1> QED BY <1>2, <1>3

\* A child of a bucket, and what it has in common with it.
LEMMA ChildPath ==
  ASSUME NEW p \in Path, Len(p) < Bits - 1, NEW b \in 0..1
  PROVE  /\ Append(p, b) \in Path /\ Len(Append(p, b)) = Len(p) + 1
         /\ \A i \in 1..Len(p) : Append(p, b)[i] = p[i]
         /\ Append(p, b)[Len(p) + 1] = b
<1>1. p \in Seq(0..1) /\ Len(p) \in Nat /\ Bits \in Nat
  BY PathLen, KBucketAssumption
<1>2. /\ Append(p, b) \in Seq(0..1) /\ Len(Append(p, b)) = Len(p) + 1
      /\ \A i \in 1..Len(p) : Append(p, b)[i] = p[i]
      /\ Append(p, b)[Len(p) + 1] = b
  BY <1>1, AppendProperties
<1>3. Len(Append(p, b)) <= Bits - 1
  BY <1>1, <1>2
<1> QED BY <1>2, <1>3, PathSeq

-----------------------------------------------------------------------------
(***************************************************************************)
(* The tree.                                                               *)
(***************************************************************************)

\* Every bucket above this one has been split.
Below(p) == \A i \in 0..(Len(p) - 1) : SubSeq(p, 1, i) \in split_buckets

Leaf(p) == p \notin split_buckets /\ Below(p)

\* The bits of a node's hash lead to the bucket.
Fits(p, n) == \A i \in 1..Len(p) : p[i] = HashOf[n][i + 1]

\* Nodes are in leaves they fit in; the buckets that were split lie on the path
\* of our own hash and have a bit left for their children; the leaf on that path
\* is never overfull, so that its children are not; and a call of addNode is on
\* its way from the root to the leaf of its node.
TreeInv ==
  /\ \A p \in split_buckets : Len(p) < Bits - 1 /\ OnOwnPath(p) /\ Below(p)
  /\ \A p \in Path : \A n \in DHTNode : Contains(bucket_contents[p], n) => Leaf(p) /\ Fits(p, n)
  /\ \A p \in Path : OnOwnPath(p) => Len(bucket_contents[p]) <= k
  /\ adding # Null => Below(adding.at) /\ Fits(adding.at, adding.node)
  /\ outcome # "past_hash"

KBInv == KBTypeOK /\ TreeInv

LEMMA ChildPrefixes ==
  ASSUME NEW p \in Path, NEW q \in Path, Len(q) = Len(p) + 1, \A i \in 1..Len(p) : q[i] = p[i]
  PROVE  /\ \A i \in 0..(Len(q) - 1) : i \in 0..(Len(p) - 1) \/ i = Len(p)
         /\ \A i \in 0..Len(p) : SubSeq(q, 1, i) = SubSeq(p, 1, i)
         /\ SubSeq(q, 1, Len(p)) = p
<1>1. Len(p) \in Nat
  BY PathLen
<1>2. ASSUME NEW i \in 0..Len(p)
      PROVE  SubSeq(q, 1, i) = SubSeq(p, 1, i)
  BY <1>1, SamePrefix
<1>3. \A i \in 0..(Len(q) - 1) : i \in 0..(Len(p) - 1) \/ i = Len(p)
  BY <1>1
<1> QED BY <1>1, <1>2, <1>3, WholePrefix

\* The child that determineBucket() chooses.
LEMMA FittingChild ==
  ASSUME NEW p \in Path, Len(p) < Bits - 1, NEW n \in DHTNode
  PROVE  LET q == determineBucket(p, HashOf[n]) IN
           /\ q \in Path /\ Len(q) = Len(p) + 1 /\ \A i \in 1..Len(p) : q[i] = p[i]
           /\ Fits(p, n) => Fits(q, n)
<1> DEFINE b == HashOf[n][Len(p) + 2]
           q == Append(p, b)
<1>1. Len(p) \in Nat /\ Bits \in Nat /\ (Len(p) + 1) + 1 = Len(p) + 2
  BY PathLen, KBucketAssumption
<1>2. determineBucket(p, HashOf[n]) = q
  BY <1>1 DEF determineBucket, getBit
<1>3. b \in 0..1
  BY <1>1, KBucketAssumption DEF Hash
<1>4. /\ q \in Path /\ Len(q) = Len(p) + 1
      /\ \A i \in 1..Len(p) : q[i] = p[i]
      /\ q[Len(p) + 1] = b
  BY <1>3, ChildPath
<1> HIDE DEF q
<1>5. ASSUME Fits(p, n)
      PROVE  Fits(q, n)
  <2>1. \A i \in 1..Len(p) + 1 : i \in 1..Len(p) \/ i = Len(p) + 1
    BY <1>1
  <2> QED BY <1>1, <1>4, <1>5, <2>1 DEF Fits
<1> QED BY <1>2, <1>4, <1>5

\* splittable is set for the child on the side of our own hash only.
LEMMA SplittableOwn ==
  ASSUME TreeInv, NEW p \in Path, Below(p), Splittable(p)
  PROVE  OnOwnPath(p)
<1>1. Len(p) \in Nat /\ p \in Seq(0..1)
  BY PathLen
<1>2. CASE Len(p) = 0
  BY <1>2 DEF OnOwnPath
<1>3. CASE Len(p) # 0
  <2> DEFINE f == SubSeq(p, 1, Len(p) - 1)
  <2>1. Len(p) - 1 \in 0..(Len(p) - 1)
    BY <1>1, <1>3
  <2>2. f \in split_buckets
    BY <2>1 DEF Below
  <2>3. OnOwnPath(f)
    BY <2>2 DEF TreeInv
  <2>4. \A j \in 1..Len(p) - 1 : p[j] \in 0..1
    BY <1>1, PathLen
  <2>5. /\ Len(f) = (IF 1 <= Len(p) - 1 THEN (Len(p) - 1) - 1 + 1 ELSE 0)
        /\ \A j \in 1..(Len(p) - 1) - 1 + 1 : f[j] = p[1 + j - 1]
    BY <1>1, <2>1, <2>4, SubSeqProperties
  <2> HIDE DEF f
  <2>6. Len(f) = Len(p) - 1 /\ (Len(p) - 1) - 1 + 1 = Len(p) - 1
    <3>1. (Len(p) - 1) - 1 + 1 = Len(p) - 1
      BY <1>1
    <3>2. CASE 1 <= Len(p) - 1
      BY <2>5, <3>1, <3>2
    <3>3. CASE ~(1 <= Len(p) - 1)
      <4>0. \A m \in Nat : m # 0 /\ ~(1 <= m - 1) => m - 1 = 0
        OBVIOUS
      <4>1. Len(p) - 1 = 0
        BY <1>1, <1>3, <3>3, <4>0
      <4>2. Len(f) = 0
        BY <2>5, <3>3
      <4> QED BY <3>1, <4>1, <4>2
    <3> QED BY <3>2, <3>3
  <2>7. \A j \in 1..Len(p) - 1 : 1 + j - 1 = j
    BY <1>1
  <2>8. \A j \in 1..Len(p) - 1 : f[j] = p[j]
    BY <2>5, <2>6, <2>7
  <2>9. p[Len(p)] = OwnHash[Len(p) + 1]
    <3>1. p # <<>>
      BY <1>3
    <3> QED BY <3>1 DEF Splittable, Last, getBit
  <2>10. \A j \in 1..Len(p) : j \in 1..Len(p) - 1 \/ j = Len(p)
    BY <1>1
  <2> QED BY <2>3, <2>6, <2>8, <2>9, <2>10 DEF OnOwnPath
<1> QED BY <1>2, <1>3

\* No node shares all the bits that splits look at with us.
LEMMA NoBitLeft ==
  ASSUME KBTypeOK, TreeInv, NEW p \in Path, Len(p) = Bits - 1, OnOwnPath(p)
  PROVE  Len(bucket_contents[p]) = 0
<1> SUFFICES ASSUME Len(bucket_contents[p]) # 0
             PROVE  FALSE
  OBVIOUS
<1>1. bucket_contents[p] \in Seq(DHTNode)
  BY DEF KBTypeOK
<1>2. Len(bucket_contents[p]) \in Nat /\ 1 \in 1..Len(bucket_contents[p])
  BY <1>1, LenProperties
<1> DEFINE n == bucket_contents[p][1]
<1>3. n \in DHTNode /\ Contains(bucket_contents[p], n)
  BY <1>1, <1>2, ElementOfSeq DEF Contains
<1> HIDE DEF n
<1>4. Fits(p, n)
  BY <1>3 DEF TreeInv
<1>5. \A i \in 1..Bits - 1 : HashOf[n][i + 1] = OwnHash[i + 1]
  BY <1>4 DEF Fits, OnOwnPath
<1>6. PICK i \in 2..Bits : HashOf[n][i] # OwnHash[i]
  BY <1>3, KBucketAssumption
<1>7. i - 1 \in 1..Bits - 1 /\ (i - 1) + 1 = i
  BY KBucketAssumption
<1> QED BY <1>5, <1>6, <1>7

-----------------------------------------------------------------------------
\* A step that leaves the tree as it is.
LEMMA CallFrame ==
  ASSUME KBInv, UNCHANGED <<split_buckets, bucket_contents>>, bad' \subseteq DHTNode, rebuilding' \subseteq DHTNode,
         adding' \in [node : DHTNode, force : BOOLEAN, at : Path] \cup {Null},
         adding' # Null => Below(adding'.at) /\ Fits(adding'.at, adding'.node),
         outcome' \in {"running", "past_end", "looping"}
  PROVE  KBInv'
<1>1. KBTypeOK'
  BY DEF KBInv, KBTypeOK
<1>2. TreeInv'
  BY DEF KBInv, TreeInv, Below, Leaf, Fits, OnOwnPath
<1> QED BY <1>1, <1>2 DEF KBInv

\* A step that changes the list of one bucket and ends the call.
LEMMA LeafFrame ==
  ASSUME KBInv, UNCHANGED <<split_buckets, bad, rebuilding, outcome>>, adding' = Null,
         NEW p \in Path, NEW list \in Seq(DHTNode),
         bucket_contents' = [bucket_contents EXCEPT ![p] = list],
         \A n \in DHTNode : Contains(list, n) => Contains(bucket_contents[p], n) \/ (Leaf(p) /\ Fits(p, n)),
         OnOwnPath(p) => Len(list) <= k
  PROVE  KBInv'
<1>1. /\ DOMAIN bucket_contents' = Path /\ bucket_contents'[p] = list
      /\ \A q \in Path \ {p} : bucket_contents'[q] = bucket_contents[q]
  BY DEF KBInv, KBTypeOK
<1>2. KBTypeOK'
  BY <1>1 DEF KBInv, KBTypeOK
<1>3. \A q : Below(q)' = Below(q) /\ Leaf(q)' = Leaf(q)
  BY DEF Below, Leaf
<1>4. \A q \in Path : \A n \in DHTNode : Contains(bucket_contents'[q], n) => Leaf(q) /\ Fits(q, n)
  BY <1>1 DEF KBInv, TreeInv
<1>5. \A q \in Path : OnOwnPath(q) => Len(bucket_contents'[q]) <= k
  BY <1>1 DEF KBInv, TreeInv
<1>6. TreeInv'
  BY <1>3, <1>4, <1>5 DEF KBInv, TreeInv, Fits, OnOwnPath
<1> QED BY <1>2, <1>6 DEF KBInv

LEMMA Root ==
  /\ <<>> \in Path /\ Below(<<>>) /\ \A n : Fits(<<>>, n)
  /\ Below(<<>>)'
<1>1. <<>> \in Path
  <2>1. <<>> \in Seq(0..1) /\ Len(<<>>) = 0
    BY EmptySeq
  <2>2. 0 <= Bits - 1
    BY KBucketAssumption
  <2> QED BY <2>1, <2>2, PathSeq
<1> QED BY <1>1 DEF Below, Fits

\* The leaf on our own path is splittable.
LEMMA OwnSplittable ==
  ASSUME NEW p \in Path, OnOwnPath(p)
  PROVE  Splittable(p)
<1>1. Len(p) \in Nat /\ p \in Seq(0..1)
  BY PathLen
<1>2. CASE Len(p) = 0
  BY <1>1, <1>2, EmptySeq DEF Splittable
<1>3. CASE Len(p) # 0
  <2>1. Len(p) \in 1..Len(p)
    BY <1>1, <1>3
  <2> QED BY <2>1 DEF Splittable, OnOwnPath, Last, getBit
<1> QED BY <1>2, <1>3

LEMMA DescendsStep ==
  ASSUME KBInv, addDescends
  PROVE  KBInv'
<1> DEFINE p == adding.at
           n == adding.node
           q == determineBucket(p, HashOf[n])
<1>1. /\ adding \in [node : DHTNode, force : BOOLEAN, at : Path]
      /\ p \in Path /\ n \in DHTNode /\ adding.force \in BOOLEAN
  BY DEF KBInv, KBTypeOK, addDescends
<1>2. p \in split_buckets /\ Len(p) < Bits - 1 /\ Below(p) /\ Fits(p, n)
  BY DEF KBInv, TreeInv, addDescends, isSplit
<1>3. q \in Path /\ Len(q) = Len(p) + 1 /\ (\A i \in 1..Len(p) : q[i] = p[i]) /\ Fits(q, n)
  BY <1>1, <1>2, FittingChild
<1>4. adding' = [adding EXCEPT !.at = q]
  BY DEF addDescends
<1> HIDE DEF q
<1>5. Below(q)
  <2>1. /\ \A i \in 0..(Len(q) - 1) : i \in 0..(Len(p) - 1) \/ i = Len(p)
        /\ \A i \in 0..Len(p) : SubSeq(q, 1, i) = SubSeq(p, 1, i)
        /\ SubSeq(q, 1, Len(p)) = p
    BY <1>1, <1>3, ChildPrefixes
  <2>2. \A i \in 0..(Len(p) - 1) : i \in 0..Len(p)
    BY <1>1, PathLen
  <2> QED BY <1>2, <2>1, <2>2 DEF Below
<1>6. /\ adding' \in [node : DHTNode, force : BOOLEAN, at : Path]
      /\ adding'.at = q /\ adding'.node = n
  BY <1>1, <1>3, <1>4
<1>7. outcome' \in {"running", "past_end", "looping"}
  BY DEF addDescends
<1> QED BY <1>3, <1>5, <1>6, <1>7, CallFrame DEF addDescends, treeVars, KBInv, KBTypeOK

LEMMA ToLeafStep ==
  ASSUME KBInv, addToLeaf
  PROVE  KBInv'
<1> DEFINE p == adding.at
           n == adding.node
           old == bucket_contents[p]
           list == Append(old, n)
<1>1. p \in Path /\ n \in DHTNode /\ old \in Seq(DHTNode)
  BY DEF KBInv, KBTypeOK, addToLeaf
<1>2. Leaf(p) /\ Fits(p, n)
  BY DEF KBInv, TreeInv, addToLeaf, isSplit, Leaf
<1>3. bucket_contents' = [bucket_contents EXCEPT ![p] = list]
  BY DEF addToLeaf
<1>4. Len(old) < k
  BY DEF addToLeaf
<1>5. /\ list \in Seq(DHTNode) /\ Len(list) = Len(old) + 1 /\ Len(old) \in Nat
      /\ \A m : Contains(list, m) <=> Contains(old, m) \/ m = n
  BY <1>1, AppendContains
<1> HIDE DEF list
<1>6. Len(list) <= k
  BY <1>4, <1>5, KBucketAssumption
<1> QED BY <1>1, <1>2, <1>3, <1>5, <1>6, LeafFrame DEF addToLeaf, Return

LEMMA SplitStep ==
  ASSUME KBInv, NEW p \in Path, Leaf(p), OnOwnPath(p), Len(p) < Bits - 1,
         NEW list \in Seq(DHTNode), Len(list) <= Len(bucket_contents[p]),
         \A n : Contains(list, n) => Contains(bucket_contents[p], n),
         split_buckets' = split_buckets \cup {p}, bucket_contents' = Distributed(p, list),
         adding # Null, adding.at = p,
         adding' = [adding EXCEPT !.at = determineBucket(p, HashOf[adding.node])],
         UNCHANGED <<bad, rebuilding, outcome>>
  PROVE  KBInv'
<1> DEFINE Child(q) == Len(q) = Len(p) + 1 /\ IsPrefix(p, q)
           Share(q) == {n \in DHTNode : determineBucket(p, HashOf[n]) = q}
<1>0. PICK next : next = determineBucket(p, HashOf[adding.node])
  OBVIOUS
<1>1. /\ split_buckets \subseteq Path
      /\ \A q \in split_buckets : Len(q) < Bits - 1 /\ OnOwnPath(q) /\ Below(q)
      /\ p \notin split_buckets /\ Below(p)
  BY DEF KBInv, KBTypeOK, TreeInv, Leaf
<1>2. \A q : Below(q) => Below(q)'
  BY DEF Below
<1>3. ASSUME NEW q \in Path, Child(q)
      PROVE  Leaf(q)' /\ q # p /\ \A i \in 1..Len(p) : q[i] = p[i]
  <2>1. \A i \in 1..Len(p) : q[i] = p[i]
    BY <1>3, PrefixAgrees
  <2>2. /\ \A i \in 0..(Len(q) - 1) : i \in 0..(Len(p) - 1) \/ i = Len(p)
        /\ \A i \in 0..Len(p) : SubSeq(q, 1, i) = SubSeq(p, 1, i)
        /\ SubSeq(q, 1, Len(p)) = p
    BY <1>3, <2>1, ChildPrefixes
  <2>3. Len(p) \in Nat /\ Len(p) \in 0..(Len(q) - 1) /\ \A i \in 0..(Len(p) - 1) : i \in 0..Len(p)
    BY <1>3, PathLen
  <2>4. Below(q)'
    BY <1>1, <2>2, <2>3 DEF Below
  <2>5. q # p
    BY <1>3, <2>3
  <2>6. q \notin split_buckets
    <3>1. ~Below(q)
      BY <1>1, <2>2, <2>3 DEF Below
    <3> QED BY <1>1, <3>1
  <2> QED BY <2>1, <2>4, <2>5, <2>6 DEF Leaf
<1>4. /\ DOMAIN bucket_contents' = Path
      /\ \A q \in Path : bucket_contents'[q] =
           IF q = p THEN <<>> ELSE IF Child(q) THEN Filtered(list, Share(q)) ELSE bucket_contents[q]
  BY DEF Distributed
<1>5. \A q \in Path : /\ Filtered(list, Share(q)) \in Seq(DHTNode)
                      /\ Len(Filtered(list, Share(q))) <= Len(list)
                      /\ \A n : Contains(Filtered(list, Share(q)), n) <=> Contains(list, n) /\ n \in Share(q)
  BY FilteredProperties
<1>6. adding \in [node : DHTNode, force : BOOLEAN, at : Path] /\ Fits(p, adding.node)
  BY DEF KBInv, KBTypeOK, TreeInv
<1>7. /\ next \in Path /\ Len(next) = Len(p) + 1 /\ (\A i \in 1..Len(p) : next[i] = p[i])
      /\ Fits(next, adding.node)
  BY <1>0, <1>6, FittingChild
<1> HIDE DEF Share
<1>8. /\ adding' \in [node : DHTNode, force : BOOLEAN, at : Path]
      /\ adding'.at = next /\ adding'.node = adding.node
  BY <1>0, <1>6, <1>7
<1>9. KBTypeOK'
  <2>1. \A q \in Path : bucket_contents'[q] \in Seq(DHTNode)
    BY <1>4, <1>5, EmptySeq DEF KBInv, KBTypeOK
  <2> QED BY <1>1, <1>4, <1>8, <2>1 DEF KBInv, KBTypeOK
<1>10. \A q \in split_buckets' : Len(q) < Bits - 1 /\ OnOwnPath(q) /\ Below(q)'
  BY <1>1, <1>2
<1>11. ASSUME NEW q \in Path, NEW n \in DHTNode, Contains(bucket_contents'[q], n)
       PROVE  Leaf(q)' /\ Fits(q, n)
  <2>1. CASE q = p
    <3>1. bucket_contents'[q] = <<>>
      BY <1>4, <2>1
    <3> QED BY <1>11, <3>1 DEF Contains
  <2>2. CASE q # p /\ Child(q)
    <3>1. Contains(list, n) /\ n \in Share(q)
      BY <1>4, <1>5, <1>11, <2>2
    <3>2. Fits(p, n)
      BY <3>1 DEF KBInv, TreeInv
    <3>3. q = determineBucket(p, HashOf[n])
      BY <3>1 DEF Share
    <3> QED BY <1>3, <2>2, <3>2, <3>3, FittingChild
  <2>3. CASE q # p /\ ~Child(q)
    <3>1. bucket_contents'[q] = bucket_contents[q]
      BY <1>4, <2>3
    <3>2. Leaf(q) /\ Fits(q, n)
      BY <1>11, <3>1 DEF KBInv, TreeInv
    <3> QED BY <1>2, <2>3, <3>2 DEF Leaf
  <2> QED BY <2>1, <2>2, <2>3
<1>12. ASSUME NEW q \in Path, OnOwnPath(q)
       PROVE  Len(bucket_contents'[q]) <= k
  <2>1. /\ Len(bucket_contents[p]) <= k /\ Len(bucket_contents[q]) <= k
        /\ Len(bucket_contents[p]) \in Nat /\ k \in Nat
    BY <1>12, KBucketAssumption, LenProperties DEF KBInv, KBTypeOK, TreeInv
  <2>2. CASE q = p
    <3>1. bucket_contents'[q] = <<>>
      BY <1>4, <2>2
    <3> QED BY <2>1, <3>1
  <2>3. CASE q # p /\ Child(q)
    <3> DEFINE part == Filtered(list, Share(q))
    <3>1. part \in Seq(DHTNode) /\ Len(part) <= Len(list)
      BY <1>5
    <3>2. bucket_contents'[q] = part
      BY <1>4, <2>3
    <3> HIDE DEF part
    <3>3. Len(part) \in Nat /\ Len(list) \in Nat
      BY <3>1, LenProperties
    <3>4. Len(part) <= k
      BY <2>1, <3>1, <3>3
    <3> QED BY <3>2, <3>4
  <2>4. CASE q # p /\ ~Child(q)
    BY <1>4, <2>1, <2>4
  <2> QED BY <2>2, <2>3, <2>4
<1>13. Below(next)'
  <2>1. Child(next)
    <3>1. Len(p) <= Len(next)
      BY <1>7, PathLen
    <3> QED BY <1>7, <3>1, PrefixAgrees
  <2> QED BY <1>3, <1>7, <2>1 DEF Leaf
<1>14. TreeInv'
  <2>1. \A q, n : Fits(q, n)' = Fits(q, n) /\ OnOwnPath(q)' = OnOwnPath(q)
    BY DEF Fits, OnOwnPath
  <2>2. outcome' # "past_hash"
    BY DEF KBInv, TreeInv
  <2>3. (adding # Null => Below(adding.at) /\ Fits(adding.at, adding.node))'
    BY <1>7, <1>8, <1>13 DEF Fits
  <2> QED BY <1>10, <1>11, <1>12, <2>1, <2>2, <2>3 DEF TreeInv
<1> QED BY <1>9, <1>14 DEF KBInv

\* What addNode finds at a full leaf.
LEMMA FullLeaf ==
  ASSUME KBInv, addToFullLeaf
  PROVE  LET p == adding.at
             old == bucket_contents[p]
             list == RemoveIf(old)
         IN /\ p \in Path /\ adding.node \in DHTNode /\ adding.force \in BOOLEAN
            /\ Leaf(p) /\ Fits(p, adding.node)
            /\ old \in Seq(DHTNode) /\ Len(old) \in Nat /\ Len(old) >= k
            /\ list \in Seq(DHTNode) /\ Len(list) = Len(old)
            /\ \A n : Contains(list, n) => Contains(old, n)
            /\ \A n \in DHTNode \ bad : Contains(old, n) => Contains(list, n)
            /\ ~Contains(list, adding.node) /\ Splittable(p) => OnOwnPath(p) /\ Len(p) < Bits - 1
            /\ OnOwnPath(p) => Splittable(p)
<1> DEFINE p == adding.at
           old == bucket_contents[p]
           list == RemoveIf(old)
<1>1. p \in Path /\ adding.node \in DHTNode /\ adding.force \in BOOLEAN /\ old \in Seq(DHTNode)
  BY DEF KBInv, KBTypeOK, addToFullLeaf
<1>2. Leaf(p) /\ Fits(p, adding.node)
  BY DEF KBInv, TreeInv, addToFullLeaf, isSplit, Leaf
<1>3. Len(old) \in Nat /\ Len(old) >= k
  BY <1>1, LenProperties DEF addToFullLeaf
<1>4. /\ list \in Seq(DHTNode) /\ Len(list) = Len(old)
      /\ \A n : Contains(list, n) => Contains(old, n)
      /\ \A n \in DHTNode \ bad : Contains(old, n) => Contains(list, n)
  BY <1>1, RemoveIfProperties
<1>5. ASSUME Splittable(p)
      PROVE  OnOwnPath(p) /\ Len(p) < Bits - 1
  <2>1. OnOwnPath(p)
    BY <1>1, <1>2, <1>5, SplittableOwn DEF KBInv, Leaf
  <2>2. ASSUME Len(p) = Bits - 1
        PROVE  FALSE
    <3>1. Len(old) = 0
      BY <1>1, <2>1, <2>2, NoBitLeft DEF KBInv
    <3> QED BY <1>3, <3>1, KBucketAssumption
  <2>3. Len(p) \in 0..Bits - 1 /\ Bits \in Nat
    BY <1>1, PathLen, KBucketAssumption
  <2> QED BY <2>1, <2>2, <2>3
<1>6. OnOwnPath(p) => Splittable(p)
  BY <1>1, OwnSplittable
<1> HIDE DEF p, list
<1> QED BY <1>1, <1>2, <1>3, <1>4, <1>5, <1>6 DEF p, list

\* The two ways on from there.
LEMMA FullLeafCases ==
  ASSUME KBInv, addToFullLeaf
  PROVE  LET p == adding.at
             list == RemoveIf(bucket_contents[p])
             mine == Contains(list, adding.node)
             splits == ~mine /\ Splittable(p)
             takes == ~mine /\ ~splits /\ adding.force
         IN \/ /\ splits
               /\ split_buckets' = split_buckets \cup {p}
               /\ bucket_contents' = Distributed(p, list)
               /\ adding' = [adding EXCEPT !.at = determineBucket(p, HashOf[adding.node])]
               /\ UNCHANGED outcome
            \/ /\ ~splits
               /\ bucket_contents' = [bucket_contents EXCEPT ![p] =
                    IF takes THEN Append(list, adding.node) ELSE list]
               /\ adding' = Null /\ UNCHANGED <<split_buckets, outcome>>
<1> DEFINE p == adding.at
           list == RemoveIf(bucket_contents[p])
           mine == Contains(list, adding.node)
           splits == ~mine /\ Splittable(p)
<1>1. Len(list) \in Nat /\ Len(list) >= k /\ k \in Nat
  BY FullLeaf, KBucketAssumption
<1>2. splits => Len(p) # Bits - 1
  BY FullLeaf, PathLen
<1>3. ~(Len(list) < k)
  BY <1>1
<1> QED BY <1>1, <1>2, <1>3 DEF addToFullLeaf, Takes, Return

LEMMA FullLeafStep ==
  ASSUME KBInv, addToFullLeaf
  PROVE  KBInv'
<1> DEFINE p == adding.at
           old == bucket_contents[p]
           list == RemoveIf(old)
           mine == Contains(list, adding.node)
           splits == ~mine /\ Splittable(p)
           takes == ~mine /\ ~splits /\ adding.force
           new == IF takes THEN Append(list, adding.node) ELSE list
<1>1. /\ p \in Path /\ adding.node \in DHTNode
      /\ Leaf(p) /\ Fits(p, adding.node)
      /\ old \in Seq(DHTNode) /\ list \in Seq(DHTNode) /\ Len(list) = Len(old) /\ Len(old) \in Nat
      /\ \A n : Contains(list, n) => Contains(old, n)
      /\ splits => OnOwnPath(p) /\ Len(p) < Bits - 1
      /\ OnOwnPath(p) => Splittable(p)
  BY FullLeaf
<1>2. UNCHANGED <<bad, rebuilding>> /\ adding # Null
  BY DEF addToFullLeaf
<1>3. \/ /\ splits
         /\ split_buckets' = split_buckets \cup {p}
         /\ bucket_contents' = Distributed(p, list)
         /\ adding' = [adding EXCEPT !.at = determineBucket(p, HashOf[adding.node])]
         /\ UNCHANGED outcome
      \/ /\ ~splits
         /\ bucket_contents' = [bucket_contents EXCEPT ![p] = new]
         /\ adding' = Null /\ UNCHANGED <<split_buckets, outcome>>
  BY FullLeafCases
<1> HIDE DEF list
<1>4. CASE splits
  <2>1. Len(list) <= Len(old)
    BY <1>1
  <2> QED BY <1>1, <1>2, <1>3, <1>4, <2>1, SplitStep
<1>5. CASE ~splits
  <2>1. /\ Append(list, adding.node) \in Seq(DHTNode)
        /\ \A m : Contains(Append(list, adding.node), m) <=> Contains(list, m) \/ m = adding.node
    BY <1>1, AppendContains
  <2>2. new \in Seq(DHTNode) /\ \A m : Contains(new, m) => Contains(old, m) \/ m = adding.node
    BY <1>1, <2>1
  <2>3. OnOwnPath(p) => Len(new) <= k
    <3>1. OnOwnPath(p) => new = list
      BY <1>1, <1>5
    <3>2. OnOwnPath(p) => Len(old) <= k
      BY <1>1 DEF KBInv, TreeInv
    <3> QED BY <1>1, <3>1, <3>2
  <2> HIDE DEF new
  <2> QED BY <1>1, <1>2, <1>3, <1>5, <2>2, <2>3, LeafFrame
<1> QED BY <1>4, <1>5

-----------------------------------------------------------------------------
(***************************************************************************)
(* The leaf of a hash, when the buckets in S have been split: there is     *)
(* exactly one, so that LeafOf is defined whatever the shape of the tree.  *)
(***************************************************************************)
LeafIn(S, tail, p) ==
  p \in Path /\ IsPrefix(p, tail) /\ p \notin S /\ \A i \in 0..(Len(p) - 1) : SubSeq(p, 1, i) \in S

HashTail(hash) == [i \in 1..(Bits - 1) |-> hash[i + 1]]

LeafFor(S, hash) ==
  CHOOSE p \in Path : IsPrefix(p, HashTail(hash)) /\ p \notin S
                        /\ \A i \in 0..(Len(p) - 1) : SubSeq(p, 1, i) \in S

LEMMA PrefixPath ==
  ASSUME NEW p \in Path, NEW i \in 0..Len(p)
  PROVE  /\ SubSeq(p, 1, i) \in Path /\ Len(SubSeq(p, 1, i)) = i
         /\ \A j \in 1..i : SubSeq(p, 1, i)[j] = p[j]
<1>1. Len(p) \in Nat /\ i \in Nat /\ Len(p) <= Bits - 1 /\ Bits \in Nat
  BY PathLen, KBucketAssumption
<1>2. \A j \in 1..i : p[j] \in 0..1
  BY <1>1, PathLen
<1> DEFINE s == SubSeq(p, 1, i)
<1>3. /\ s \in Seq(0..1) /\ Len(s) = (IF 1 <= i THEN i - 1 + 1 ELSE 0)
      /\ \A j \in 1..i - 1 + 1 : s[j] = p[1 + j - 1]
  BY <1>1, <1>2, SubSeqProperties
<1> HIDE DEF s
<1>4. Len(s) = i /\ i - 1 + 1 = i
  BY <1>1, <1>3
<1>5. \A j \in 1..i : 1 + j - 1 = j
  BY <1>1
<1>6. \A j \in 1..i : s[j] = p[j]
  BY <1>3, <1>4, <1>5
<1>7. Len(s) <= Bits - 1
  BY <1>1, <1>4
<1> QED BY <1>3, <1>4, <1>6, <1>7, PathSeq DEF s

LEMMA OneLeaf ==
  ASSUME NEW S, NEW tail \in Path, NEW p, NEW q, LeafIn(S, tail, p), LeafIn(S, tail, q)
  PROVE  p = q
<1>1. p \in Path /\ q \in Path /\ Len(p) \in Nat /\ Len(q) \in Nat
  BY PathLen DEF LeafIn
<1>2. /\ Len(p) <= Len(tail) /\ \A i \in 1..Len(p) : p[i] = tail[i]
      /\ Len(q) <= Len(tail) /\ \A i \in 1..Len(q) : q[i] = tail[i]
  BY PrefixAgrees DEF LeafIn
<1>3. ASSUME NEW r \in Path, NEW s \in Path, LeafIn(S, tail, r), LeafIn(S, tail, s), Len(r) <= Len(s)
      PROVE  r = SubSeq(s, 1, Len(r))
  <2>1. /\ Len(r) <= Len(tail) /\ \A i \in 1..Len(r) : r[i] = tail[i]
        /\ Len(s) <= Len(tail) /\ \A i \in 1..Len(s) : s[i] = tail[i]
    BY <1>3, PrefixAgrees DEF LeafIn
  <2>2. Len(r) \in Nat /\ Len(s) \in Nat /\ Len(r) \in 0..Len(r)
    BY PathLen
  <2>3. \A i \in 1..Len(r) : i \in 1..Len(s)
    BY <1>3, <2>2
  <2>4. \A i \in 1..Len(r) : r[i] = s[i]
    BY <2>1, <2>3
  <2>5. SubSeq(r, 1, Len(r)) = SubSeq(s, 1, Len(r))
    BY <1>3, <2>2, <2>4, SamePrefix
  <2> QED BY <2>5, WholePrefix
<1>4. ASSUME NEW r \in Path, NEW s \in Path, LeafIn(S, tail, r), LeafIn(S, tail, s), Len(r) < Len(s)
      PROVE  FALSE
  <2>1. Len(r) \in 0..(Len(s) - 1) /\ Len(r) <= Len(s)
    BY <1>4, PathLen
  <2>2. r = SubSeq(s, 1, Len(r))
    BY <1>3, <1>4, <2>1
  <2>3. r \in S
    BY <1>4, <2>1, <2>2 DEF LeafIn
  <2> QED BY <1>4, <2>3 DEF LeafIn
<1>5. Len(p) = Len(q)
  <2>1. ~(Len(p) < Len(q)) /\ ~(Len(q) < Len(p))
    BY <1>1, <1>4
  <2> QED BY <1>1, <2>1
<1>6. p = SubSeq(q, 1, Len(q))
  BY <1>1, <1>3, <1>5
<1> QED BY <1>1, <1>6, WholePrefix

LEMMA SomeLeaf ==
  ASSUME NEW S, \A p \in S : Len(p) < Bits - 1, NEW tail \in Path, Len(tail) = Bits - 1
  PROVE  \E p : LeafIn(S, tail, p)
<1> DEFINE T == {i \in 0..Len(tail) : SubSeq(tail, 1, i) \notin S}
<1>1. Len(tail) \in Nat /\ Len(tail) \in 0..Len(tail) /\ SubSeq(tail, 1, Len(tail)) = tail
  BY PathLen, WholePrefix
<1>2. Len(tail) \in T
  <2>1. ~(Len(tail) < Bits - 1)
    BY KBucketAssumption
  <2>2. tail \notin S
    BY <2>1
  <2> QED BY <1>1, <2>2
<1>3. T \subseteq Nat
  BY <1>1
<1>4. PICK m \in T : \A j \in T : m <= j
  <2> HIDE DEF T
  <2> QED BY <1>2, <1>3, LeastMember
<1>5. PICK p : p = SubSeq(tail, 1, m)
  OBVIOUS
<1>6. p \in Path /\ Len(p) = m /\ \A j \in 1..m : p[j] = tail[j]
  BY <1>4, <1>5, PrefixPath
<1>7. m \in Nat /\ m <= Len(tail) /\ p \notin S
  BY <1>1, <1>4, <1>5
<1>8. IsPrefix(p, tail)
  BY <1>6, <1>7, PrefixAgrees
<1>9. ASSUME NEW i \in 0..(m - 1)
      PROVE  SubSeq(p, 1, i) \in S
  <2>1. i \in 0..Len(tail) /\ i \in 0..Len(p) /\ ~(m <= i) /\ i <= Len(tail)
    BY <1>1, <1>6, <1>7
  <2>2. \A j \in 1..i : j \in 1..m
    BY <1>7
  <2>3. SubSeq(p, 1, i) = SubSeq(tail, 1, i)
    BY <1>6, <2>1, <2>2, SamePrefix
  <2>4. i \notin T
    BY <1>4, <2>1
  <2> QED BY <2>1, <2>3, <2>4
<1> QED BY <1>6, <1>7, <1>8, <1>9 DEF LeafIn

LEMMA LeafOfHash ==
  ASSUME NEW S, \A p \in S : Len(p) < Bits - 1, NEW hash \in Hash
  PROVE  LET leaf == LeafFor(S, hash)
         IN /\ leaf \in Path /\ leaf \notin S
            /\ \A i \in 0..(Len(leaf) - 1) : SubSeq(leaf, 1, i) \in S
            /\ \A i \in 1..Len(leaf) : leaf[i] = hash[i + 1]
            /\ \A p \in Path :
                 /\ p \notin S /\ \A i \in 0..(Len(p) - 1) : SubSeq(p, 1, i) \in S
                 /\ \A i \in 1..Len(p) : p[i] = hash[i + 1]
                 => p = leaf
<1> DEFINE tail == HashTail(hash)
           leaf == LeafFor(S, hash)
<1>1. Bits - 1 \in Nat /\ \A i \in 1..Bits - 1 : i + 1 \in 1..Bits
  BY KBucketAssumption
<1>2. tail \in [1..Bits - 1 -> 0..1]
  BY <1>1 DEF Hash, HashTail
<1>3. tail \in Seq(0..1) /\ Len(tail) = Bits - 1 /\ \A i \in 1..Bits - 1 : tail[i] = hash[i + 1]
  BY <1>1, <1>2 DEF HashTail
<1>4. tail \in Path
  BY <1>1, <1>3, PathSeq
<1>0. leaf = CHOOSE p \in Path : IsPrefix(p, tail) /\ p \notin S
                                   /\ \A i \in 0..(Len(p) - 1) : SubSeq(p, 1, i) \in S
  BY DEF LeafFor
<1> HIDE DEF tail, leaf
<1>5. PICK q : LeafIn(S, tail, q)
  BY <1>3, <1>4, SomeLeaf
<1>6. LeafIn(S, tail, leaf)
  BY <1>0, <1>5 DEF LeafIn
<1>7. ASSUME NEW p \in Path
      PROVE  IsPrefix(p, tail) <=> \A i \in 1..Len(p) : p[i] = hash[i + 1]
  <2>1. Len(p) <= Len(tail) /\ \A i \in 1..Len(p) : i \in 1..Bits - 1
    BY <1>1, <1>3, PathLen
  <2> QED BY <1>3, <1>4, <2>1, PrefixAgrees
<1>8. ASSUME NEW p \in Path, p \notin S, \A i \in 0..(Len(p) - 1) : SubSeq(p, 1, i) \in S,
             \A i \in 1..Len(p) : p[i] = hash[i + 1]
      PROVE  p = leaf
  <2>1. LeafIn(S, tail, p)
    BY <1>7, <1>8 DEF LeafIn
  <2> QED BY <1>4, <1>6, <2>1, OneLeaf
<1> QED BY <1>6, <1>7, <1>8 DEF LeafIn, leaf

-----------------------------------------------------------------------------
(***************************************************************************)
(* The invariant.                                                          *)
(***************************************************************************)

\* removeNode, getClosest and ForcedIsStored speak of the leaf of a hash.
LEMMA LeafOfIsLeaf ==
  ASSUME KBInv, NEW hash \in Hash
  PROVE  /\ LeafOf(hash) \in Path /\ Leaf(LeafOf(hash))
         /\ \A p \in Path : Leaf(p) /\ (\A i \in 1..Len(p) : p[i] = hash[i + 1]) => p = LeafOf(hash)
<1>1. \A p \in split_buckets : Len(p) < Bits - 1
  BY DEF KBInv, TreeInv
<1>2. LeafOf(hash) = LeafFor(split_buckets, hash)
  BY DEF LeafOf, LeafFor, HashTail, getBit, isSplit
<1> DEFINE leaf == LeafFor(split_buckets, hash)
<1>3. /\ leaf \in Path /\ leaf \notin split_buckets
      /\ \A i \in 0..(Len(leaf) - 1) : SubSeq(leaf, 1, i) \in split_buckets
      /\ \A p \in Path :
           /\ p \notin split_buckets /\ \A i \in 0..(Len(p) - 1) : SubSeq(p, 1, i) \in split_buckets
           /\ \A i \in 1..Len(p) : p[i] = hash[i + 1]
           => p = leaf
  BY <1>1, LeafOfHash
<1> HIDE DEF leaf
<1>4. LeafOf(hash) = leaf
  BY <1>2 DEF leaf
<1> QED BY <1>3, <1>4 DEF Leaf, Below

LEMMA RemoveStep ==
  ASSUME KBInv, NEW n \in DHTNode, removeNode(n)
  PROVE  KBInv'
<1> DEFINE p == LeafOf(HashOf[n])
           list == RemoveFirst(bucket_contents[p], n)
<1>1. p \in Path
  BY LeafOfIsLeaf, KBucketAssumption
<1> HIDE DEF p
<1>2. bucket_contents[p] \in Seq(DHTNode)
  BY <1>1 DEF KBInv, KBTypeOK
<1>3. /\ list \in Seq(DHTNode) /\ Len(list) <= Len(bucket_contents[p])
      /\ \A m : Contains(list, m) => Contains(bucket_contents[p], m)
  BY <1>2, RemoveFirstProperties
<1>4. bucket_contents' = [bucket_contents EXCEPT ![p] = list]
  BY DEF removeNode, p
<1> HIDE DEF list
<1>5. OnOwnPath(p) => Len(list) <= k
  <2>1. OnOwnPath(p) => Len(bucket_contents[p]) <= k
    BY <1>1 DEF KBInv, TreeInv
  <2>2. Len(list) \in Nat /\ Len(bucket_contents[p]) \in Nat /\ k \in Nat
    BY <1>2, <1>3, LenProperties, KBucketAssumption
  <2> QED BY <1>3, <2>1, <2>2
<1> QED BY <1>1, <1>3, <1>4, <1>5, LeafFrame DEF removeNode, Idle, callVars

\* The root alone, empty.
LEMMA EmptyTreeInv ==
  ASSUME split_buckets' = {}, bucket_contents' = EmptyTree, adding' = Null, outcome' = "running",
         bad' \subseteq DHTNode, rebuilding' \subseteq DHTNode
  PROVE  KBInv'
<1>1. DOMAIN EmptyTree = Path /\ \A p \in Path : EmptyTree[p] = <<>>
  BY DEF EmptyTree
<1>2. \A n : ~Contains(<<>>, n)
  BY DEF Contains
<1>3. <<>> \in Seq(DHTNode) /\ Len(<<>>) <= k
  BY EmptySeq, KBucketAssumption
<1>4. KBTypeOK'
  BY <1>1, <1>3 DEF KBTypeOK
<1>5. TreeInv'
  BY <1>1, <1>2, <1>3 DEF TreeInv
<1> QED BY <1>4, <1>5 DEF KBInv

LEMMA KBInvInit ==
  ASSUME KBInit
  PROVE  KBInv
<1>1. DOMAIN EmptyTree = Path /\ \A p \in Path : EmptyTree[p] = <<>>
  BY DEF EmptyTree
<1>2. \A n : ~Contains(<<>>, n)
  BY DEF Contains
<1>3. <<>> \in Seq(DHTNode) /\ Len(<<>>) <= k
  BY EmptySeq, KBucketAssumption
<1>4. KBTypeOK
  BY <1>1, <1>3 DEF KBInit, KBTypeOK
<1>5. TreeInv
  BY <1>1, <1>2, <1>3 DEF KBInit, TreeInv
<1> QED BY <1>4, <1>5 DEF KBInv

LEMMA KBInvStep ==
  ASSUME KBInv, [DHTNext]_dhtVars
  PROVE  KBInv'
<1>1. ASSUME NEW n \in DHTNode, NEW force \in BOOLEAN, addNode(n, force)
      PROVE  KBInv'
  <2>1. adding' = [node |-> n, force |-> force, at |-> <<>>]
    BY <1>1 DEF addNode
  <2>2. adding' \in [node : DHTNode, force : BOOLEAN, at : Path] /\ adding'.at = <<>> /\ adding'.node = n
    BY <2>1, Root
  <2>3. outcome' \in {"running", "past_end", "looping"}
    BY <1>1 DEF addNode, Idle
  <2>4. Below(adding'.at) /\ Fits(adding'.at, adding'.node)
    BY <2>2, Root
  <2> QED BY <1>1, <2>2, <2>3, <2>4, CallFrame DEF addNode, treeVars, KBInv, KBTypeOK
<1>2. CASE addDescends
  BY <1>2, DescendsStep
<1>3. CASE addToLeaf
  BY <1>3, ToLeafStep
<1>4. CASE addToFullLeaf
  BY <1>4, FullLeafStep
<1>5. ASSUME NEW n \in DHTNode, removeNode(n)
      PROVE  KBInv'
  BY <1>5, RemoveStep
<1>6. ASSUME NEW nodes \in SUBSET DHTNode, rebuild(nodes)
      PROVE  KBInv'
  BY <1>6, EmptyTreeInv DEF rebuild, Idle, KBInv, KBTypeOK
<1>7. CASE rebuildAdds
  <2>1. PICK n \in rebuilding : /\ adding' = [node |-> n, force |-> FALSE, at |-> <<>>]
                                /\ rebuilding' = rebuilding \ {n}
    BY <1>7 DEF rebuildAdds
  <2>2. n \in DHTNode /\ rebuilding' \subseteq DHTNode
    BY <2>1 DEF KBInv, KBTypeOK
  <2>3. adding' \in [node : DHTNode, force : BOOLEAN, at : Path] /\ adding'.at = <<>> /\ adding'.node = n
    BY <2>1, <2>2, Root
  <2>4. Below(adding'.at) /\ Fits(adding'.at, adding'.node)
    BY <2>3, Root
  <2>5. outcome' \in {"running", "past_end", "looping"}
    BY <1>7 DEF rebuildAdds, KBInv, KBTypeOK, TreeInv
  <2> QED BY <1>7, <2>2, <2>3, <2>4, <2>5, CallFrame DEF rebuildAdds, treeVars, KBInv, KBTypeOK
<1>8. ASSUME UNCHANGED <<split_buckets, bucket_contents, adding, rebuilding>>, bad' \subseteq DHTNode,
             outcome' \in {"running", "past_end", "looping"}
      PROVE  KBInv'
  BY <1>8, CallFrame DEF KBInv, KBTypeOK, TreeInv
<1>9. outcome \in {"running", "past_end", "looping"} /\ bad \subseteq DHTNode
  BY DEF KBInv, KBTypeOK, TreeInv
<1>10. ASSUME NEW nodes \in SUBSET DHTNode, reliabilityChanges(nodes)
       PROVE  KBInv'
  BY <1>8, <1>9, <1>10 DEF reliabilityChanges, callVars
<1>11. CASE UNCHANGED kbVars
  BY <1>8, <1>9, <1>11 DEF kbVars, treeVars, callVars
<1>12. ASSUME NEW m \in DHTPart, processRequestBase(m)
       PROVE  KBInv'
  BY <1>8, <1>9, <1>12 DEF processRequestBase, treeVars
<1>13. ASSUME NEW hash \in Target, findAnyIterative(hash)
       PROVE  KBInv'
  <2>1. outcome' \in {"running", "past_end", "looping"}
    BY <1>13 DEF findAnyIterative, getClosest
  <2> QED BY <1>8, <1>9, <1>13, <2>1 DEF findAnyIterative, treeVars
<1>14. CASE KBNext
  BY <1>1, <1>2, <1>3, <1>4, <1>5, <1>6, <1>7, <1>10, <1>14 DEF KBNext, addContinues
<1> QED BY <1>11, <1>12, <1>13, <1>14
        DEF DHTNext, dhtVars, processRequest, processReply, findAny

LEMMA KBInvariant == DHTSpec => []KBInv
<1>1. DHTInit => KBInv
  BY KBInvInit DEF DHTInit
<1>2. KBInv /\ [DHTNext]_dhtVars => KBInv'
  BY KBInvStep
<1> QED BY <1>1, <1>2, PTL DEF DHTSpec

\* The steps that change the tree or end a call of addNode.
LEMMA TreeSteps ==
  ASSUME KBInv, [DHTNext]_dhtVars
  PROVE  \/ addToLeaf
         \/ addToFullLeaf
         \/ \E n \in DHTNode : removeNode(n)
         \/ \E nodes \in SUBSET DHTNode : rebuild(nodes)
         \/ UNCHANGED <<split_buckets, bucket_contents>> /\ (adding # Null => adding' # Null)
<1> DEFINE Kept == UNCHANGED <<split_buckets, bucket_contents>> /\ (adding # Null => adding' # Null)
<1>1. ASSUME NEW n \in DHTNode, NEW force \in BOOLEAN, addNode(n, force)
      PROVE  Kept
  BY <1>1 DEF addNode, Idle, treeVars
<1>2. ASSUME addDescends
      PROVE  Kept
  <2>1. adding \in [node : DHTNode, force : BOOLEAN, at : Path]
    BY <1>2 DEF addDescends, KBInv, KBTypeOK
  <2>2. adding' \in [node : DHTNode, force : BOOLEAN, at : Path] \cup {Null}
    BY <1>2, DescendsStep DEF KBInv, KBTypeOK
  <2>3. adding' # Null
    <3>1. adding.at \in Path /\ Len(adding.at) < Bits - 1 /\ adding.node \in DHTNode
      BY <1>2, <2>1 DEF addDescends, isSplit, KBInv, TreeInv
    <3>2. determineBucket(adding.at, HashOf[adding.node]) \in Path
      BY <3>1, FittingChild
    <3>3. adding' = [adding EXCEPT !.at = determineBucket(adding.at, HashOf[adding.node])]
      BY <1>2 DEF addDescends
    <3>4. adding' \in [node : DHTNode, force : BOOLEAN, at : Path]
      BY <2>1, <3>2, <3>3
    <3> QED BY <3>4, KBucketAssumption
  <2> QED BY <1>2, <2>3 DEF addDescends, treeVars
<1>3. ASSUME rebuildAdds
      PROVE  Kept
  BY <1>3 DEF rebuildAdds, treeVars
<1>4. ASSUME NEW nodes \in SUBSET DHTNode, reliabilityChanges(nodes)
      PROVE  Kept
  BY <1>4 DEF reliabilityChanges, callVars
<1>5. ASSUME UNCHANGED kbVars
      PROVE  Kept
  BY <1>5 DEF kbVars, treeVars, callVars
<1>6. ASSUME NEW m \in DHTPart, processRequestBase(m)
      PROVE  Kept
  BY <1>6 DEF processRequestBase, treeVars
<1>7. ASSUME NEW hash \in Target, findAnyIterative(hash)
      PROVE  Kept
  BY <1>7 DEF findAnyIterative, treeVars
<1> HIDE DEF Kept
<1>8. CASE KBNext
  BY <1>1, <1>2, <1>3, <1>4, <1>8 DEF KBNext, addContinues, Kept
<1>9. CASE ~KBNext
  BY <1>5, <1>6, <1>7, <1>9 DEF DHTNext, dhtVars, processRequest, processReply, findAny, Kept
<1> QED BY <1>8, <1>9

\* The lists after a split: no longer than k, and with every node that is not BAD.
LEMMA SplitLists ==
  ASSUME KBInv, addToFullLeaf, ~Contains(RemoveIf(bucket_contents[adding.at]), adding.node),
         Splittable(adding.at)
  PROVE  /\ \A q \in Path : Len(bucket_contents'[q]) <= k \/ bucket_contents'[q] = bucket_contents[q]
         /\ \A n \in DHTNode \ bad : Stored(n) => Stored(n)'
         /\ adding' # Null
<1> DEFINE p == adding.at
           old == bucket_contents[p]
           list == RemoveIf(old)
           Child(q) == Len(q) = Len(p) + 1 /\ IsPrefix(p, q)
           Share(q) == {n \in DHTNode : determineBucket(p, HashOf[n]) = q}
<1>1. /\ p \in Path /\ adding.node \in DHTNode /\ adding.force \in BOOLEAN
      /\ Leaf(p) /\ OnOwnPath(p) /\ Len(p) < Bits - 1
      /\ old \in Seq(DHTNode) /\ list \in Seq(DHTNode) /\ Len(list) = Len(old) /\ Len(old) \in Nat
      /\ \A n \in DHTNode \ bad : Contains(old, n) => Contains(list, n)
  BY FullLeaf
<1>2. /\ bucket_contents' = Distributed(p, list)
      /\ adding' = [adding EXCEPT !.at = determineBucket(p, HashOf[adding.node])]
  BY FullLeafCases
<1>3. Len(old) <= k /\ k \in Nat
  BY <1>1, KBucketAssumption DEF KBInv, TreeInv
<1> HIDE DEF list
<1>4. \A q \in Path : bucket_contents'[q] =
        IF q = p THEN <<>> ELSE IF Child(q) THEN Filtered(list, Share(q)) ELSE bucket_contents[q]
  BY <1>2 DEF Distributed
<1>5. ASSUME NEW q \in Path
      PROVE  /\ Filtered(list, Share(q)) \in Seq(DHTNode) /\ Len(Filtered(list, Share(q))) <= k
             /\ \A n : Contains(Filtered(list, Share(q)), n) <=> Contains(list, n) /\ n \in Share(q)
  <2> DEFINE part == Filtered(list, Share(q))
  <2>1. /\ part \in Seq(DHTNode) /\ Len(part) <= Len(list)
        /\ \A n : Contains(part, n) <=> Contains(list, n) /\ n \in Share(q)
    BY <1>1, FilteredProperties
  <2> HIDE DEF part
  <2>2. Len(part) \in Nat /\ Len(part) <= k
    BY <1>1, <1>3, <2>1, LenProperties
  <2> QED BY <2>1, <2>2 DEF part
<1> HIDE DEF Share
<1>6. \A q \in Path : Len(bucket_contents'[q]) <= k \/ bucket_contents'[q] = bucket_contents[q]
  <2>1. Len(<<>>) <= k
    BY <1>3
  <2> QED BY <1>4, <1>5, <2>1
<1>7. ASSUME NEW n \in DHTNode \ bad, NEW q \in Path, Contains(bucket_contents[q], n)
      PROVE  \E r \in Path : Contains(bucket_contents'[r], n)
  <2>1. CASE q = p
    <3>1. PICK r : r = determineBucket(p, HashOf[n])
      OBVIOUS
    <3>2. r \in Path /\ Len(r) = Len(p) + 1 /\ \A i \in 1..Len(p) : r[i] = p[i]
      BY <1>1, <3>1, FittingChild
    <3>3. Len(p) \in Nat /\ Len(p) <= Len(r) /\ r # p
      BY <1>1, <3>2, PathLen
    <3>4. Child(r)
      BY <1>1, <3>2, <3>3, PrefixAgrees
    <3>5. Contains(list, n) /\ n \in Share(r)
      BY <1>1, <1>7, <2>1, <3>1 DEF Share
    <3>6. Contains(bucket_contents'[r], n)
      BY <1>4, <1>5, <3>2, <3>3, <3>4, <3>5
    <3> QED BY <3>2, <3>6
  <2>2. CASE q # p
    <3>1. Leaf(q)
      BY <1>7 DEF KBInv, TreeInv
    <3>2. ASSUME Child(q)
          PROVE  FALSE
      <4>1. \A i \in 1..Len(p) : q[i] = p[i]
        BY <1>1, <3>2, PrefixAgrees
      <4>2. SubSeq(q, 1, Len(p)) = p
        BY <1>1, <3>2, <4>1, ChildPrefixes
      <4>3. Len(p) \in 0..(Len(q) - 1)
        BY <1>1, <3>2, PathLen
      <4> QED BY <1>1, <3>1, <4>2, <4>3 DEF Leaf, Below
    <3> QED BY <1>4, <1>7, <2>2, <3>2
  <2> QED BY <2>1, <2>2
<1>8. \A n \in DHTNode \ bad : Stored(n) => Stored(n)'
  BY <1>7 DEF Stored
<1>9. adding' # Null
  <2>1. determineBucket(p, HashOf[adding.node]) \in Path
    BY <1>1, FittingChild
  <2>2. adding \in [node : DHTNode, force : BOOLEAN, at : Path]
    BY DEF KBInv, KBTypeOK, addToFullLeaf
  <2>3. adding' \in [node : DHTNode, force : BOOLEAN, at : Path]
    BY <1>2, <2>1, <2>2
  <2> QED BY <2>3, KBucketAssumption
<1> QED BY <1>6, <1>8, <1>9

\* A leaf that is not split takes the node if the caller insists; it then is not on
\* our own path.
LEMMA UnsplitList ==
  ASSUME KBInv, addToFullLeaf,
         ~(~Contains(RemoveIf(bucket_contents[adding.at]), adding.node) /\ Splittable(adding.at))
  PROVE  \E list \in Seq(DHTNode) :
           /\ bucket_contents' = [bucket_contents EXCEPT ![adding.at] = list]
           /\ Len(list) > Len(bucket_contents[adding.at]) => adding.force /\ ~OnOwnPath(adding.at)
           /\ \A n \in DHTNode \ bad : Contains(bucket_contents[adding.at], n) => Contains(list, n)
           /\ adding.force => Contains(list, adding.node)
           /\ UNCHANGED split_buckets
<1> DEFINE p == adding.at
           old == bucket_contents[p]
           tidy == RemoveIf(old)
           takes == ~Contains(tidy, adding.node) /\ adding.force
           new == IF takes THEN Append(tidy, adding.node) ELSE tidy
<1>1. /\ adding.node \in DHTNode /\ adding.force \in BOOLEAN /\ Len(old) \in Nat
      /\ tidy \in Seq(DHTNode) /\ Len(tidy) = Len(old)
      /\ \A n \in DHTNode \ bad : Contains(old, n) => Contains(tidy, n)
      /\ OnOwnPath(p) => Splittable(p)
  BY FullLeaf
<1>2. bucket_contents' = [bucket_contents EXCEPT ![p] = new] /\ UNCHANGED split_buckets
  BY FullLeafCases
<1> HIDE DEF tidy
<1>3. /\ Append(tidy, adding.node) \in Seq(DHTNode)
      /\ \A m : Contains(Append(tidy, adding.node), m) <=> Contains(tidy, m) \/ m = adding.node
  BY <1>1, AppendContains
<1>4. CASE takes
  <2>1. new = Append(tidy, adding.node)
    BY <1>4
  <2>2. adding.force /\ ~OnOwnPath(p)
    BY <1>1, <1>4 DEF tidy
  <2> HIDE DEF new
  <2> QED BY <1>1, <1>2, <1>3, <2>1, <2>2
<1>5. CASE ~takes
  <2>1. new = tidy /\ ~(Len(tidy) > Len(old))
    BY <1>1, <1>5
  <2>2. adding.force => Contains(tidy, adding.node)
    BY <1>5
  <2> HIDE DEF new
  <2> QED BY <1>1, <1>2, <2>1, <2>2
<1> QED BY <1>4, <1>5

\* addNode at a leaf with room.
LEMMA RoomList ==
  ASSUME KBInv, addToLeaf
  PROVE  \E list \in Seq(DHTNode) :
           /\ bucket_contents' = [bucket_contents EXCEPT ![adding.at] = list]
           /\ Len(list) <= k
           /\ \A n : Contains(bucket_contents[adding.at], n) => Contains(list, n)
           /\ Contains(list, adding.node)
           /\ UNCHANGED split_buckets
<1> DEFINE old == bucket_contents[adding.at]
           list == Append(old, adding.node)
<1>1. adding.node \in DHTNode /\ old \in Seq(DHTNode)
  BY DEF KBInv, KBTypeOK, addToLeaf
<1>2. /\ bucket_contents' = [bucket_contents EXCEPT ![adding.at] = list]
      /\ Len(old) < k /\ UNCHANGED split_buckets
  BY DEF addToLeaf
<1>3. /\ list \in Seq(DHTNode) /\ Len(list) = Len(old) + 1 /\ Len(old) \in Nat
      /\ \A m : Contains(list, m) <=> Contains(old, m) \/ m = adding.node
  BY <1>1, AppendContains
<1> HIDE DEF list
<1>4. Len(list) <= k
  BY <1>2, <1>3, KBucketAssumption
<1> QED BY <1>2, <1>3, <1>4

LEMMA RemovedList ==
  ASSUME KBInv, NEW n \in DHTNode, removeNode(n)
  PROVE  \E p \in Path, list \in Seq(DHTNode) :
           /\ bucket_contents' = [bucket_contents EXCEPT ![p] = list]
           /\ Len(list) <= Len(bucket_contents[p])
           /\ \A m : m # n /\ Contains(bucket_contents[p], m) => Contains(list, m)
<1> DEFINE p == LeafOf(HashOf[n])
           list == RemoveFirst(bucket_contents[p], n)
<1>1. p \in Path
  BY LeafOfIsLeaf, KBucketAssumption
<1>2. bucket_contents' = [bucket_contents EXCEPT ![p] = list]
  BY DEF removeNode
<1> HIDE DEF p
<1>3. bucket_contents[p] \in Seq(DHTNode)
  BY <1>1 DEF KBInv, KBTypeOK
<1>4. /\ list \in Seq(DHTNode) /\ Len(list) <= Len(bucket_contents[p])
      /\ \A m : m # n /\ Contains(bucket_contents[p], m) => Contains(list, m)
  BY <1>3, RemoveFirstProperties
<1> HIDE DEF list
<1> QED BY <1>1, <1>2, <1>4

-----------------------------------------------------------------------------
(***************************************************************************)
(* Theorems.                                                               *)
(***************************************************************************)

\* The messages that process() takes and sends, and the lists of the buckets, are
\* of their types.
THEOREM DHTTypeCorrect == DHTSpec => []DHTTypeOK
<1>1. DHTInit => DHTTypeOK
  BY KBInvInit DEF DHTInit, DHTTypeOK, KBInv
<1>2. DHTTypeOK /\ KBInv /\ KBInv' /\ [DHTNext]_dhtVars => DHTTypeOK'
  <2> SUFFICES ASSUME DHTTypeOK, KBInv', [DHTNext]_dhtVars
               PROVE  /\ received' \in DHTPart \cup {Null} /\ sent' \in DHTPart \cup {Null}
                      /\ found' \subseteq DHTNode
    BY DEF DHTTypeOK, KBInv
  <2>1. ASSUME NEW m \in DHTPart
        PROVE  /\ m.peer \in Peer /\ m.hash \in Target /\ m.contacts \subseteq DHTNode
               /\ m.type \in Request \cup Reply
    BY DEF DHTPart
  <2>2. ASSUME NEW peer \in Peer, NEW hash \in Target, NEW type \in Reply, NEW contacts \in SUBSET DHTNode
        PROVE  Part(peer, type, hash, contacts) \in DHTPart
    BY DEF Part, DHTPart
  <2>3. ASSUME NEW m \in DHTPart, processRequest(m)
        PROVE  sent' \in DHTPart /\ received' = m /\ found' = {}
    <3>1. PICK contacts \in ClosestTo(k) : sent' = Part(m.peer, ReplyType(m.type), m.hash, contacts)
      BY <2>3 DEF processRequest
    <3>2. contacts \in SUBSET DHTNode
      BY DEF ClosestTo
    <3>3. ReplyType(m.type) \in Reply
      BY DEF ReplyType, Reply
    <3> QED BY <2>1, <2>2, <2>3, <3>1, <3>2, <3>3 DEF processRequest
  <2>4. ASSUME NEW m \in DHTPart, processReply(m)
        PROVE  sent' = Null /\ received' = m /\ found' \subseteq DHTNode
    BY <2>1, <2>4 DEF processReply
  <2>5. ASSUME NEW hash \in Target, NEW dest \in Peer, NEW action \in Request, findAny(hash, dest, action)
        PROVE  sent' \in DHTPart /\ received' = Null /\ found' = {}
    BY <2>5 DEF findAny, Part, DHTPart
  <2>6. CASE UNCHANGED serviceVars
    BY <2>6 DEF serviceVars, DHTTypeOK
  <2>7. ASSUME NEW m \in DHTPart, processRequestBase(m)
        PROVE  sent' = Null /\ received' = m /\ found' = {}
    BY <2>7 DEF processRequestBase
  <2> QED BY <2>3, <2>4, <2>5, <2>6, <2>7 DEF DHTNext, dhtVars, findAnyIterative
<1> QED BY <1>1, <1>2, KBInvariant, PTL DEF DHTSpec

\* addNode puts every node into the leaf that its hash leads to, and splits keep it so.
THEOREM PlacementCorrect == DHTSpec => []PlacedByPrefix
<1>1. KBInv => PlacedByPrefix
  <2> SUFFICES ASSUME KBInv
               PROVE  PlacedByPrefix
    OBVIOUS
  <2>1. \A p \in Path : /\ bucket_contents[p] \in Seq(DHTNode) /\ Len(bucket_contents[p]) \in Nat
                        /\ \A i \in 1..Len(bucket_contents[p]) : bucket_contents[p][i] \in DHTNode
    BY LenProperties, ElementOfSeq DEF KBInv, KBTypeOK
  <2>2. ASSUME NEW p \in Path, bucket_contents[p] # <<>>
        PROVE  Leaf(p)
    <3>1. 1 \in 1..Len(bucket_contents[p])
      BY <2>1, <2>2, EmptySeq
    <3>2. bucket_contents[p][1] \in DHTNode /\ Contains(bucket_contents[p], bucket_contents[p][1])
      BY <2>1, <3>1 DEF Contains
    <3> QED BY <3>2 DEF KBInv, TreeInv
  <2>3. ASSUME NEW p \in Path, Leaf(p), p # <<>>
        PROVE  Front(p) \in split_buckets
    <3>1. Len(p) \in Nat /\ Len(p) # 0
      BY <2>3, PathLen, EmptySeq
    <3>2. Len(p) - 1 \in 0..(Len(p) - 1)
      BY <3>1
    <3> QED BY <2>3, <3>2 DEF Leaf, Below, Front
  <2>4. ASSUME NEW p \in Path, NEW n \in ToSet(bucket_contents[p])
        PROVE  Fits(p, n)
    <3>1. PICK i \in 1..Len(bucket_contents[p]) : n = bucket_contents[p][i]
      BY <2>1, <2>4 DEF ToSet
    <3>2. n \in DHTNode /\ Contains(bucket_contents[p], n)
      BY <2>1, <3>1 DEF Contains
    <3> QED BY <3>2 DEF KBInv, TreeInv
  <2>5. ASSUME NEW p \in split_buckets
        PROVE  OnOwnPath(p) /\ bucket_contents[p] = <<>> /\ Below(p)
    BY <2>2 DEF KBInv, KBTypeOK, TreeInv, Leaf
  <2> QED BY <2>2, <2>3, <2>4, <2>5 DEF PlacedByPrefix, Below, Fits
<1> QED BY <1>1, KBInvariant, PTL

\* No split reads a bit that the hash does not have, however many nodes are added.
THEOREM SplitsEnd == DHTSpec => [](outcome # "past_hash")
<1>1. KBInv => outcome # "past_hash"
  BY DEF KBInv, TreeInv
<1> QED BY <1>1, KBInvariant, PTL

\* The leaf on our own path is split before it exceeds k, and any other leaf exceeds
\* k only when the caller of addNode insists.
THEOREM OverfullCorrect == DHTSpec => OverfullOnlyByForce
<1> DEFINE Grows(p) == Len(bucket_contents'[p]) > k /\ Len(bucket_contents'[p]) > Len(bucket_contents[p])
           Asked(p) == adding # Null /\ adding.force /\ ~OnOwnPath(p)
<1>1. ASSUME KBInv, [DHTNext]_dhtVars, NEW p \in Path, Grows(p)
      PROVE  Asked(p)
  <2>1. /\ DOMAIN bucket_contents = Path /\ \A q \in Path : bucket_contents[q] \in Seq(DHTNode)
        /\ Len(bucket_contents[p]) \in Nat /\ k \in Nat
    BY <1>1, LenProperties, KBucketAssumption DEF KBInv, KBTypeOK
  <2>2. Len(bucket_contents'[p]) \in Nat
    BY <1>1, KBInvStep, LenProperties DEF KBInv, KBTypeOK
  <2>3. bucket_contents'[p] # bucket_contents[p] /\ ~(Len(bucket_contents'[p]) <= k)
        /\ ~(Len(bucket_contents'[p]) <= Len(bucket_contents[p]))
    BY <1>1, <2>1, <2>2
  <2>4. ASSUME NEW q, NEW list, bucket_contents' = [bucket_contents EXCEPT ![q] = list]
        PROVE  p = q /\ bucket_contents'[p] = list
    BY <2>1, <2>3, <2>4
  <2>5. CASE addToLeaf
    <3>1. PICK list \in Seq(DHTNode) : bucket_contents' = [bucket_contents EXCEPT ![adding.at] = list] /\ Len(list) <= k
      BY <1>1, <2>5, RoomList
    <3> QED BY <2>3, <2>4, <3>1
  <2>6. CASE addToFullLeaf
    <3> DEFINE splits == ~Contains(RemoveIf(bucket_contents[adding.at]), adding.node) /\ Splittable(adding.at)
    <3>1. CASE splits
      BY <1>1, <2>3, <2>6, <3>1, SplitLists
    <3>2. CASE ~splits
      <4>1. PICK list \in Seq(DHTNode) :
              /\ bucket_contents' = [bucket_contents EXCEPT ![adding.at] = list]
              /\ Len(list) > Len(bucket_contents[adding.at]) => adding.force /\ ~OnOwnPath(adding.at)
        BY <1>1, <2>6, <3>2, UnsplitList
      <4>2. p = adding.at /\ bucket_contents'[p] = list
        BY <2>4, <4>1
      <4>3. adding # Null
        BY <2>6 DEF addToFullLeaf
      <4> QED BY <1>1, <4>1, <4>2, <4>3
    <3> QED BY <3>1, <3>2
  <2>7. ASSUME NEW n \in DHTNode, removeNode(n)
        PROVE  FALSE
    <3>1. PICK q \in Path, list \in Seq(DHTNode) :
            bucket_contents' = [bucket_contents EXCEPT ![q] = list] /\ Len(list) <= Len(bucket_contents[q])
      BY <1>1, <2>7, RemovedList
    <3> QED BY <2>3, <2>4, <3>1
  <2>8. ASSUME NEW nodes \in SUBSET DHTNode, rebuild(nodes)
        PROVE  FALSE
    <3>1. bucket_contents'[p] = <<>>
      BY <2>8 DEF rebuild, EmptyTree
    <3> QED BY <2>1, <2>3, <3>1
  <2>9. CASE UNCHANGED <<split_buckets, bucket_contents>>
    BY <2>3, <2>9
  <2> QED BY <1>1, <2>5, <2>6, <2>7, <2>8, <2>9, TreeSteps
<1>2. KBInv /\ [DHTNext]_dhtVars => [\A p \in Path : Grows(p) => Asked(p)]_kbVars
  BY <1>1
<1> QED BY <1>2, KBInvariant, PTL DEF DHTSpec, OverfullOnlyByForce

\* addNode's tidying and splitting lose no node that is not BAD, and a node leaves
\* the tree by removeNode or rebuild only.
THEOREM NodesKeptCorrect == DHTSpec => NodesKept
<1> DEFINE Left(n) == removeNode(n) \/ \E nodes \in SUBSET DHTNode : rebuild(nodes)
<1>1. ASSUME KBInv, [DHTNext]_dhtVars, NEW n \in DHTNode \ bad, Stored(n), ~Stored(n)'
      PROVE  Left(n)
  <2>1. PICK p \in Path : Contains(bucket_contents[p], n)
    BY <1>1 DEF Stored
  <2>2. \A q \in Path : ~Contains(bucket_contents'[q], n)
    BY <1>1 DEF Stored
  <2>3. DOMAIN bucket_contents = Path
    BY <1>1 DEF KBInv, KBTypeOK
  <2>4. ASSUME NEW q, NEW list, bucket_contents' = [bucket_contents EXCEPT ![q] = list]
        PROVE  p = q /\ bucket_contents'[p] = list
    BY <2>1, <2>2, <2>3, <2>4
  <2>5. CASE addToLeaf
    <3>1. PICK list \in Seq(DHTNode) :
            /\ bucket_contents' = [bucket_contents EXCEPT ![adding.at] = list]
            /\ \A m : Contains(bucket_contents[adding.at], m) => Contains(list, m)
      BY <1>1, <2>5, RoomList
    <3> QED BY <2>1, <2>2, <2>4, <3>1
  <2>6. CASE addToFullLeaf
    <3> DEFINE splits == ~Contains(RemoveIf(bucket_contents[adding.at]), adding.node) /\ Splittable(adding.at)
    <3>1. CASE splits
      BY <1>1, <2>6, <3>1, SplitLists
    <3>2. CASE ~splits
      <4>1. PICK list \in Seq(DHTNode) :
              /\ bucket_contents' = [bucket_contents EXCEPT ![adding.at] = list]
              /\ \A m \in DHTNode \ bad : Contains(bucket_contents[adding.at], m) => Contains(list, m)
        BY <1>1, <2>6, <3>2, UnsplitList
      <4> QED BY <2>1, <2>2, <2>4, <4>1
    <3> QED BY <3>1, <3>2
  <2>7. ASSUME NEW m \in DHTNode, removeNode(m)
        PROVE  removeNode(n)
    <3>1. PICK q \in Path, list \in Seq(DHTNode) :
            /\ bucket_contents' = [bucket_contents EXCEPT ![q] = list]
            /\ \A x : x # m /\ Contains(bucket_contents[q], x) => Contains(list, x)
      BY <1>1, <2>7, RemovedList
    <3>2. m = n
      BY <2>1, <2>2, <2>4, <3>1
    <3> QED BY <2>7, <3>2
  <2>8. ~UNCHANGED <<split_buckets, bucket_contents>>
    BY <2>1, <2>2
  <2> QED BY <1>1, <2>5, <2>6, <2>7, <2>8, TreeSteps
<1>2. KBInv /\ [DHTNext]_dhtVars => [\A n \in DHTNode \ bad : Stored(n) /\ ~Stored(n)' => Left(n)]_kbVars
  BY <1>1
<1> QED BY <1>2, KBInvariant, PTL DEF DHTSpec, NodesKept

\* The bucket at which a call of addNode that insists returns is the one in which
\* removeNode and getClosest will look for the node.
THEOREM ForcedCorrect == DHTSpec => ForcedIsStored
<1> DEFINE Ends(n) == Adds(n) /\ adding.force /\ adding' = Null
           Found(n) == Contains(bucket_contents'[LeafOf(HashOf[n])'], n)
<1>1. ASSUME KBInv, [DHTNext]_dhtVars, NEW n \in DHTNode, Ends(n)
      PROVE  Found(n)
  <2>1. adding # Null /\ adding.node = n /\ adding.force /\ adding' = Null
    BY <1>1 DEF Adds
  <2>2. adding.at \in Path /\ DOMAIN bucket_contents = Path
    BY <1>1, <2>1 DEF KBInv, KBTypeOK
  <2>3. ASSUME UNCHANGED split_buckets, Leaf(adding.at)
        PROVE  LeafOf(HashOf[n])' = adding.at
    <3>1. Fits(adding.at, n)
      BY <1>1, <2>1 DEF KBInv, TreeInv
    <3>2. LeafOf(HashOf[n]) = adding.at
      BY <1>1, <2>2, <2>3, <3>1, LeafOfIsLeaf, KBucketAssumption DEF Fits
    <3>3. LeafOf(HashOf[n])' = LeafOf(HashOf[n])
      BY <2>3 DEF LeafOf, isSplit
    <3> QED BY <3>2, <3>3
  <2>4. ASSUME NEW list, bucket_contents' = [bucket_contents EXCEPT ![adding.at] = list], Contains(list, n),
               UNCHANGED split_buckets, Leaf(adding.at)
        PROVE  Found(n)
    <3>1. bucket_contents'[adding.at] = list
      BY <2>2, <2>4
    <3> QED BY <2>3, <2>4, <3>1
  <2>5. CASE addToLeaf
    <3>1. PICK list \in Seq(DHTNode) :
            /\ bucket_contents' = [bucket_contents EXCEPT ![adding.at] = list]
            /\ Contains(list, adding.node) /\ UNCHANGED split_buckets
      BY <1>1, <2>5, RoomList
    <3>2. Leaf(adding.at)
      BY <1>1, <2>5 DEF addToLeaf, isSplit, KBInv, TreeInv, Leaf
    <3> QED BY <2>1, <2>4, <3>1, <3>2
  <2>6. CASE addToFullLeaf
    <3> DEFINE splits == ~Contains(RemoveIf(bucket_contents[adding.at]), adding.node) /\ Splittable(adding.at)
    <3>1. ~splits
      BY <1>1, <2>1, <2>6, SplitLists
    <3>2. PICK list \in Seq(DHTNode) :
            /\ bucket_contents' = [bucket_contents EXCEPT ![adding.at] = list]
            /\ adding.force => Contains(list, adding.node)
            /\ UNCHANGED split_buckets
      BY <1>1, <2>6, <3>1, UnsplitList
    <3>3. Leaf(adding.at)
      BY <1>1, <2>6, FullLeaf
    <3> QED BY <2>1, <2>4, <3>2, <3>3
  <2>7. /\ ~ \E m \in DHTNode : removeNode(m)
        /\ ~ \E nodes \in SUBSET DHTNode : rebuild(nodes)
    BY <2>1 DEF removeNode, rebuild, Idle
  <2> QED BY <1>1, <2>1, <2>5, <2>6, <2>7, TreeSteps
<1>2. KBInv /\ [DHTNext]_dhtVars => [\A n \in DHTNode : Ends(n) => Found(n)]_kbVars
  BY <1>1
<1> QED BY <1>2, KBInvariant, PTL DEF DHTSpec, ForcedIsStored
===============================================================================
