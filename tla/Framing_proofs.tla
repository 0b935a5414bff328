---------------------------- MODULE Framing_proofs ----------------------------
(***************************************************************************)
(* For any messages, bytes and sizes, and however the kernel cuts what is  *)
(* written: the frames on a Unix socket are the queues of Channel, and a   *)
(* key that is passed on as text is read as the same key.                  *)
(***************************************************************************)
EXTENDS MCFraming, SequenceTheorems, WellFoundedInduction, TLAPS

(***************************************************************************)
(* Induction and recursion, with sets and functions for formulas.          *)
(***************************************************************************)

\* If no natural is the least one outside a set, all are in it.
LEMMA StrongInduction ==
  ASSUME NEW T, \A n \in Nat : (\A k \in 0..n - 1 : k \in T) => n \in T
  PROVE  Nat \subseteq T
<1> SUFFICES ASSUME Nat \ T # {}
             PROVE  FALSE
  OBVIOUS
<1> DEFINE R == OpToRel(<, Nat)
<1>1. IsWellFoundedOn(R, Nat)
  BY NatLessThanWellFounded, Zenon
<1>2. R = {ss \in Nat \X Nat : ss[1] < ss[2]}
  BY DEF OpToRel
<1> HIDE DEF R
<1>3. PICK m \in Nat \ T : \A y \in Nat \ T : ~ (<<y, m>> \in R)
  BY <1>1, WFMin, Zenon
<1>4. \A y \in Nat \ T : ~ (y < m)
  BY <1>2, <1>3, Zenon
<1>5. \A k \in 0..m - 1 : k \in T
  BY <1>3, <1>4
<1> QED BY <1>3, <1>5

\* Induction from a number to the next.
LEMMA Induction ==
  ASSUME NEW T, 0 \in T, \A n \in Nat : n \in T => n + 1 \in T
  PROVE  Nat \subseteq T
<1>1. ASSUME NEW n \in Nat, \A k \in 0..n - 1 : k \in T
      PROVE  n \in T
  <2>1. CASE n = 0
    BY <2>1
  <2>2. CASE n # 0
    <3>1. n - 1 \in Nat /\ n - 1 \in 0..n - 1 /\ n = (n - 1) + 1
      BY <2>2
    <3> QED BY <3>1, <1>1
  <2> QED BY <2>1, <2>2
<1> QED BY <1>1, StrongInduction

\* f[x] follows from f[pred[x]], for all x in X.
Recurs(f, X, Ends, start, step, pred) ==
  \A x \in X : f[x] = IF x \in Ends THEN start[x] ELSE step[<<x, f[pred[x]]>>]

\* Such a function exists if pred gets smaller, up to a last member.
LEMMA Recursion ==
  ASSUME NEW D, NEW S, NEW Ends, NEW m \in [D -> Nat], NEW start \in [D -> S], NEW step \in [D \X S -> S],
         NEW pred \in [D -> D], \A x \in D \ Ends : m[pred[x]] < m[x]
  PROVE  \E f \in [D -> S] : Recurs(f, D, Ends, start, step, pred)
<1> DEFINE Low(n) == {x \in D : m[x] < n}
           Solves(f, n) == f \in [Low(n) -> S] /\ Recurs(f, Low(n), Ends, start, step, pred)
           T == {n \in Nat : \E f : Solves(f, n)}
<1>1. 0 \in T
  <2>1. Low(0) = {}
    OBVIOUS
  <2>2. Solves([x \in Low(0) |-> start[x]], 0)
    BY <2>1 DEF Recurs
  <2> QED BY <2>2, Zenon
<1>2. ASSUME NEW n \in Nat, n \in T PROVE n + 1 \in T
  <2>1. PICK f : Solves(f, n)
    BY <1>2, Zenon
  <2> DEFINE g == [x \in Low(n + 1) |-> IF x \in Ends THEN start[x] ELSE step[<<x, f[pred[x]]>>]]
  <2>2. \A x \in Low(n + 1) : x \notin Ends => pred[x] \in Low(n)
    OBVIOUS
  <2>3. \A x \in Low(n) : x \in Low(n + 1) /\ g[x] = f[x]
    BY <2>1 DEF Recurs
  <2>4. g \in [Low(n + 1) -> S]
    BY <2>1, <2>2
  <2>5. Recurs(g, Low(n + 1), Ends, start, step, pred)
    <3> SUFFICES ASSUME NEW x \in Low(n + 1)
                 PROVE  g[x] = IF x \in Ends THEN start[x] ELSE step[<<x, g[pred[x]]>>]
      BY DEF Recurs
    <3>1. CASE x \in Ends
      BY <3>1
    <3>2. CASE x \notin Ends
      <4>1. g[pred[x]] = f[pred[x]]
        BY <3>2, <2>2, <2>3, Zenon
      <4> QED BY <3>2, <4>1
    <3> QED BY <3>1, <3>2
  <2>6. Solves(g, n + 1)
    BY <2>4, <2>5
  <2> HIDE DEF Solves
  <2> QED BY <2>6
<1>3. Nat \subseteq T
  <2> HIDE DEF T
  <2> QED BY <1>1, <1>2, Induction
<1>4. ASSUME NEW j \in Nat, NEW k \in Nat, NEW f, NEW g, Solves(f, j), Solves(g, k)
      PROVE  \A x \in Low(j) \cap Low(k) : f[x] = g[x]
  <2> DEFINE U == {n \in Nat : \A x \in Low(j) \cap Low(k) : m[x] < n => f[x] = g[x]}
  <2>1. 0 \in U
    OBVIOUS
  <2>2. ASSUME NEW n \in Nat, n \in U PROVE n + 1 \in U
    <3> SUFFICES ASSUME NEW x \in Low(j) \cap Low(k), m[x] < n + 1
                 PROVE  f[x] = g[x]
      OBVIOUS
    <3>1. CASE x \in Ends
      BY <3>1, <1>4, Zenon DEF Recurs
    <3>2. CASE x \notin Ends
      <4>1. pred[x] \in Low(j) \cap Low(k) /\ m[pred[x]] < n
        BY <3>2
      <4>2. f[pred[x]] = g[pred[x]]
        BY <4>1, <2>2
      <4> QED BY <3>2, <4>2, <1>4, Zenon DEF Recurs
    <3> QED BY <3>1, <3>2
  <2>3. Nat \subseteq U
    <3> HIDE DEF U
    <3> QED BY <2>1, <2>2, Induction
  <2>4. \A x \in D : m[x] + 1 \in U
    BY <2>3
  <2> QED BY <2>4
<1> DEFINE Upto(x) == CHOOSE f : Solves(f, m[x] + 1)
           F == [x \in D |-> Upto(x)[x]]
<1>5. \A x \in D : Solves(Upto(x), m[x] + 1) /\ x \in Low(m[x] + 1) /\ m[x] + 1 \in Nat
  <2> SUFFICES ASSUME NEW x \in D PROVE Solves(Upto(x), m[x] + 1) /\ x \in Low(m[x] + 1) /\ m[x] + 1 \in Nat
    BY Zenon
  <2>1. m[x] + 1 \in Nat /\ x \in Low(m[x] + 1)
    OBVIOUS
  <2> HIDE DEF Solves, Low
  <2>2. \E f : Solves(f, m[x] + 1)
    BY <2>1, <1>3
  <2> QED BY <2>1, <2>2
<1> HIDE DEF Upto
<1>6. F \in [D -> S]
  BY <1>5, Zenon
<1>7. ASSUME NEW x \in D PROVE F[x] = IF x \in Ends THEN start[x] ELSE step[<<x, F[pred[x]]>>]
  <2>1. CASE x \in Ends
    BY <2>1, <1>5, Zenon DEF Recurs
  <2>2. CASE x \notin Ends
    <3>1. pred[x] \in D /\ m[pred[x]] < m[x] /\ m[pred[x]] \in Nat /\ m[x] \in Nat
      BY <2>2
    <3>2. pred[x] \in Low(m[x] + 1) \cap Low(m[pred[x]] + 1)
      BY <3>1
    <3>3. Upto(x)[pred[x]] = Upto(pred[x])[pred[x]]
      <4> HIDE DEF Solves, Low
      <4> QED BY <3>1, <3>2, <1>4, <1>5
    <3>4. Upto(x)[x] = step[<<x, Upto(x)[pred[x]]>>]
      BY <2>2, <1>5, Zenon DEF Recurs
    <3> QED BY <2>2, <3>1, <3>3, <3>4
  <2> QED BY <2>1, <2>2
<1> HIDE DEF F
<1> QED BY <1>6, <1>7 DEF Recurs

-----------------------------------------------------------------------------
(***************************************************************************)
(* Numerals.                                                               *)
(***************************************************************************)

\* Quotient and remainder.
LEMMA DivMod ==
  ASSUME NEW n \in Nat, NEW p \in Nat \ {0}
  PROVE  n \div p \in Nat /\ n % p \in 0..p - 1 /\ n = p * (n \div p) + (n % p)
OBVIOUS

\* There is only one quotient.
LEMMA DivUnique ==
  ASSUME NEW q \in Nat, NEW p \in Nat \ {0}, NEW r \in 0..p - 1, NEW k \in Nat, NEW s \in 0..p - 1, p * q + r = p * k + s
  PROVE  q = k
<1>1. CASE q < k
  <2>1. PICK d \in Nat : k = q + 1 + d
    <3>1. k - q - 1 \in Nat /\ k = q + 1 + (k - q - 1)
      BY <1>1
    <3> QED BY <3>1
  <2>2. p * k = p * q + p + p * d
    BY <2>1
  <2>3. p * d \in Nat /\ p * q \in Nat
    OBVIOUS
  <2> QED BY <2>2, <2>3
<1>2. CASE k < q
  <2>1. PICK d \in Nat : q = k + 1 + d
    <3>1. q - k - 1 \in Nat /\ q = k + 1 + (q - k - 1)
      BY <1>2
    <3> QED BY <3>1
  <2>2. p * q = p * k + p + p * d
    BY <2>1
  <2>3. p * d \in Nat /\ p * k \in Nat
    OBVIOUS
  <2> QED BY <2>2, <2>3
<1> QED BY <1>1, <1>2

\* Dividing twice.
LEMMA DivDiv ==
  ASSUME NEW n \in Nat, NEW p \in Nat \ {0}, NEW b \in Nat \ {0}
  PROVE  (n \div p) \div b = n \div (b * p)
<1> DEFINE q == n \div p
           r == n % p
           k == q \div b
           s == q % b
           t == p * s + r
<1>1. q \in Nat /\ r \in 0..p - 1 /\ n = p * q + r
  BY DivMod, Zenon
<1> HIDE DEF q, r
<1>2. k \in Nat /\ s \in 0..b - 1 /\ q = b * k + s
  BY <1>1, DivMod, Zenon
<1> HIDE DEF k, s
<1>3. b * p \in Nat \ {0}
  OBVIOUS
<1>4. n = (b * p) * k + t
  <2>1. p * q = p * (b * k) + p * s
    BY <1>1, <1>2
  <2>2. p * (b * k) = (b * p) * k
    BY <1>2
  <2>3. p * s \in Int /\ p * q \in Int /\ (b * p) * k \in Int
    BY <1>1, <1>2
  <2> QED BY <1>1, <2>1, <2>2, <2>3
<1>5. t \in 0..b * p - 1
  <2>1. p * s \in Nat
    BY <1>2
  <2>2. PICK e \in Nat : b = s + 1 + e
    <3>1. b - s - 1 \in Nat /\ b = s + 1 + (b - s - 1)
      BY <1>2
    <3> QED BY <3>1
  <2>3. b * p = p * s + p + p * e /\ p * e \in Nat
    BY <1>2, <2>2
  <2> QED BY <1>1, <2>1, <2>3
<1> HIDE DEF t
<1>6. n \div (b * p) \in Nat /\ n % (b * p) \in 0..b * p - 1 /\ n = (b * p) * (n \div (b * p)) + (n % (b * p))
  BY <1>3, DivMod, Zenon
<1>7. k = n \div (b * p)
  <2> DEFINE bp == b * p
             k2 == n \div bp
             s2 == n % bp
  <2>1. bp \in Nat \ {0} /\ k2 \in Nat /\ s2 \in 0..bp - 1 /\ t \in 0..bp - 1 /\ bp * k + t = bp * k2 + s2
    BY <1>3, <1>4, <1>5, <1>6
  <2> HIDE DEF bp, k2, s2
  <2>2. k = k2
    BY <1>2, <2>1, DivUnique
  <2> QED BY <2>2 DEF k2, bp
<1> QED BY <1>7 DEF k, q

\* Powers, without the recursion that defines them.
LEMMA PowerIs ==
  ASSUME NEW base \in Nat \ {0}, NEW n \in Nat
  PROVE  Power(base, n) \in Nat \ {0} /\ Power(base, 0) = 1 /\ Power(base, n + 1) = base * Power(base, n)
<1> DEFINE Eq(g) == g = [i \in Nat |-> IF i = 0 THEN 1 ELSE base * g[i - 1]]
           F == CHOOSE g : Eq(g)
           start == [i \in Nat |-> 1]
           step == [x \in Nat \X Nat |-> base * x[2]]
           pred == [i \in Nat |-> IF i = 0 THEN 0 ELSE i - 1]
           m == [i \in Nat |-> i]
<1>1. m \in [Nat -> Nat] /\ start \in [Nat -> Nat] /\ step \in [Nat \X Nat -> Nat] /\ pred \in [Nat -> Nat]
  OBVIOUS
<1>2. \A x \in Nat \ {0} : m[pred[x]] < m[x]
  OBVIOUS
<1>3. PICK f \in [Nat -> Nat] : Recurs(f, Nat, {0}, start, step, pred)
  <2> HIDE DEF m, start, step, pred
  <2> QED BY <1>1, <1>2, Recursion, Zenon
<1>4. Eq(f)
  <2>1. \A i \in Nat : f[i] = IF i = 0 THEN 1 ELSE base * f[i - 1]
    <3> SUFFICES ASSUME NEW i \in Nat PROVE f[i] = IF i = 0 THEN 1 ELSE base * f[i - 1]
      OBVIOUS
    <3>1. CASE i = 0
      BY <3>1, <1>3, Zenon DEF Recurs
    <3>2. CASE i # 0
      <4>1. i - 1 \in Nat /\ pred[i] = i - 1
        BY <3>2
      <4>2. f[i] = step[<<i, f[i - 1]>>] /\ f[i - 1] \in Nat
        <5> HIDE DEF step, pred, start
        <5> QED BY <3>2, <4>1, <1>3 DEF Recurs
      <4> QED BY <3>2, <4>2
    <3> QED BY <3>1, <3>2
  <2> QED BY <2>1
<1>5. Eq(F)
  <2> HIDE DEF Eq
  <2> QED BY <1>4
<1>6. \A i \in Nat : Power(base, i) = F[i]
  BY DEF Power
<1> HIDE DEF F
<1>7. F[0] = 1 /\ \A i \in Nat : F[i + 1] = base * F[i]
  <2>1. \A i \in Nat : F[i] = IF i = 0 THEN 1 ELSE base * F[i - 1]
    BY <1>5
  <2>2. \A i \in Nat : i + 1 \in Nat /\ i + 1 # 0 /\ (i + 1) - 1 = i
    OBVIOUS
  <2> HIDE DEF Eq
  <2> QED BY <2>1, <2>2
<1> HIDE DEF Eq
<1> DEFINE T == {i \in Nat : F[i] \in Nat \ {0}}
<1>8. Nat \subseteq T
  <2>1. 0 \in T
    BY <1>7
  <2>2. ASSUME NEW i \in Nat, i \in T PROVE i + 1 \in T
    <3>1. F[i + 1] = base * F[i] /\ F[i] \in Nat \ {0}
      BY <1>7, <2>2
    <3>2. \A a \in Nat \ {0}, b \in Nat \ {0} : a * b \in Nat \ {0}
      OBVIOUS
    <3> QED BY <3>1, <3>2
  <2> HIDE DEF T
  <2> QED BY <2>1, <2>2, Induction
<1> QED BY <1>6, <1>7, <1>8

\* v[i] is the number the first i digits stand for.
Horner(v, digits, base) ==
  /\ v \in [0..Len(digits) -> Nat] /\ v[0] = 0
  /\ \A i \in 1..Len(digits) : v[i] = v[i - 1] * base + digits[i]

\* The values of the beginnings of a numeral.
LEMMA HornerExists ==
  ASSUME NEW base \in Nat, NEW digits \in Seq(Nat)
  PROVE  \E v : Horner(v, digits, base)
<1> DEFINE D == 0..Len(digits)
           start == [i \in D |-> 0]
           step == [x \in D \X Nat |-> IF x[1] = 0 THEN 0 ELSE x[2] * base + digits[x[1]]]
           pred == [i \in D |-> IF i = 0 THEN 0 ELSE i - 1]
           m == [i \in D |-> i]
<1>1. Len(digits) \in Nat /\ \A i \in 1..Len(digits) : digits[i] \in Nat
  OBVIOUS
<1>2. m \in [D -> Nat] /\ start \in [D -> Nat] /\ step \in [D \X Nat -> Nat] /\ pred \in [D -> D]
  BY <1>1
<1>3. \A x \in D \ {0} : m[pred[x]] < m[x]
  BY <1>1
<1>4. PICK f \in [D -> Nat] : Recurs(f, D, {0}, start, step, pred)
  <2> HIDE DEF m, start, step, pred, D
  <2> QED BY <1>2, <1>3, Recursion, Zenon
<1>5. f[0] = 0
  <2>1. 0 \in D /\ start[0] = 0
    BY <1>1
  <2> HIDE DEF step, pred, start, D
  <2> QED BY <2>1, <1>4, Zenon DEF Recurs
<1>6. ASSUME NEW i \in 1..Len(digits) PROVE f[i] = f[i - 1] * base + digits[i]
  <2>1. i \in D /\ i # 0 /\ i - 1 \in D /\ pred[i] = i - 1
    BY <1>1
  <2>2. f[i] = step[<<i, f[i - 1]>>] /\ f[i - 1] \in Nat
    <3> HIDE DEF step, pred, start, D
    <3> QED BY <2>1, <1>4 DEF Recurs
  <2> QED BY <2>1, <2>2
<1> QED BY <1>4, <1>5, <1>6, Zenon DEF Horner

\* Whichever way it is found, there is only one such number.
LEMMA ValueIs ==
  ASSUME NEW base \in Nat, NEW digits \in Seq(Nat), NEW w, Horner(w, digits, base)
  PROVE  Value(digits, base) = w[Len(digits)]
<1> DEFINE Eq(g) == g = [i \in 0..Len(digits) |-> IF i = 0 THEN 0 ELSE g[i - 1] * base + digits[i]]
           F == CHOOSE g : Eq(g)
<1>1. Eq(w)
  <2>1. \A i \in 0..Len(digits) : w[i] = IF i = 0 THEN 0 ELSE w[i - 1] * base + digits[i]
    BY DEF Horner
  <2> QED BY <2>1 DEF Horner
<1>2. Eq(F)
  <2> HIDE DEF Eq
  <2> QED BY <1>1
<1>3. Value(digits, base) = F[Len(digits)]
  BY DEF Value
<1> HIDE DEF F
<1>4. F[0] = 0 /\ \A i \in 1..Len(digits) : F[i] = F[i - 1] * base + digits[i]
  <2>1. \A i \in 0..Len(digits) : F[i] = IF i = 0 THEN 0 ELSE F[i - 1] * base + digits[i]
    BY <1>2, Zenon
  <2>2. 0 \in 0..Len(digits) /\ \A i \in 1..Len(digits) : i \in 0..Len(digits) /\ i # 0
    OBVIOUS
  <2> HIDE DEF Eq
  <2> QED BY <2>1, <2>2
<1> DEFINE T == {n \in Nat : n <= Len(digits) => F[n] = w[n]}
<1>5. 0 \in T
  BY <1>4 DEF Horner
<1>6. ASSUME NEW n \in Nat, n \in T PROVE n + 1 \in T
  <2> SUFFICES ASSUME n + 1 <= Len(digits) PROVE F[n + 1] = w[n + 1]
    OBVIOUS
  <2>1. n + 1 \in 1..Len(digits) /\ (n + 1) - 1 = n /\ F[n] = w[n]
    BY <1>6
  <2> HIDE DEF Eq
  <2>2. F[n + 1] = F[(n + 1) - 1] * base + digits[n + 1] /\ w[n + 1] = w[(n + 1) - 1] * base + digits[n + 1]
    BY <2>1, <1>4 DEF Horner
  <2> QED BY <2>1, <2>2
<1>7. Nat \subseteq T
  <2> HIDE DEF T
  <2> QED BY <1>5, <1>6, Induction
<1>8. Len(digits) \in T
  <2> HIDE DEF T
  <2> QED BY <1>7
<1> QED BY <1>3, <1>8

\* A numeral stands for a natural.
LEMMA ValueNat ==
  ASSUME NEW base \in Nat, NEW digits \in Seq(Nat)
  PROVE  Value(digits, base) \in Nat
<1>1. PICK v : Horner(v, digits, base)
  BY HornerExists
<1>2. v[Len(digits)] \in Nat
  BY <1>1 DEF Horner
<1> QED BY <1>1, <1>2, ValueIs

\* A number that fits comes back from its digits.
LEMMA NumeralValue ==
  ASSUME NEW base \in Nat \ {0}, NEW n \in Nat, NEW count \in Nat, n < Power(base, count)
  PROVE  /\ Numeral(n, base, count) \in Seq(0..base - 1) /\ Len(Numeral(n, base, count)) = count
         /\ Value(Numeral(n, base, count), base) = n
<1> DEFINE digits == Numeral(n, base, count)
           w == [i \in 0..count |-> n \div Power(base, count - i)]
<1>1. \A i \in 0..count : Power(base, count - i) \in Nat \ {0}
  <2>1. \A i \in 0..count : count - i \in Nat
    OBVIOUS
  <2> QED BY <2>1, PowerIs, Zenon
<1>2. \A i \in 0..count : w[i] \in Nat
  BY <1>1, DivMod, Zenon
<1>3. \A i \in 1..count : digits[i] = w[i] % base /\ digits[i] \in 0..base - 1
  <2> SUFFICES ASSUME NEW i \in 1..count PROVE digits[i] = w[i] % base /\ digits[i] \in 0..base - 1
    BY Zenon
  <2>1. digits[i] = w[i] % base
    BY DEF Numeral
  <2>2. w[i] \in Nat
    BY <1>2
  <2> HIDE DEF digits, w
  <2> QED BY <2>1, <2>2, DivMod
<1>4. digits \in Seq(0..base - 1) /\ Len(digits) = count /\ digits \in Seq(Nat)
  <2>1. digits = [i \in 1..count |-> digits[i]]
    BY DEF Numeral
  <2> HIDE DEF digits, w
  <2> QED BY <2>1, <1>3
<1>5. w[0] = 0
  <2>1. w[0] = n \div Power(base, count)
    OBVIOUS
  <2>2. Power(base, count) \in Nat \ {0}
    BY PowerIs
  <2>3. \A p \in Nat \ {0} : n < p => n \div p = 0
    OBVIOUS
  <2> QED BY <2>1, <2>2, <2>3
<1>6. ASSUME NEW i \in 1..count PROVE w[i] = w[i - 1] * base + digits[i]
  <2> DEFINE p == Power(base, count - i)
  <2>1. p \in Nat \ {0}
    BY <1>1
  <2>2. Power(base, count - (i - 1)) = base * p
    <3>1. count - i \in Nat /\ count - (i - 1) = (count - i) + 1
      OBVIOUS
    <3> QED BY <3>1, PowerIs
  <2>3. w[i] = n \div p /\ w[i - 1] = n \div (base * p)
    BY <2>2
  <2> HIDE DEF p, w, digits
  <2>4. w[i - 1] = w[i] \div base
    <3>1. (n \div p) \div base = n \div (base * p)
      BY <2>1, DivDiv
    <3> QED BY <2>3, <3>1
  <2>5. w[i] \in Nat /\ w[i] = base * (w[i] \div base) + (w[i] % base) /\ w[i] \div base \in Nat
    <3>1. i \in 0..count
      OBVIOUS
    <3>2. w[i] \in Nat
      BY <3>1, <1>2
    <3> QED BY <3>2, DivMod, Zenon
  <2>6. base * (w[i] \div base) = (w[i] \div base) * base
    BY <2>5
  <2> QED BY <1>3, <2>4, <2>5, <2>6
<1>7. Horner(w, digits, base)
  <2>1. w \in [0..count -> Nat]
    BY <1>2
  <2> HIDE DEF w, digits
  <2> QED BY <2>1, <1>4, <1>5, <1>6 DEF Horner
<1>8. w[count] = n
  <2>1. Power(base, count - count) = 1
    BY PowerIs
  <2> QED BY <2>1
<1> HIDE DEF w, digits
<1>9. Value(digits, base) = n
  BY <1>4, <1>7, <1>8, ValueIs
<1> QED BY <1>4, <1>9 DEF digits

\* Digits come back from the number they stand for.
LEMMA NumeralOfValue ==
  ASSUME NEW base \in Nat \ {0}, NEW digits \in Seq(0..base - 1)
  PROVE  Numeral(Value(digits, base), base, Len(digits)) = digits
<1> DEFINE k == Len(digits)
           n == Value(digits, base)
<1>1. digits \in Seq(Nat) /\ k \in Nat /\ \A i \in 1..k : digits[i] \in 0..base - 1
  OBVIOUS
<1>2. PICK v : Horner(v, digits, base)
  BY <1>1, HornerExists
<1>3. v \in [0..k -> Nat] /\ \A i \in 1..k : v[i] = v[i - 1] * base + digits[i]
  BY <1>2 DEF Horner
<1>4. n = v[k] /\ n \in Nat
  BY <1>1, <1>2, ValueIs, ValueNat
<1> HIDE DEF n
<1>5. ASSUME NEW i \in 1..k
      PROVE  v[i] \div base = v[i - 1] /\ v[i] % base = digits[i]
  <2> DEFINE q == v[i - 1]
             r == digits[i]
             x == v[i]
  <2>1. q \in Nat /\ r \in 0..base - 1 /\ x \in Nat /\ x = q * base + r
    <3>1. i \in 0..k /\ i - 1 \in 0..k
      BY <1>1
    <3> QED BY <1>1, <1>3, <3>1, Zenon
  <2> HIDE DEF q, r, x
  <2>2. x \div base \in Nat /\ x % base \in 0..base - 1 /\ x = base * (x \div base) + (x % base) /\ q * base = base * q
    <3>1. q * base = base * q
      BY <2>1
    <3> QED BY <2>1, <3>1, DivMod, Zenon
  <2>3. q = x \div base
    BY <2>1, <2>2, DivUnique
  <2>4. r = x % base
    BY <2>1, <2>2, <2>3, SMTT(30)
  <2> QED BY <2>3, <2>4 DEF q, r, x
<1> DEFINE T == {j \in Nat : j <= k => v[k - j] = n \div Power(base, j)}
<1>6. 0 \in T
  <2>1. Power(base, 0) = 1 /\ k - 0 = k /\ n \div 1 = n
    <3>1. Power(base, 0) = 1
      BY PowerIs
    <3> QED BY <1>1, <1>4, <3>1
  <2> QED BY <1>4, <2>1
<1>7. ASSUME NEW j \in Nat, j \in T PROVE j + 1 \in T
  <2> SUFFICES ASSUME j + 1 <= k PROVE v[k - (j + 1)] = n \div Power(base, j + 1)
    OBVIOUS
  <2> DEFINE p == Power(base, j)
  <2>1. k - j \in 1..k /\ (k - j) - 1 = k - (j + 1) /\ v[k - j] = n \div p
    BY <1>1, <1>7
  <2>2. p \in Nat \ {0} /\ Power(base, j + 1) = base * p
    BY PowerIs, Zenon
  <2> HIDE DEF p
  <2>3. v[k - (j + 1)] = (n \div p) \div base
    BY <1>5, <2>1
  <2>4. (n \div p) \div base = n \div (base * p)
    BY <1>4, <2>2, DivDiv
  <2> QED BY <2>2, <2>3, <2>4
<1>8. Nat \subseteq T
  <2> HIDE DEF T
  <2> QED BY <1>6, <1>7, Induction
<1>9. ASSUME NEW i \in 1..k PROVE (n \div Power(base, k - i)) % base = digits[i]
  <2>1. k - i \in T /\ k - i <= k /\ k - (k - i) = i
    BY <1>1, <1>8
  <2>2. v[i] = n \div Power(base, k - i)
    BY <2>1
  <2> QED BY <1>5, <2>2
<1>10. Numeral(n, base, k) = [i \in 1..k |-> digits[i]]
  BY <1>9 DEF Numeral
<1>11. digits = [i \in 1..k |-> digits[i]]
  OBVIOUS
<1> QED BY <1>10, <1>11 DEF n

\* Digits stand for a number that fits.
LEMMA ValueFits ==
  ASSUME NEW base \in Nat \ {0}, NEW digits \in Seq(0..base - 1)
  PROVE  Value(digits, base) \in Nat /\ Value(digits, base) < Power(base, Len(digits))
<1>1. digits \in Seq(Nat) /\ Len(digits) \in Nat /\ \A i \in 1..Len(digits) : digits[i] \in 0..base - 1
  OBVIOUS
<1>2. PICK v : Horner(v, digits, base)
  BY <1>1, HornerExists
<1> DEFINE T == {n \in Nat : n <= Len(digits) => v[n] < Power(base, n)}
<1>3. 0 \in T
  BY <1>2, PowerIs DEF Horner
<1>4. ASSUME NEW n \in Nat, n \in T PROVE n + 1 \in T
  <2> SUFFICES ASSUME n + 1 <= Len(digits) PROVE v[n + 1] < Power(base, n + 1)
    OBVIOUS
  <2> DEFINE p == Power(base, n)
             a == v[n]
             d == digits[n + 1]
  <2>1. n + 1 \in 1..Len(digits) /\ (n + 1) - 1 = n /\ n \in 0..Len(digits) /\ a < p
    BY <1>1, <1>4
  <2>2. p \in Nat \ {0} /\ Power(base, n + 1) = base * p
    BY PowerIs, Zenon
  <2>3. v[n + 1] = v[(n + 1) - 1] * base + digits[n + 1] /\ a \in Nat /\ d \in 0..base - 1
    BY <1>1, <1>2, <2>1, Zenon DEF Horner
  <2>4. v[n + 1] = a * base + d
    BY <2>1, <2>3
  <2> HIDE DEF p, a, d
  <2>5. a * base + d < base * p
    <3>1. PICK e \in Nat : p = a + 1 + e
      <4>1. p - a - 1 \in Nat /\ p = a + 1 + (p - a - 1)
        BY <2>1, <2>2, <2>3
      <4> QED BY <4>1
    <3>2. base * p = a * base + base + base * e /\ base * e \in Nat /\ a * base \in Nat
      BY <2>3, <3>1
    <3>3. \A x, y \in Nat : x + d < x + base + y
      BY <2>3
    <3> QED BY <3>2, <3>3, Zenon
  <2> QED BY <2>2, <2>4, <2>5
<1>5. Nat \subseteq T
  <2> HIDE DEF T
  <2> QED BY <1>3, <1>4, Induction
<1>6. v[Len(digits)] < Power(base, Len(digits))
  BY <1>1, <1>5
<1> QED BY <1>1, <1>2, <1>6, ValueIs, ValueNat

\* A digit more.
LEMMA ValueAppend ==
  ASSUME NEW base \in Nat, NEW digits \in Seq(Nat), NEW d \in Nat
  PROVE  Value(Append(digits, d), base) = Value(digits, base) * base + d
<1> DEFINE more == Append(digits, d)
           k == Len(digits)
<1>1. more \in Seq(Nat) /\ k \in Nat /\ Len(more) = k + 1 /\ more[k + 1] = d /\ \A i \in 1..k : more[i] = digits[i]
  OBVIOUS
<1>2. PICK v : Horner(v, more, base)
  BY <1>1, HornerExists, Zenon
<1> HIDE DEF more
<1> DEFINE w == [i \in 0..k |-> v[i]]
<1>3. v \in [0..k + 1 -> Nat] /\ v[0] = 0 /\ \A i \in 1..k + 1 : v[i] = v[i - 1] * base + more[i]
  BY <1>1, <1>2 DEF Horner
<1>4. Horner(w, digits, base)
  <2>1. w \in [0..k -> Nat] /\ w[0] = 0
    BY <1>1, <1>3
  <2>2. \A i \in 1..k : w[i] = w[i - 1] * base + digits[i]
    BY <1>1, <1>3
  <2> HIDE DEF w
  <2> QED BY <2>1, <2>2 DEF Horner
<1>5. Value(digits, base) = v[k]
  <2>1. w[k] = v[k]
    BY <1>1
  <2> HIDE DEF w
  <2> QED BY <1>4, <2>1, ValueIs
<1>6. Value(more, base) = v[k + 1]
  BY <1>1, <1>2, ValueIs
<1>7. v[k + 1] = v[(k + 1) - 1] * base + more[k + 1]
  <2>1. k + 1 \in 1..k + 1
    BY <1>1
  <2> QED BY <1>3, <2>1, Zenon
<1> QED BY <1>1, <1>5, <1>6, <1>7 DEF more

\* Zeros in front change nothing.
LEMMA ValueZeros ==
  ASSUME NEW base \in Nat, NEW digits \in Seq(Nat), NEW k \in Int
  PROVE  /\ [i \in 1..k |-> 0] \o digits \in Seq(Nat)
         /\ Value([i \in 1..k |-> 0] \o digits, base) = Value(digits, base)
<1>1. PICK z \in Nat : 1..k = 1..z
  <2>1. CASE k \in Nat
    BY <2>1
  <2>2. CASE k \notin Nat
    <3>1. 1..k = 1..0
      BY <2>2
    <3> QED BY <3>1
  <2> QED BY <2>1, <2>2
<1> DEFINE zeros == [i \in 1..z |-> 0]
           more == zeros \o digits
           n == Len(digits)
<1>2. zeros \in Seq(Nat) /\ Len(zeros) = z /\ \A i \in 1..z : zeros[i] = 0
  OBVIOUS
<1> HIDE DEF zeros
<1>3. /\ more \in Seq(Nat) /\ Len(more) = z + n /\ n \in Nat
      /\ \A i \in 1..z : more[i] = 0
      /\ \A j \in 1..n : more[z + j] = digits[j]
  <2>1. more \in Seq(Nat) /\ Len(more) = z + n /\ n \in Nat
    <3>1. zeros \in Seq(Nat) /\ digits \in Seq(Nat) /\ Len(zeros) = z
      BY <1>2
    <3>2. more \in Seq(Nat) /\ Len(more) = Len(zeros) + Len(digits)
      BY <3>1, ConcatProperties, Zenon
    <3> QED BY <3>1, <3>2
  <2>2. \A i \in 1..z : more[i] = 0
    BY <1>2
  <2>3. \A j \in 1..n : more[z + j] = digits[j]
    BY <1>2
  <2> QED BY <2>1, <2>2, <2>3, Zenon
<1>4. PICK v : Horner(v, more, base)
  BY <1>3, HornerExists, Zenon
<1> HIDE DEF more
<1>5. v \in [0..z + n -> Nat] /\ v[0] = 0 /\ \A i \in 1..z + n : v[i] = v[i - 1] * base + more[i]
  BY <1>3, <1>4 DEF Horner
<1> DEFINE T == {i \in Nat : i <= z => v[i] = 0}
<1>6. Nat \subseteq T
  <2>1. 0 \in T
    BY <1>5
  <2>2. ASSUME NEW i \in Nat, i \in T PROVE i + 1 \in T
    <3> SUFFICES ASSUME i + 1 <= z PROVE v[i + 1] = 0
      OBVIOUS
    <3>1. i + 1 \in 1..z + n /\ (i + 1) - 1 = i /\ i + 1 \in 1..z /\ v[i] = 0
      BY <2>2, <1>3
    <3>2. v[i + 1] = v[(i + 1) - 1] * base + more[i + 1] /\ more[i + 1] = 0
      BY <3>1, <1>3, <1>5
    <3> QED BY <3>1, <3>2
  <2> HIDE DEF T
  <2> QED BY <2>1, <2>2, Induction, Zenon
<1>7. v[z] = 0
  BY <1>6
<1> DEFINE w == [j \in 0..n |-> v[z + j]]
<1>8. Horner(w, digits, base)
  <2>1. w \in [0..n -> Nat] /\ w[0] = 0
    BY <1>3, <1>5, <1>7
  <2>2. ASSUME NEW j \in 1..n PROVE w[j] = w[j - 1] * base + digits[j]
    <3>1. z + j \in 1..z + n /\ (z + j) - 1 = z + (j - 1) /\ j \in 0..n /\ j - 1 \in 0..n
      BY <1>3
    <3>2. v[z + j] = v[(z + j) - 1] * base + more[z + j]
      BY <3>1, <1>5
    <3> QED BY <3>1, <3>2, <1>3
  <2> HIDE DEF w
  <2> QED BY <2>1, <2>2 DEF Horner
<1>9. w[n] = v[z + n]
  BY <1>3
<1> HIDE DEF w
<1>10. Value(more, base) = Value(digits, base)
  <2>1. Value(more, base) = v[Len(more)]
    BY <1>3, <1>4, ValueIs
  <2>2. Value(digits, base) = w[Len(digits)]
    BY <1>8, ValueIs
  <2> QED BY <1>3, <1>9, <2>1, <2>2
<1> QED BY <1>1, <1>3, <1>10, Zenon DEF more, zeros

\* Every number is below some power.
LEMMA PowerAbove ==
  ASSUME NEW base \in Nat \ {0, 1}
  PROVE  \A n \in Nat : n < Power(base, n)
<1> DEFINE T == {n \in Nat : n < Power(base, n)}
<1>1. 0 \in T
  BY PowerIs
<1>2. ASSUME NEW n \in Nat, n \in T PROVE n + 1 \in T
  <2> DEFINE p == Power(base, n)
  <2>1. p \in Nat /\ n < p /\ Power(base, n + 1) = base * p
    BY <1>2, PowerIs
  <2> HIDE DEF p
  <2>2. PICK e \in Nat : base = 2 + e
    <3>1. base - 2 \in Nat /\ base = 2 + (base - 2)
      OBVIOUS
    <3> QED BY <3>1
  <2>3. base * p = p + p + e * p /\ e * p \in Nat
    BY <2>1, <2>2
  <2> QED BY <2>1, <2>3
<1>3. Nat \subseteq T
  <2> HIDE DEF T
  <2> QED BY <1>1, <1>2, Induction
<1> QED BY <1>3

\* A number fits in the digits it is given.
LEMMA DigitCountFits ==
  ASSUME NEW base \in Nat \ {0, 1}, NEW n \in Nat
  PROVE  DigitCount(n, base) \in Nat /\ n < Power(base, DigitCount(n, base))
<1> DEFINE P(count) == n < Power(base, count) /\ \A fewer \in 0..count - 1 : Power(base, fewer) <= n
<1>1. \E count \in 0..n : P(count)
  <2> SUFFICES ASSUME \A count \in 0..n : ~P(count)
               PROVE  FALSE
    OBVIOUS
  <2> DEFINE T == {c \in Nat : c <= n => Power(base, c) <= n}
  <2>1. ASSUME NEW c \in Nat, \A k \in 0..c - 1 : k \in T
        PROVE  c \in T
    <3> SUFFICES ASSUME c <= n, ~ (Power(base, c) <= n) PROVE FALSE
      OBVIOUS
    <3>1. Power(base, c) \in Nat
      BY PowerIs
    <3>2. \A fewer \in 0..c - 1 : Power(base, fewer) <= n
      BY <2>1
    <3>3. c \in 0..n /\ n < Power(base, c)
      BY <3>1
    <3> QED BY <3>2, <3>3
  <2>2. n \in T
    <3> HIDE DEF T
    <3> QED BY <2>1, StrongInduction
  <2>3. n < Power(base, n) /\ Power(base, n) \in Nat
    BY PowerAbove, PowerIs
  <2> QED BY <2>2, <2>3
<1>2. DigitCount(n, base) \in 0..n /\ P(DigitCount(n, base))
  BY <1>1, Zenon DEF DigitCount
<1> QED BY <1>2

\* No digits stand for 0.
LEMMA ValueEmpty ==
  ASSUME NEW base \in Nat
  PROVE  Value(<<>>, base) = 0
<1> DEFINE w == [i \in 0..0 |-> 0]
<1>1. Horner(w, <<>>, base) /\ w[0] = 0
  BY DEF Horner
<1>2. <<>> \in Seq(Nat) /\ Len(<<>>) = 0
  OBVIOUS
<1> HIDE DEF w
<1>3. Value(<<>>, base) = w[Len(<<>>)]
  BY <1>1, <1>2, ValueIs, Zenon
<1> QED BY <1>1, <1>2, <1>3

-----------------------------------------------------------------------------
(***************************************************************************)
(* Keys as text.                                                           *)
(***************************************************************************)

\* The loop of encodeToBase58(), without the recursion that defines it.
LEMMA EncodeLoopIs ==
  \A n \in Nat :
    EncodeLoop[n] = IF n >= AlphabetLength THEN Append(EncodeLoop[n \div AlphabetLength], n % AlphabetLength)
                    ELSE IF n > 0 THEN <<n>> ELSE <<>>
<1> DEFINE A == AlphabetLength
           Eq(g) == g = [n \in Nat |-> IF n >= A THEN Append(g[n \div A], n % A) ELSE IF n > 0 THEN <<n>> ELSE <<>>]
           start == [n \in Nat |-> IF n > 0 THEN <<n>> ELSE <<>>]
           step == [x \in Nat \X Seq(Nat) |-> Append(x[2], x[1] % A)]
           pred == [n \in Nat |-> n \div A]
           m == [n \in Nat |-> n]
           Ends == {n \in Nat : n < A}
<1>1. A \in Nat \ {0, 1}
  BY KeyTextAssumption
<1>2. \A n \in Nat : n \div A \in Nat /\ n % A \in Nat
  <2> HIDE DEF A
  <2> QED BY <1>1, DivMod
<1>3. EncodeLoop = CHOOSE g : Eq(g)
  BY DEF EncodeLoop
<1> HIDE DEF A
<1>4. m \in [Nat -> Nat] /\ start \in [Nat -> Seq(Nat)] /\ step \in [Nat \X Seq(Nat) -> Seq(Nat)] /\ pred \in [Nat -> Nat]
  <2>1. start \in [Nat -> Seq(Nat)]
    OBVIOUS
  <2>2. step \in [Nat \X Seq(Nat) -> Seq(Nat)]
    <3>1. \A s \in Seq(Nat), k \in Nat : Append(s, k) \in Seq(Nat)
      OBVIOUS
    <3>2. \A x \in Nat \X Seq(Nat) : x[2] \in Seq(Nat) /\ x[1] % A \in Nat
      BY <1>2
    <3>3. \A x \in Nat \X Seq(Nat) : Append(x[2], x[1] % A) \in Seq(Nat)
      BY <3>1, <3>2
    <3> QED BY <3>3
  <2> QED BY <1>2, <2>1, <2>2
<1>5. \A x \in Nat \ Ends : m[pred[x]] < m[x]
  <2> SUFFICES ASSUME NEW x \in Nat, x >= A PROVE x \div A < x
    BY <1>1, <1>2
  <2> DEFINE q == x \div A
             r == x % A
  <2>1. q \in Nat /\ r \in Nat /\ x = A * q + r
    BY <1>1, <1>2, DivMod
  <2> HIDE DEF q, r
  <2>2. PICK e \in Nat : A = 2 + e
    <3>1. A - 2 \in Nat /\ A = 2 + (A - 2)
      BY <1>1
    <3> QED BY <3>1
  <2>3. A * q = q + q + e * q /\ e * q \in Nat
    BY <2>1, <2>2
  <2>4. q < x
    <3>1. CASE q = 0
      BY <3>1, <1>1
    <3>2. CASE q # 0
      BY <3>2, <2>1, <2>3
    <3> QED BY <3>1, <3>2
  <2> QED BY <2>4 DEF q
<1>6. PICK f \in [Nat -> Seq(Nat)] : Recurs(f, Nat, Ends, start, step, pred)
  <2> HIDE DEF m, start, step, pred, Ends
  <2> QED BY <1>4, <1>5, Recursion, Zenon
<1>7. Eq(f)
  <2>1. ASSUME NEW n \in Nat
        PROVE  f[n] = IF n >= A THEN Append(f[n \div A], n % A) ELSE IF n > 0 THEN <<n>> ELSE <<>>
    <3>1. f[n] = IF n \in Ends THEN start[n] ELSE step[<<n, f[pred[n]]>>]
      BY <1>6, Zenon DEF Recurs
    <3>2. n \in Ends <=> ~(n >= A)
      BY <1>1
    <3>3. start[n] = IF n > 0 THEN <<n>> ELSE <<>>
      OBVIOUS
    <3>4. step[<<n, f[pred[n]]>>] = Append(f[n \div A], n % A)
      BY <1>2, Zenon
    <3> HIDE DEF start, step, pred, Ends
    <3> QED BY <3>1, <3>2, <3>3, <3>4
  <2> QED BY <2>1
<1>8. Eq(EncodeLoop)
  <2> HIDE DEF Eq
  <2> QED BY <1>3, <1>7
<1> QED BY <1>8, Zenon DEF A

\* The text of a number has characters of the alphabet, and stands for it.
LEMMA EncodeLoopValue ==
  ASSUME NEW n \in Nat
  PROVE  EncodeLoop[n] \in Seq(0..AlphabetLength - 1) /\ Value(EncodeLoop[n], AlphabetLength) = n
<1> DEFINE A == AlphabetLength
           T == {k \in Nat : EncodeLoop[k] \in Seq(0..A - 1) /\ Value(EncodeLoop[k], A) = k}
<1>1. A \in Nat \ {0, 1}
  BY KeyTextAssumption
<1>2. \A k \in Nat : EncodeLoop[k] = IF k >= A THEN Append(EncodeLoop[k \div A], k % A)
                                     ELSE IF k > 0 THEN <<k>> ELSE <<>>
  BY EncodeLoopIs, Zenon
<1> HIDE DEF A
<1>3. ASSUME NEW k \in Nat, \A j \in 0..k - 1 : j \in T
      PROVE  k \in T
  <2>1. CASE k >= A
    <3> DEFINE q == k \div A
               r == k % A
               text == EncodeLoop[q]
    <3>1. q \in Nat /\ r \in 0..A - 1 /\ k = A * q + r
      BY <1>1, DivMod, Zenon
    <3>2. EncodeLoop[k] = Append(text, r)
      BY <1>2, <2>1, Zenon
    <3> HIDE DEF q, r
    <3>3. q \in 0..k - 1
      <4>1. PICK e \in Nat : A = 2 + e
        <5>1. A - 2 \in Nat /\ A = 2 + (A - 2)
          BY <1>1
        <5> QED BY <5>1
      <4>2. A * q = q + q + e * q /\ e * q \in Nat
        BY <3>1, <4>1
      <4>3. r \in Nat
        BY <3>1
      <4> QED BY <3>1, <4>2, <4>3, <2>1, <1>1
    <3>4. text \in Seq(0..A - 1) /\ Value(text, A) = q
      BY <1>3, <3>3
    <3> HIDE DEF text
    <3>5. text \in Seq(Nat) /\ r \in Nat /\ A \in Nat
      BY <1>1, <3>1, <3>4
    <3>6. Value(Append(text, r), A) = q * A + r
      BY <3>4, <3>5, ValueAppend
    <3>7. Append(text, r) \in Seq(0..A - 1) /\ q * A = A * q
      BY <1>1, <3>1, <3>4
    <3> QED BY <3>1, <3>2, <3>6, <3>7, Zenon
  <2>2. CASE k < A /\ k > 0
    <3>1. EncodeLoop[k] = <<k>>
      <4>1. ~(k >= A)
        BY <1>1, <2>2
      <4> QED BY <1>2, <2>2, <4>1, Zenon
    <3>2. <<k>> = Append(<<>>, k) /\ <<>> \in Seq(Nat) /\ A \in Nat
      BY <1>1
    <3>3. Value(Append(<<>>, k), A) = Value(<<>>, A) * A + k /\ Value(<<>>, A) = 0
      BY <3>2, ValueAppend, ValueEmpty, Zenon
    <3>4. Value(EncodeLoop[k], A) = k
      BY <3>1, <3>2, <3>3
    <3>5. <<k>> \in Seq(0..A - 1)
      BY <1>1, <2>2
    <3> QED BY <3>1, <3>4, <3>5, Zenon
  <2>3. CASE k = 0
    <3>1. EncodeLoop[k] = <<>>
      <4>1. ~(k >= A) /\ ~(k > 0)
        BY <1>1, <2>3
      <4> QED BY <1>2, <4>1, Zenon
    <3>2. Value(EncodeLoop[k], A) = k
      BY <3>1, <2>3, <1>1, ValueEmpty
    <3>3. <<>> \in Seq(0..A - 1)
      OBVIOUS
    <3> QED BY <3>1, <3>2, <3>3, Zenon
  <2> QED BY <1>1, <2>1, <2>2, <2>3
<1>4. n \in T
  <2> HIDE DEF T
  <2> QED BY <1>3, StrongInduction
<1> QED BY <1>4 DEF A

\* From the last character to the first, the loop finds the number the text stands for.
LEMMA DecodeLoopValue ==
  ASSUME NEW text \in Seq(Nat)
  PROVE  DecodeLoop(text) = Value(text, AlphabetLength)
<1> DEFINE A == AlphabetLength
           k == Len(text)
           D == 0..k
           S == [big_data : Nat, multi : Nat]
           Body(n, s) == [big_data |-> s.big_data + s.multi * text[k - n + 1], multi |-> s.multi * A]
           first == [big_data |-> 0, multi |-> 1]
           Eq(g) == g = [n \in D |-> IF n = 0 THEN first ELSE Body(n, g[n - 1])]
           L == CHOOSE g : Eq(g)
           start == [n \in D |-> first]
           step == [x \in D \X S |-> IF x[1] = 0 THEN first ELSE Body(x[1], x[2])]
           pred == [n \in D |-> IF n = 0 THEN 0 ELSE n - 1]
           m == [n \in D |-> n]
<1>1. DecodeLoop(text) = L[k].big_data
  BY DEF DecodeLoop
<1>2. A \in Nat /\ k \in Nat /\ (\A i \in 1..k : text[i] \in Nat)
  BY KeyTextAssumption
<1>3. first \in S
  OBVIOUS
<1>4. \A n \in D \ {0}, s \in S : Body(n, s) \in S
  <2> SUFFICES ASSUME NEW n \in D \ {0}, NEW s \in S PROVE Body(n, s) \in S
    OBVIOUS
  <2>1. text[k - n + 1] \in Nat /\ s.big_data \in Nat /\ s.multi \in Nat
    BY <1>2
  <2>2. \A a, b \in Nat : a * b \in Nat /\ a + b \in Nat
    OBVIOUS
  <2>3. s.big_data + s.multi * text[k - n + 1] \in Nat /\ s.multi * A \in Nat
    BY <1>2, <2>1, <2>2, Zenon
  <2> QED BY <2>3
<1>5. Eq(L)
  <2>1. m \in [D -> Nat] /\ start \in [D -> S] /\ pred \in [D -> D]
    BY <1>2, <1>3
  <2>2. step \in [D \X S -> S]
    <3> HIDE DEF Body, first, S, D
    <3> QED BY <1>3, <1>4
  <2>3. \A x \in D \ {0} : m[pred[x]] < m[x]
    BY <1>2
  <2>4. PICK f \in [D -> S] : Recurs(f, D, {0}, start, step, pred)
    <3> HIDE DEF m, start, step, pred, D, S
    <3> QED BY <2>1, <2>2, <2>3, Recursion, Zenon
  <2>5. ASSUME NEW n \in D PROVE f[n] = IF n = 0 THEN first ELSE Body(n, f[n - 1])
    <3>1. f[n] = IF n \in {0} THEN start[n] ELSE step[<<n, f[pred[n]]>>]
      <4> HIDE DEF step, pred, start, D
      <4> QED BY <2>4 DEF Recurs
    <3>2. pred[n] \in D /\ start[n] = first /\ (n # 0 => pred[n] = n - 1)
      BY <1>2
    <3>3. n # 0 => step[<<n, f[pred[n]]>>] = Body(n, f[pred[n]])
      <4> HIDE DEF Body, first, S, D, pred
      <4> QED BY <2>4, <3>2
    <3> HIDE DEF Body, first, S, D, pred, step, start
    <3> QED BY <3>1, <3>2, <3>3
  <2>6. Eq(f)
    <3> HIDE DEF Body, first, S, D
    <3> QED BY <2>4, <2>5
  <2> HIDE DEF Eq
  <2> QED BY <2>6
<1> HIDE DEF L
<1>6. L[0] = first /\ \A n \in 1..k : L[n] = Body(n, L[n - 1])
  <2>1. 0 \in D /\ \A n \in 1..k : n \in D /\ n # 0
    BY <1>2
  <2> HIDE DEF Body, first, S, D
  <2> QED BY <1>5, <2>1
<1> HIDE DEF Eq
<1>7. PICK v : Horner(v, text, A)
  BY <1>2, HornerExists
<1>8. v \in [0..k -> Nat] /\ v[0] = 0 /\ \A i \in 1..k : v[i] = v[i - 1] * A + text[i]
  BY <1>7 DEF Horner
<1>9. Value(text, A) = v[k]
  BY <1>2, <1>7, ValueIs
<1> HIDE DEF A
<1> DEFINE T == {n \in Nat : n <= k => L[n] \in S /\ v[k] = v[k - n] * L[n].multi + L[n].big_data}
<1>10. 0 \in T
  <2>1. L[0].multi = 1 /\ L[0].big_data = 0 /\ L[0] \in S
    BY <1>3, <1>6
  <2>2. k - 0 = k /\ v[k] \in Nat
    BY <1>2, <1>8
  <2> QED BY <2>1, <2>2
<1>11. ASSUME NEW n \in Nat, n \in T PROVE n + 1 \in T
  <2> SUFFICES ASSUME n + 1 <= k
               PROVE  L[n + 1] \in S /\ v[k] = v[k - (n + 1)] * L[n + 1].multi + L[n + 1].big_data
    OBVIOUS
  <2> DEFINE i == k - n
             s == L[n]
             mu == s.multi
             bd == s.big_data
             c == text[i]
             u == v[i - 1]
  <2>1. n + 1 \in 1..k /\ (n + 1) - 1 = n /\ i \in 1..k /\ k - (n + 1) = i - 1 /\ k - (n + 1) + 1 = i /\ i - 1 \in 0..k
    BY <1>2
  <2>2. L[n + 1] = Body(n + 1, L[(n + 1) - 1]) /\ s \in S /\ v[k] = v[i] * mu + bd
    BY <2>1, <1>6, <1>11
  <2>3. L[n + 1].big_data = bd + mu * c /\ L[n + 1].multi = mu * A
    BY <2>1, <2>2
  <2>4. L[n + 1] \in S
    <3>1. n + 1 \in D \ {0}
      BY <2>1
    <3> HIDE DEF Body, S, D
    <3> QED BY <3>1, <2>1, <2>2, <1>4
  <2>5. mu \in Nat /\ bd \in Nat /\ c \in Nat /\ u \in Nat
    BY <1>2, <1>8, <2>1, <2>2, Zenon
  <2>6. v[i] = u * A + c
    BY <1>8, <2>1, Zenon
  <2> HIDE DEF mu, bd, c, u, s
  <2>7. (u * A + c) * mu + bd = u * (mu * A) + (bd + mu * c)
    BY <1>2, <2>5
  <2>8. v[k] = u * L[n + 1].multi + L[n + 1].big_data
    BY <2>2, <2>3, <2>6, <2>7
  <2> QED BY <2>1, <2>4, <2>8 DEF u
<1>12. k \in T
  <2> HIDE DEF T
  <2> QED BY <1>2, <1>10, <1>11, Induction, Zenon
<1>13. v[k] = L[k].big_data
  <2>1. L[k] \in S /\ v[k] = v[k - k] * L[k].multi + L[k].big_data
    BY <1>2, <1>12
  <2>2. k - k = 0 /\ v[0] = 0 /\ L[k].multi \in Nat /\ L[k].big_data \in Nat
    BY <1>2, <1>8, <2>1
  <2> QED BY <2>1, <2>2
<1> QED BY <1>1, <1>9, <1>13 DEF A

\* Every key that generateKeyPair() returns (Crypto.cpp:23) is read back from its text as
\* that key and no other, and the text has characters of the alphabet only: for keys of
\* every length, whatever zeros they begin with.
THEOREM KeysReadBack == \A pair \in generateKeyPair : ReadBack(pair)
<1> SUFFICES ASSUME NEW key \in PrivateKey
             PROVE  ReadBack([key |-> key, text |-> toBase58(key)])
  BY DEF generateKeyPair
<1>1. ByteValues \in Nat \ {0, 1} /\ AlphabetLength \in Nat \ {0, 1} /\ dsa_byte_length \in Nat
  BY KeyTextAssumption
<1>2. key \in Nat /\ key # 0
  <2>1. Power(ByteValues, dsa_byte_length) \in Nat
    BY <1>1, PowerIs
  <2> QED BY <2>1 DEF PrivateKey
<1>3. BigIntEncode(key) \in Seq(Nat) /\ BigIntDecode(BigIntEncode(key)) = key
  <2> DEFINE count == DigitCount(key, ByteValues)
  <2>1. count \in Nat /\ key < Power(ByteValues, count)
    BY <1>1, <1>2, DigitCountFits
  <2> HIDE DEF count
  <2>2. /\ Numeral(key, ByteValues, count) \in Seq(0..ByteValues - 1)
        /\ Value(Numeral(key, ByteValues, count), ByteValues) = key
    BY <1>1, <1>2, <2>1, NumeralValue
  <2>3. Numeral(key, ByteValues, count) \in Seq(Nat)
    BY <1>1, <2>2
  <2> QED BY <2>2, <2>3 DEF BigIntEncode, BigIntDecode, count
<1>4. BigIntDecode(toBinaryVector(key)) = key
  <2> DEFINE k == dsa_byte_length - Len(BigIntEncode(key))
             zeros == [i \in 1..k |-> 0]
  <2>1. k \in Int
    BY <1>1, <1>3
  <2>2. toBinaryVector(key) = zeros \o BigIntEncode(key)
    BY DEF toBinaryVector
  <2> HIDE DEF k
  <2>3. Value(zeros \o BigIntEncode(key), ByteValues) = Value(BigIntEncode(key), ByteValues)
    BY <1>1, <1>3, <2>1, ValueZeros
  <2> QED BY <2>2, <2>3, <1>3 DEF BigIntDecode
<1> DEFINE text == toBase58(key)
<1>5. text = EncodeLoop[key]
  BY <1>4 DEF toBase58, encodeToBase58
<1> HIDE DEF text
<1>6. text \in Seq(0..AlphabetLength - 1) /\ Value(text, AlphabetLength) = key
  BY <1>2, <1>5, EncodeLoopValue
<1>7. text \in Seq(Nat) /\ \A i \in DOMAIN text : text[i] \in 0..AlphabetLength - 1
  BY <1>1, <1>6
<1>8. text # <<>>
  BY <1>1, <1>2, <1>6, ValueEmpty
<1>9. fromBase58(text) = {key}
  <2>1. DecodeLoop(text) = key
    BY <1>6, <1>7, DecodeLoopValue
  <2>2. BigIntDecode(decodeFromBase58(text)) = key
    BY <2>1, <1>3 DEF decodeFromBase58
  <2> QED BY <1>2, <2>2 DEF fromBase58, setAsBinaryVector
<1> QED BY <1>7, <1>8, <1>9 DEF ReadBack, text

\* A request to bind a node to a key of generateKeyPair() is handled by a daemon that
\* reads the key the program has (APISession.cpp:139).
THEOREM SameKeyReadCorrect == FramingSpec => []SameKeyRead
<1>1. SameKeyRead
  BY KeysReadBack DEF SameKeyRead
<1> QED BY <1>1, PTL

-----------------------------------------------------------------------------
(***************************************************************************)
(* Sequences in parts.                                                     *)
(***************************************************************************)

\* A part of a sequence.
LEMMA Part ==
  ASSUME NEW S, NEW s \in Seq(S), NEW a \in 1..Len(s) + 1, NEW b \in a - 1..Len(s)
  PROVE  /\ SubSeq(s, a, b) \in Seq(S) /\ Len(SubSeq(s, a, b)) = b - a + 1
         /\ \A i \in 1..b - a + 1 : SubSeq(s, a, b)[i] = s[a + i - 1]
<1>1. a \in Int /\ b \in Int /\ Len(s) \in Nat
  OBVIOUS
<1>2. \A i \in a..b : s[i] \in S
  BY <1>1
<1> QED BY <1>1, <1>2, SubSeqProperties

\* A sequence is cut in two.
LEMMA Parts ==
  ASSUME NEW S, NEW s \in Seq(S), NEW k \in 0..Len(s)
  PROVE  s = SubSeq(s, 1, k) \o SubSeq(s, k + 1, Len(s))
<1>1. Len(s) \in Nat
  OBVIOUS
<1>2. 1 \in 1..Len(s) + 1 /\ k \in 1 - 1..Len(s) /\ Len(s) \in k..Len(s)
  BY <1>1
<1>3. SubSeq(s, 1, k) \o SubSeq(s, k + 1, Len(s)) = SubSeq(s, 1, Len(s))
  BY <1>2, ConcatAdjacentSubSeq, Zenon
<1> QED BY <1>3, SubSeqFull, Zenon

\* b is h, then c, then r: its length and where each of them is found.
InThree(b, h, c, r) ==
  /\ Len(b) = Len(h) + Len(c) + Len(r)
  /\ SubSeq(b, 1, Len(h)) = h
  /\ SubSeq(b, Len(h) + 1, Len(h) + Len(c)) = c
  /\ SubSeq(b, Len(h) + Len(c) + 1, Len(b)) = r

\* The parts of a sequence of three.
LEMMA ThreeParts ==
  ASSUME NEW h \in Seq(Byte), NEW c \in Seq(Byte), NEW r \in Seq(Byte)
  PROVE  h \o (c \o r) \in Seq(Byte) /\ InThree(h \o (c \o r), h, c, r)
<1> DEFINE t == c \o r
           b == h \o t
           i == Len(h)
           j == Len(h) + Len(c)
<1>1. t \in Seq(Byte) /\ Len(t) = Len(c) + Len(r)
      /\ \A x \in 1..Len(c) + Len(r) : t[x] = IF x <= Len(c) THEN c[x] ELSE r[x - Len(c)]
  BY ConcatProperties
<1> HIDE DEF t
<1>2. b \in Seq(Byte) /\ Len(b) = Len(h) + Len(t)
      /\ \A x \in 1..Len(h) + Len(t) : b[x] = IF x <= Len(h) THEN h[x] ELSE t[x - Len(h)]
  <2>1. t \in Seq(Byte)
    BY <1>1
  <2> QED BY <2>1, ConcatProperties
<1> HIDE DEF b
<1>3. Len(h) \in Nat /\ Len(c) \in Nat /\ Len(r) \in Nat
  OBVIOUS
<1>4. SubSeq(b, 1, i) = h
  <2>1. /\ SubSeq(b, 1, i) \in Seq(Byte) /\ Len(SubSeq(b, 1, i)) = i
        /\ \A x \in 1..i : SubSeq(b, 1, i)[x] = b[x]
    <3>1. 1 \in 1..Len(b) + 1 /\ i \in 1 - 1..Len(b) /\ i - 1 + 1 = i /\ \A x \in 1..i : 1 + x - 1 = x
      BY <1>1, <1>2, <1>3
    <3> QED BY <1>2, <3>1, Part
  <2>2. \A x \in 1..i : b[x] = h[x]
    BY <1>1, <1>2, <1>3
  <2> QED BY <2>1, <2>2, SeqEqual
<1>5. SubSeq(b, i + 1, j) = c
  <2>1. /\ SubSeq(b, i + 1, j) \in Seq(Byte) /\ Len(SubSeq(b, i + 1, j)) = Len(c)
        /\ \A x \in 1..Len(c) : SubSeq(b, i + 1, j)[x] = b[i + x]
    <3>1. i + 1 \in 1..Len(b) + 1 /\ j \in (i + 1) - 1..Len(b) /\ j - (i + 1) + 1 = Len(c) /\ \A x \in 1..Len(c) : (i + 1) + x - 1 = i + x
      BY <1>1, <1>2, <1>3
    <3> QED BY <1>2, <3>1, Part
  <2>2. \A x \in 1..Len(c) : b[i + x] = c[x]
    <3> SUFFICES ASSUME NEW x \in 1..Len(c) PROVE b[i + x] = c[x]
      OBVIOUS
    <3>1. i + x \in 1..Len(h) + Len(t) /\ ~(i + x <= Len(h)) /\ (i + x) - Len(h) = x
      BY <1>1, <1>3
    <3>2. b[i + x] = t[x]
      BY <1>2, <3>1
    <3> QED BY <1>1, <1>3, <3>2
  <2> QED BY <2>1, <2>2, SeqEqual
<1>6. SubSeq(b, j + 1, Len(b)) = r
  <2>1. /\ SubSeq(b, j + 1, Len(b)) \in Seq(Byte) /\ Len(SubSeq(b, j + 1, Len(b))) = Len(r)
        /\ \A x \in 1..Len(r) : SubSeq(b, j + 1, Len(b))[x] = b[j + x]
    <3>1. j + 1 \in 1..Len(b) + 1 /\ Len(b) \in (j + 1) - 1..Len(b) /\ Len(b) - (j + 1) + 1 = Len(r) /\ \A x \in 1..Len(r) : (j + 1) + x - 1 = j + x
      BY <1>1, <1>2, <1>3
    <3> QED BY <1>2, <3>1, Part
  <2>2. \A x \in 1..Len(r) : b[j + x] = r[x]
    <3> SUFFICES ASSUME NEW x \in 1..Len(r) PROVE b[j + x] = r[x]
      OBVIOUS
    <3>1. b[j + x] = t[Len(c) + x]
      BY <1>1, <1>2, <1>3
    <3>2. t[Len(c) + x] = r[x]
      <4>1. Len(c) + x \in 1..Len(c) + Len(r) /\ ~(Len(c) + x <= Len(c)) /\ (Len(c) + x) - Len(c) = x
        BY <1>3
      <4>2. t[Len(c) + x] = r[(Len(c) + x) - Len(c)]
        BY <4>1, <1>1, Zenon
      <4> QED BY <4>1, <4>2, Zenon
    <3> QED BY <3>1, <3>2
  <2> QED BY <2>1, <2>2, SeqEqual
<1>7. Len(b) = j + Len(r)
  BY <1>1, <1>2, <1>3
<1>8. Len(b) = Len(h) + Len(c) + Len(r)
  BY <1>7
<1>9. InThree(b, h, c, r)
  BY <1>4, <1>5, <1>6, <1>8, Zenon DEF InThree
<1> QED BY <1>2, <1>9, Zenon DEF b, t

-----------------------------------------------------------------------------
(***************************************************************************)
(* Frames.                                                                 *)
(***************************************************************************)

\* The sizes that can be written.
Size == {n \in Nat : n < Power(Base, MESSAGE_SIZE_LENGTH)}

\* A size that fits in its bytes is read back.
LEMMA SizeBytes ==
  ASSUME NEW n \in Size
  PROVE  htonl(n) \in Seq(Byte) /\ Len(htonl(n)) = MESSAGE_SIZE_LENGTH /\ ntohl(htonl(n)) = n
<1>1. Base \in Nat \ {0} /\ MESSAGE_SIZE_LENGTH \in Nat /\ Byte = 0..Base - 1
  BY FramingAssumption
<1>2. n \in Nat /\ n < Power(Base, MESSAGE_SIZE_LENGTH)
  BY DEF Size
<1> QED BY <1>1, <1>2, NumeralValue DEF htonl, ntohl

\* The bytes of a size are those of what is read from them.
LEMMA BytesSize ==
  ASSUME NEW bytes \in Seq(Byte), Len(bytes) = MESSAGE_SIZE_LENGTH
  PROVE  ntohl(bytes) \in Size /\ htonl(ntohl(bytes)) = bytes
<1>1. Base \in Nat \ {0} /\ Byte = 0..Base - 1
  BY FramingAssumption
<1>2. bytes \in Seq(0..Base - 1)
  BY <1>1
<1>3. Value(bytes, Base) \in Nat /\ Value(bytes, Base) < Power(Base, Len(bytes))
  BY <1>1, <1>2, ValueFits
<1>4. Numeral(Value(bytes, Base), Base, Len(bytes)) = bytes
  BY <1>1, <1>2, NumeralOfValue
<1> QED BY <1>3, <1>4 DEF htonl, ntohl, Size

\* What ParseFromArray() makes of bytes.
Parsed == Message \cup {Unparsed}

\* What is parsed is a message or counts as none.
LEMMA ParseType == \A bytes : ParseFromArray(bytes) \in Parsed /\ ParseFromArray(bytes) # Null
BY FramingAssumption DEF ParseFromArray, Parsed

\* A message that was serialized is parsed as itself.
LEMMA ParseSerialized ==
  ASSUME NEW m \in Message
  PROVE  ParseFromArray(Serialized[m]) = m
<1>1. \A x \in Message : Serialized[x] = Serialized[m] => x = m
  BY FramingAssumption DEF IsInjective
<1> QED BY <1>1 DEF ParseFromArray

\* The first frame has some bytes.
LEMMA FrameEndNat ==
  ASSUME NEW bytes \in Seq(Byte), Len(bytes) >= MESSAGE_SIZE_LENGTH
  PROVE  FrameEnd(bytes) \in Nat /\ FrameEnd(bytes) >= MESSAGE_SIZE_LENGTH
<1> DEFINE h == SubSeq(bytes, 1, MESSAGE_SIZE_LENGTH)
<1>1. MESSAGE_SIZE_LENGTH \in Nat \ {0} /\ Len(bytes) \in Nat
  BY FramingAssumption
<1>2. h \in Seq(Byte) /\ Len(h) = MESSAGE_SIZE_LENGTH
  <2>1. 1 \in 1..Len(bytes) + 1 /\ MESSAGE_SIZE_LENGTH \in 1 - 1..Len(bytes)
    BY <1>1
  <2> QED BY <1>1, <2>1, Part
<1> HIDE DEF h
<1>3. ntohl(h) \in Nat
  BY <1>2, BytesSize DEF Size
<1> QED BY <1>1, <1>3 DEF FrameEnd, h

\* Behind a frame there are fewer bytes.
LEMMA AfterIs ==
  ASSUME NEW bytes \in Seq(Byte), Complete(bytes)
  PROVE  /\ After(bytes) \in Seq(Byte) /\ Len(After(bytes)) = Len(bytes) - FrameEnd(bytes)
         /\ Len(After(bytes)) \in 0..Len(bytes) - 1
<1>1. MESSAGE_SIZE_LENGTH \in Nat \ {0} /\ Len(bytes) \in Nat
  BY FramingAssumption
<1> DEFINE e == FrameEnd(bytes)
<1>2. e \in Nat /\ e >= MESSAGE_SIZE_LENGTH /\ Len(bytes) >= e
  BY FrameEndNat DEF Complete
<1> HIDE DEF e
<1>3. e + 1 \in 1..Len(bytes) + 1 /\ Len(bytes) \in (e + 1) - 1..Len(bytes)
  BY <1>1, <1>2
<1>4. SubSeq(bytes, e + 1, Len(bytes)) \in Seq(Byte) /\ Len(SubSeq(bytes, e + 1, Len(bytes))) = Len(bytes) - (e + 1) + 1
  BY <1>3, Part
<1>5. Len(bytes) - (e + 1) + 1 = Len(bytes) - e /\ Len(bytes) - e \in 0..Len(bytes) - 1
  BY <1>1, <1>2
<1> QED BY <1>4, <1>5 DEF After, e

\* The contents of the first frame.
First(bytes) == ParseFromArray(SubSeq(bytes, MESSAGE_SIZE_LENGTH + 1, FrameEnd(bytes)))

\* The frames of bytes, without the recursion that defines them.
LEMMA FramesIs ==
  \A bytes \in Seq(Byte) : Frames[bytes] = IF Complete(bytes) THEN <<First(bytes)>> \o Frames[After(bytes)] ELSE <<>>
<1> DEFINE D == Seq(Byte)
           S == Seq(Parsed)
           Eq(g) == g = [b \in D |-> IF Complete(b) THEN <<First(b)>> \o g[After(b)] ELSE <<>>]
           Ends == {b \in D : ~Complete(b)}
           start == [b \in D |-> <<>>]
           step == [x \in D \X S |-> <<First(x[1])>> \o x[2]]
           pred == [b \in D |-> IF Complete(b) THEN After(b) ELSE b]
           m == [b \in D |-> Len(b)]
<1>1. Frames = CHOOSE g : Eq(g)
  BY DEF Frames, First
<1>2. \A b : <<First(b)>> \in S
  BY ParseType DEF First
<1>3. m \in [D -> Nat] /\ start \in [D -> S] /\ pred \in [D -> D]
  BY AfterIs
<1>4. step \in [D \X S -> S]
  <2>1. \A s, t \in S : s \o t \in S
    OBVIOUS
  <2> HIDE DEF S, D
  <2>2. \A x \in D \X S : <<First(x[1])>> \o x[2] \in S
    BY <1>2, <2>1
  <2> QED BY <2>2
<1>5. \A b \in D \ Ends : m[pred[b]] < m[b]
  BY AfterIs
<1>6. PICK f \in [D -> S] : Recurs(f, D, Ends, start, step, pred)
  <2> HIDE DEF m, start, step, pred, Ends, D, S
  <2> QED BY <1>3, <1>4, <1>5, Recursion, Zenon
<1>7. Eq(f)
  <2>1. ASSUME NEW b \in D
        PROVE  f[b] = IF Complete(b) THEN <<First(b)>> \o f[After(b)] ELSE <<>>
    <3>1. f[b] = IF b \in Ends THEN start[b] ELSE step[<<b, f[pred[b]]>>]
      <4> HIDE DEF start, step, pred, Ends, D, S
      <4> QED BY <1>6 DEF Recurs
    <3>2. start[b] = <<>> /\ (b \in Ends <=> ~Complete(b)) /\ (Complete(b) => pred[b] = After(b)) /\ pred[b] \in D
      BY <1>3
    <3>3. step[<<b, f[pred[b]]>>] = <<First(b)>> \o f[pred[b]]
      <4> HIDE DEF pred, Ends, D, S
      <4> QED BY <3>2, <1>6
    <3> HIDE DEF start, step, pred, Ends, D
    <3> QED BY <3>1, <3>2, <3>3
  <2> HIDE DEF D, S
  <2> QED BY <2>1, <1>6
<1>8. Eq(Frames)
  <2> HIDE DEF Eq
  <2> QED BY <1>1, <1>7
<1> QED BY <1>8, Zenon

\* The messages of bytes.
LEMMA FramesType == \A bytes \in Seq(Byte) : Frames[bytes] \in Seq(Parsed)
<1> DEFINE T == {n \in Nat : \A b \in Seq(Byte) : Len(b) = n => Frames[b] \in Seq(Parsed)}
<1>1. ASSUME NEW n \in Nat, \A k \in 0..n - 1 : k \in T
      PROVE  n \in T
  <2> SUFFICES ASSUME NEW b \in Seq(Byte), Len(b) = n
               PROVE  Frames[b] \in Seq(Parsed)
    OBVIOUS
  <2>1. CASE Complete(b)
    <3>1. After(b) \in Seq(Byte) /\ Len(After(b)) \in 0..n - 1
      BY <2>1, AfterIs
    <3>2. Frames[After(b)] \in Seq(Parsed)
      BY <3>1, <1>1
    <3>3. <<First(b)>> \in Seq(Parsed)
      BY ParseType DEF First
    <3>4. Frames[b] = <<First(b)>> \o Frames[After(b)]
      BY <2>1, FramesIs, Zenon
    <3> QED BY <3>2, <3>3, <3>4
  <2>2. CASE ~Complete(b)
    <3>1. Frames[b] = <<>>
      BY <2>2, FramesIs, Zenon
    <3> QED BY <3>1
  <2> QED BY <2>1, <2>2
<1>2. Nat \subseteq T
  <2> HIDE DEF T
  <2> QED BY <1>1, StrongInduction
<1> QED BY <1>2

\* The size of some bytes, those bytes, and whatever comes after.
LEMMA SizedFrame ==
  ASSUME NEW c \in Seq(Byte), Len(c) \in Size, NEW r \in Seq(Byte)
  PROVE  Frames[htonl(Len(c)) \o (c \o r)] = <<ParseFromArray(c)>> \o Frames[r]
<1> DEFINE h == htonl(Len(c))
           b == h \o (c \o r)
<1>1. h \in Seq(Byte)
  BY SizeBytes
<1>2. Len(h) = MESSAGE_SIZE_LENGTH /\ ntohl(h) = Len(c)
  BY SizeBytes
<1> HIDE DEF h
<1>3. /\ b \in Seq(Byte) /\ Len(b) = Len(h) + Len(c) + Len(r) /\ SubSeq(b, 1, Len(h)) = h
      /\ SubSeq(b, Len(h) + 1, Len(h) + Len(c)) = c /\ SubSeq(b, Len(h) + Len(c) + 1, Len(b)) = r
  <2>1. b \in Seq(Byte) /\ InThree(b, h, c, r)
    BY <1>1, ThreeParts, Zenon
  <2> HIDE DEF b
  <2> QED BY <2>1, Zenon DEF InThree
<1> HIDE DEF b
<1>4. FrameEnd(b) = MESSAGE_SIZE_LENGTH + Len(c)
  BY <1>2, <1>3, Zenon DEF FrameEnd
<1>5. Complete(b)
  <2>1. MESSAGE_SIZE_LENGTH \in Nat /\ Len(c) \in Nat /\ Len(r) \in Nat
    BY FramingAssumption DEF Size
  <2> QED BY <2>1, <1>2, <1>3, <1>4 DEF Complete
<1>6. First(b) = ParseFromArray(c)
  BY <1>2, <1>3, <1>4, Zenon DEF First
<1>7. After(b) = r
  BY <1>2, <1>3, <1>4 DEF After
<1>8. Frames[b] = <<First(b)>> \o Frames[After(b)]
  BY <1>3, <1>5, FramesIs, Zenon
<1> QED BY <1>6, <1>7, <1>8 DEF b, h

\* A size, as many bytes, and whatever comes after.
LEMMA FirstFrame ==
  ASSUME NEW n \in Size, NEW c \in Seq(Byte), Len(c) = n, NEW r \in Seq(Byte)
  PROVE  Frames[htonl(n) \o (c \o r)] = <<ParseFromArray(c)>> \o Frames[r]
BY SizedFrame, Zenon

\* Bytes that begin with no complete frame.
LEMMA NoFrame ==
  ASSUME NEW bytes \in Seq(Byte), ~Complete(bytes)
  PROVE  Frames[bytes] = <<>>
BY FramesIs, Zenon

\* No bytes have no frames.
LEMMA EmptyFrames == Frames[<<>>] = <<>>
<1>1. <<>> \in Seq(Byte) /\ ~Complete(<<>>)
  BY FramingAssumption DEF Complete
<1> QED BY <1>1, NoFrame, Zenon

\* The first k bytes of bytes, if these are a frame or more, begin with the same frame.
LEMMA CutFrame ==
  ASSUME NEW b \in Seq(Byte), NEW k \in 0..Len(b), Complete(SubSeq(b, 1, k))
  PROVE  /\ Complete(b) /\ First(SubSeq(b, 1, k)) = First(b) /\ FrameEnd(b) \in 0..k
         /\ After(SubSeq(b, 1, k)) = SubSeq(After(b), 1, k - FrameEnd(b))
<1> DEFINE p == SubSeq(b, 1, k)
           M == MESSAGE_SIZE_LENGTH
           e == FrameEnd(p)
<1>1. M \in Nat \ {0} /\ Len(b) \in Nat /\ k \in Nat /\ k <= Len(b)
  BY FramingAssumption
<1>2. p \in Seq(Byte) /\ Len(p) = k /\ \A i \in 1..k : p[i] = b[i]
  <2>1. 1 \in 1..Len(b) + 1 /\ k \in 1 - 1..Len(b) /\ k - 1 + 1 = k /\ \A i \in 1..k : 1 + i - 1 = i
    BY <1>1
  <2> QED BY <2>1, Part
<1>3. k >= M /\ k >= e /\ Complete(p)
  BY <1>2 DEF Complete
<1> HIDE DEF p
<1>4. \A x \in 1..k + 1 : \A y \in x - 1..k : SubSeq(p, x, y) = SubSeq(b, x, y)
  <2> SUFFICES ASSUME NEW x \in 1..k + 1, NEW y \in x - 1..k
               PROVE  SubSeq(p, x, y) = SubSeq(b, x, y)
    BY Zenon
  <2>1. x \in 1..Len(b) + 1 /\ y \in x - 1..Len(b) /\ x \in 1..Len(p) + 1 /\ y \in x - 1..Len(p)
    BY <1>1, <1>2
  <2> DEFINE s == SubSeq(p, x, y)
             t == SubSeq(b, x, y)
  <2>2. s \in Seq(Byte) /\ Len(s) = y - x + 1 /\ \A i \in 1..y - x + 1 : s[i] = p[x + i - 1]
    BY <1>2, <2>1, Part
  <2>3. t \in Seq(Byte) /\ Len(t) = y - x + 1 /\ \A i \in 1..y - x + 1 : t[i] = b[x + i - 1]
    BY <2>1, Part
  <2>4. \A i \in 1..y - x + 1 : x + i - 1 \in 1..k
    BY <1>1, <2>1
  <2> HIDE DEF s, t
  <2>5. \A i \in 1..Len(s) : s[i] = t[i]
    BY <1>2, <2>2, <2>3, <2>4
  <2>6. s = t
    BY <2>2, <2>3, <2>5, SeqEqual
  <2> QED BY <2>6 DEF s, t
<1>5. SubSeq(p, 1, M) = SubSeq(b, 1, M)
  <2>1. 1 \in 1..k + 1 /\ M \in 1 - 1..k
    BY <1>1, <1>3
  <2> QED BY <1>4, <2>1, Zenon
<1>6. e = FrameEnd(b)
  BY <1>5, Zenon DEF FrameEnd
<1>7. e \in Nat /\ e >= M
  BY <1>2, <1>3, FrameEndNat
<1> HIDE DEF e
<1>8. Complete(b)
  BY <1>1, <1>3, <1>6, <1>7 DEF Complete
<1>9. First(p) = First(b)
  <2>1. M + 1 \in 1..k + 1 /\ e \in (M + 1) - 1..k
    BY <1>1, <1>3, <1>7
  <2>2. SubSeq(p, M + 1, e) = SubSeq(b, M + 1, e)
    BY <1>4, <2>1, Zenon
  <2> QED BY <1>6, <2>2, Zenon DEF First, e
<1>10. After(p) = SubSeq(After(b), 1, k - e)
  <2> DEFINE a == After(b)
             s == SubSeq(p, e + 1, k)
             t == SubSeq(a, 1, k - e)
             n == k - e
  <2>1. e + 1 \in 1..k + 1 /\ k \in (e + 1) - 1..k /\ n \in Nat /\ e + 1 \in 1..Len(b) + 1 /\ Len(b) \in (e + 1) - 1..Len(b)
    BY <1>1, <1>3, <1>7
  <2>2. a \in Seq(Byte) /\ Len(a) = Len(b) - e
    BY <1>6, <1>8, AfterIs
  <2>3. \A i \in 1..n : a[i] = b[e + i]
    <3>1. a = SubSeq(b, e + 1, Len(b))
      BY <1>6 DEF After
    <3>2. \A i \in 1..Len(b) - (e + 1) + 1 : a[i] = b[(e + 1) + i - 1]
      BY <2>1, <3>1, Part
    <3>3. \A i \in 1..n : i \in 1..Len(b) - (e + 1) + 1 /\ (e + 1) + i - 1 = e + i
      BY <1>1, <1>7, <2>1
    <3> QED BY <3>2, <3>3
  <2> HIDE DEF a
  <2>4. s \in Seq(Byte) /\ Len(s) = n /\ \A i \in 1..n : s[i] = b[e + i]
    <3>1. s = SubSeq(b, e + 1, k)
      BY <1>4, <2>1, Zenon
    <3>2. k - (e + 1) + 1 = n /\ (\A i \in 1..n : (e + 1) + i - 1 = e + i) /\ k \in (e + 1) - 1..Len(b)
      BY <1>1, <1>7, <2>1
    <3> HIDE DEF s
    <3> QED BY <2>1, <3>1, <3>2, Part
  <2>5. t \in Seq(Byte) /\ Len(t) = n /\ \A i \in 1..n : t[i] = a[i]
    <3>1. 1 \in 1..Len(a) + 1 /\ n \in 1 - 1..Len(a) /\ n - 1 + 1 = n /\ \A i \in 1..n : 1 + i - 1 = i
      BY <1>1, <1>7, <2>1, <2>2
    <3> QED BY <2>2, <3>1, Part
  <2> HIDE DEF s, t, n
  <2>6. s = t
    BY <2>3, <2>4, <2>5, SeqEqual
  <2> QED BY <1>2, <2>6, Zenon DEF After, e, s, t, a
<1>11. FrameEnd(b) \in 0..k
  BY <1>1, <1>3, <1>6, <1>7
<1> QED BY <1>6, <1>8, <1>9, <1>10, <1>11 DEF p

\* One message, then some of the others.
LEMMA ConsPrefix ==
  ASSUME NEW S, NEW x \in S, NEW s \in Seq(S), NEW n \in 0..Len(s)
  PROVE  <<x>> \o SubSeq(s, 1, n) = SubSeq(<<x>> \o s, 1, n + 1) /\ n + 1 \in 0..Len(<<x>> \o s)
<1> DEFINE p == SubSeq(s, 1, n)
           t == <<x>> \o s
<1>1. Len(s) \in Nat /\ n \in Nat /\ n <= Len(s)
  OBVIOUS
<1>2. p \in Seq(S) /\ Len(p) = n /\ \A i \in 1..n : p[i] = s[i]
  <2>1. 1 \in 1..Len(s) + 1 /\ n \in 1 - 1..Len(s) /\ n - 1 + 1 = n /\ \A i \in 1..n : 1 + i - 1 = i
    BY <1>1
  <2> QED BY <2>1, Part
<1> HIDE DEF p
<1>3. t \in Seq(S) /\ Len(t) = 1 + Len(s) /\ t[1] = x /\ \A i \in 1..Len(s) : t[i + 1] = s[i]
  BY <1>1
<1> HIDE DEF t
<1> DEFINE u == <<x>> \o p
           w == SubSeq(t, 1, n + 1)
<1>4. u \in Seq(S) /\ Len(u) = n + 1 /\ u[1] = x /\ \A i \in 1..n : u[i + 1] = p[i]
  BY <1>1, <1>2
<1>5. w \in Seq(S) /\ Len(w) = n + 1 /\ \A i \in 1..n + 1 : w[i] = t[i]
  <2>1. 1 \in 1..Len(t) + 1 /\ n + 1 \in 1 - 1..Len(t) /\ (n + 1) - 1 + 1 = n + 1 /\ \A i \in 1..n + 1 : 1 + i - 1 = i
    BY <1>1, <1>3
  <2> QED BY <1>3, <2>1, Part
<1> HIDE DEF u, w
<1>6. \A i \in 1..n + 1 : u[i] = w[i]
  <2> SUFFICES ASSUME NEW i \in 1..n + 1 PROVE u[i] = w[i]
    OBVIOUS
  <2>1. CASE i = 1
    BY <2>1, <1>3, <1>4, <1>5, SMTT(30)
  <2>2. CASE i # 1
    <3>1. i - 1 \in 1..n /\ i - 1 \in 1..Len(s) /\ (i - 1) + 1 = i
      BY <1>1, <2>2
    <3>2. u[i] = p[i - 1] /\ p[i - 1] = s[i - 1]
      BY <3>1, <1>2, <1>4, Zenon
    <3>3. w[i] = t[i] /\ t[i] = s[i - 1]
      BY <3>1, <1>3, <1>5, Zenon
    <3> QED BY <3>2, <3>3
  <2> QED BY <2>1, <2>2
<1>7. u = w
  BY <1>4, <1>5, <1>6, SeqEqual
<1>8. n + 1 \in 0..Len(t)
  BY <1>1, <1>3
<1> QED BY <1>7, <1>8 DEF u, w, p, t

\* The first bytes have the first messages.
LEMMA CutFrames ==
  ASSUME NEW bytes \in Seq(Byte), NEW cut \in 0..Len(bytes)
  PROVE  \E n \in 0..Len(Frames[bytes]) : Frames[SubSeq(bytes, 1, cut)] = SubSeq(Frames[bytes], 1, n)
<1> DEFINE Begins(b, k) == \E n \in 0..Len(Frames[b]) : Frames[SubSeq(b, 1, k)] = SubSeq(Frames[b], 1, n)
           T == {n \in Nat : \A b \in Seq(Byte) : Len(b) = n => \A k \in 0..n : Begins(b, k)}
<1>1. ASSUME NEW n \in Nat, \A k \in 0..n - 1 : k \in T
      PROVE  n \in T
  <2> SUFFICES ASSUME NEW b \in Seq(Byte), Len(b) = n, NEW k \in 0..n
               PROVE  Begins(b, k)
    OBVIOUS
  <2> DEFINE p == SubSeq(b, 1, k)
  <2>1. p \in Seq(Byte)
    <3>1. 1 \in 1..Len(b) + 1 /\ k \in 1 - 1..Len(b)
      OBVIOUS
    <3> QED BY <3>1, Part
  <2>2. CASE Complete(p)
    <3> DEFINE a == After(b)
               j == k - FrameEnd(b)
    <3>1. Complete(b) /\ First(p) = First(b) /\ FrameEnd(b) \in 0..k /\ After(p) = SubSeq(a, 1, j)
      BY <2>2, CutFrame
    <3>2. a \in Seq(Byte) /\ Len(a) = n - FrameEnd(b) /\ Len(a) \in 0..n - 1
      BY <3>1, AfterIs
    <3>3. j \in 0..Len(a)
      BY <3>1, <3>2
    <3> HIDE DEF a, j
    <3>4. PICK i \in 0..Len(Frames[a]) : Frames[SubSeq(a, 1, j)] = SubSeq(Frames[a], 1, i)
      BY <1>1, <3>2, <3>3
    <3>5. Frames[b] = <<First(b)>> \o Frames[a] /\ Frames[p] = <<First(p)>> \o Frames[After(p)]
      BY <2>1, <2>2, <3>1, FramesIs, Zenon DEF a
    <3>6. First(b) \in Parsed /\ Frames[a] \in Seq(Parsed)
      BY <3>2, ParseType, FramesType DEF First
    <3>7. /\ <<First(b)>> \o SubSeq(Frames[a], 1, i) = SubSeq(<<First(b)>> \o Frames[a], 1, i + 1)
          /\ i + 1 \in 0..Len(<<First(b)>> \o Frames[a])
      BY <3>6, ConsPrefix
    <3> HIDE DEF p
    <3> QED BY <3>1, <3>4, <3>5, <3>7, Zenon DEF p
  <2>3. CASE ~Complete(p)
    <3>1. Frames[p] = <<>>
      BY <2>1, <2>3, NoFrame, Zenon
    <3>2. SubSeq(Frames[b], 1, 0) = <<>> /\ Len(Frames[b]) \in Nat
      BY FramesType, SubSeqEmpty
    <3> QED BY <3>1, <3>2
  <2> QED BY <2>2, <2>3
<1>2. Nat \subseteq T
  <2> HIDE DEF T
  <2> QED BY <1>1, StrongInduction
<1> QED BY <1>2

\* Bytes are joined in any order.
LEMMA Associates ==
  ASSUME NEW a \in Seq(Byte), NEW b \in Seq(Byte), NEW c \in Seq(Byte)
  PROVE  a \o b \in Seq(Byte) /\ (a \o b) \o c \in Seq(Byte) /\ (a \o b) \o c = a \o (b \o c)
<1>1. (a \o b) \o c = a \o (b \o c)
  BY ConcatAssociative
<1>2. a \o b \in Seq(Byte)
  OBVIOUS
<1> DEFINE ab == a \o b
<1> HIDE DEF ab
<1>3. ab \in Seq(Byte) => ab \o c \in Seq(Byte)
  OBVIOUS
<1> QED BY <1>1, <1>2, <1>3 DEF ab

\* What generateSendString() makes of a message.
LEMMA FrameIs ==
  ASSUME NEW m \in Message
  PROVE  /\ Serialized[m] \in Seq(Byte) /\ Len(Serialized[m]) \in Size
         /\ generateSendString(m) \in Seq(Byte)
         /\ Len(generateSendString(m)) = MESSAGE_SIZE_LENGTH + Len(Serialized[m])
<1> DEFINE c == Serialized[m]
<1>1. c \in Seq(Byte) /\ Len(c) \in Size
  BY FramingAssumption DEF Size
<1> HIDE DEF c
<1>2. htonl(Len(c)) \in Seq(Byte) /\ Len(htonl(Len(c))) = MESSAGE_SIZE_LENGTH
  BY <1>1, SizeBytes
<1>3. htonl(Len(c)) \o c \in Seq(Byte) /\ Len(htonl(Len(c)) \o c) = MESSAGE_SIZE_LENGTH + Len(c)
  BY <1>1, <1>2
<1> QED BY <1>1, <1>3 DEF generateSendString, c

\* The frame of a message gives the message.
LEMMA FrameFirst ==
  ASSUME NEW m \in Message, NEW r \in Seq(Byte)
  PROVE  Frames[generateSendString(m) \o r] = <<m>> \o Frames[r]
<1> DEFINE c == Serialized[m]
           h == htonl(Len(c))
<1>1. c \in Seq(Byte) /\ Len(c) \in Size
  BY FrameIs
<1>2. h \in Seq(Byte)
  BY <1>1, SizeBytes
<1>3. ParseFromArray(c) = m
  BY ParseSerialized
<1>4. generateSendString(m) = h \o c
  BY DEF generateSendString
<1> HIDE DEF c
<1>5. Frames[h \o (c \o r)] = <<ParseFromArray(c)>> \o Frames[r]
  BY <1>1, FirstFrame
<1> HIDE DEF h
<1>6. (h \o c) \o r = h \o (c \o r)
  <2>1. h \in Seq(Byte) /\ c \in Seq(Byte) /\ r \in Seq(Byte)
    BY <1>1, <1>2
  <2> QED BY <2>1, Associates, ZenonT(30)
<1> QED BY <1>3, <1>4, <1>5, <1>6

\* Bytes that are frames of messages of M and nothing else: the least set with no bytes and
\* with a frame in front of any of its members.
Closed(M, W) == <<>> \in W /\ \A m \in M : \A r \in W : generateSendString(m) \o r \in W
Whole(M) == {b \in Seq(Byte) : \A W \in SUBSET Seq(Byte) : Closed(M, W) => b \in W}

\* Induction over sequences of frames.
LEMMA WholeInduction ==
  ASSUME NEW M, NEW W, W \subseteq Seq(Byte), Closed(M, W)
  PROVE  Whole(M) \subseteq W
BY DEF Whole

\* A frame before frames.
LEMMA WholeClosed ==
  ASSUME NEW M, M \subseteq Message
  PROVE  Whole(M) \subseteq Seq(Byte) /\ Closed(M, Whole(M))
<1>1. <<>> \in Whole(M)
  <2>1. <<>> \in Seq(Byte)
    OBVIOUS
  <2> QED BY <2>1 DEF Whole, Closed
<1>2. ASSUME NEW m \in M, NEW r \in Whole(M)
      PROVE  generateSendString(m) \o r \in Whole(M)
  <2>1. m \in Message /\ r \in Seq(Byte)
    BY DEF Whole
  <2>2. generateSendString(m) \in Seq(Byte)
    BY <2>1, FrameIs
  <2>3. generateSendString(m) \o r \in Seq(Byte)
    BY <2>1, <2>2
  <2>4. \A W \in SUBSET Seq(Byte) : Closed(M, W) => r \in W
    BY DEF Whole
  <2>5. \A W \in SUBSET Seq(Byte) : Closed(M, W) => generateSendString(m) \o r \in W
    BY <2>4 DEF Closed
  <2> QED BY <2>3, <2>5 DEF Whole
<1> QED BY <1>1, <1>2 DEF Closed, Whole

\* A frame can be put behind as well, and then its message is the last one.
LEMMA WholeAppend ==
  ASSUME NEW M, M \subseteq Message, NEW m \in M, NEW bytes \in Whole(M)
  PROVE  /\ bytes \o generateSendString(m) \in Whole(M)
         /\ Frames[bytes \o generateSendString(m)] = Append(Frames[bytes], m)
<1> DEFINE f == generateSendString(m)
           W == {b \in Whole(M) : b \o f \in Whole(M) /\ Frames[b \o f] = Append(Frames[b], m)}
<1>1. Whole(M) \subseteq Seq(Byte) /\ Closed(M, Whole(M))
  BY WholeClosed
<1>2. m \in Message /\ f \in Seq(Byte)
  BY FrameIs
<1>3. <<>> \in W
  <2>1. f \o <<>> = f /\ <<>> \o f = f /\ <<>> \in Seq(Byte)
    BY <1>2, ConcatEmptySeq
  <2>2. f \o <<>> \in Whole(M) /\ <<>> \in Whole(M)
    BY <1>1, Zenon DEF Closed
  <2>3. Frames[f \o <<>>] = <<m>> \o Frames[<<>>]
    BY <1>2, <2>1, FrameFirst, Zenon
  <2>4. Frames[<<>>] = <<>> /\ <<m>> \o <<>> = Append(<<>>, m)
    BY EmptyFrames
  <2> HIDE DEF f
  <2> QED BY <2>1, <2>2, <2>3, <2>4, Zenon
<1>4. ASSUME NEW x \in M, NEW r \in W
      PROVE  generateSendString(x) \o r \in W
  <2> DEFINE g == generateSendString(x)
  <2>1. x \in Message /\ g \in Seq(Byte) /\ r \in Seq(Byte) /\ r \in Whole(M)
    BY <1>1, FrameIs
  <2>2. r \o f \in Whole(M) /\ Frames[r \o f] = Append(Frames[r], m) /\ r \o f \in Seq(Byte)
    BY <1>1, Zenon
  <2>3. g \o r \in Whole(M) /\ g \o (r \o f) \in Whole(M)
    BY <1>1, <2>1, <2>2 DEF Closed
  <2>4. Frames[g \o r] = <<x>> \o Frames[r] /\ Frames[g \o (r \o f)] = <<x>> \o Frames[r \o f]
    BY <2>1, <2>2, FrameFirst, Zenon
  <2> HIDE DEF f, g
  <2>5. (g \o r) \o f = g \o (r \o f)
    BY <1>2, <2>1, ConcatAssociative
  <2>6. <<x>> \o Append(Frames[r], m) = Append(<<x>> \o Frames[r], m)
    <3> DEFINE S == Message \cup {Unparsed}
               q == Frames[r]
    <3>1. q \in Seq(S)
      BY <2>1, FramesType DEF Parsed
    <3>2. <<x>> \in Seq(S) /\ m \in S /\ <<m>> \in Seq(S)
      BY <1>2, <2>1
    <3> HIDE DEF q, S
    <3>3. Append(q, m) = q \o <<m>> /\ Append(<<x>> \o q, m) = (<<x>> \o q) \o <<m>>
      BY <3>1, <3>2, AppendIsConcat
    <3>4. (<<x>> \o q) \o <<m>> = <<x>> \o (q \o <<m>>)
      BY <3>1, <3>2, ConcatAssociative
    <3> QED BY <3>3, <3>4 DEF q
  <2>7. Frames[(g \o r) \o f] = Append(Frames[g \o r], m)
    BY <2>2, <2>4, <2>5, <2>6, Zenon
  <2> QED BY <2>3, <2>5, <2>7, Zenon DEF f, g
<1>5. W \subseteq Seq(Byte)
  BY <1>1
<1>6. Closed(M, W)
  <2> HIDE DEF W
  <2> QED BY <1>3, <1>4 DEF Closed
<1>7. Whole(M) \subseteq W
  <2> HIDE DEF W
  <2> QED BY <1>5, <1>6, WholeInduction
<1> QED BY <1>7

\* Frames begin with a frame.
LEMMA WholeFirst ==
  ASSUME NEW M, M \subseteq Message, NEW bytes \in Whole(M), bytes # <<>>
  PROVE  \E m \in M : \E r \in Whole(M) : bytes = generateSendString(m) \o r
<1> DEFINE Begins(b) == \E m \in M : \E r \in Whole(M) : b = generateSendString(m) \o r
           W == {b \in Whole(M) : b # <<>> => Begins(b)}
<1>1. Whole(M) \subseteq Seq(Byte) /\ Closed(M, Whole(M))
  BY WholeClosed
<1>2. Closed(M, W)
  BY <1>1, Zenon DEF Closed
<1>3. Whole(M) \subseteq W
  <2>1. W \subseteq Seq(Byte)
    BY <1>1
  <2> HIDE DEF W
  <2> QED BY <1>2, <2>1, WholeInduction
<1> QED BY <1>3

\* Frames of requests take up their share of the room.
LEMMA WholeLength ==
  ASSUME NEW bytes \in Whole(Request)
  PROVE  Callers * Len(bytes) <= Len(Frames[bytes]) * Capacity
<1> DEFINE W == {b \in Whole(Request) : Callers * Len(b) <= Len(Frames[b]) * Capacity}
<1>1. Request \subseteq Message /\ Callers \in Nat /\ Capacity \in Nat
  BY FramingAssumption
<1>2. Whole(Request) \subseteq Seq(Byte) /\ Closed(Request, Whole(Request))
  BY <1>1, WholeClosed
<1>3. <<>> \in W
  <2>1. Len(<<>>) = 0 /\ <<>> \in Whole(Request)
    BY <1>2 DEF Closed
  <2>2. Callers * 0 <= 0 * Capacity
    BY <1>1
  <2> QED BY <2>1, <2>2, EmptyFrames
<1>4. ASSUME NEW m \in Request, NEW r \in W
      PROVE  generateSendString(m) \o r \in W
  <2> DEFINE g == generateSendString(m)
             q == Frames[r]
             k == Len(g)
             l == Len(r)
             n == Len(q)
  <2>1. m \in Message /\ r \in Seq(Byte) /\ r \in Whole(Request) /\ Callers * l <= n * Capacity
    BY <1>1, <1>2
  <2>2. g \in Seq(Byte) /\ k = MESSAGE_SIZE_LENGTH + Len(Serialized[m])
    BY <2>1, FrameIs
  <2>3. Callers * k <= Capacity
    BY <2>2, FramingAssumption
  <2>4. g \o r \in Whole(Request)
    BY <1>2, <2>1 DEF Closed
  <2>5. Frames[g \o r] = <<m>> \o q
    BY <2>1, FrameFirst
  <2>6. q \in Seq(Parsed) /\ m \in Parsed
    BY <2>1, FramesType DEF Parsed
  <2>7. Len(g \o r) = k + l /\ k \in Nat /\ l \in Nat
    <3> HIDE DEF g
    <3> QED BY <2>1, <2>2
  <2>8. Len(<<m>> \o q) = 1 + n /\ n \in Nat
    <3> HIDE DEF q
    <3> QED BY <2>6
  <2> HIDE DEF g, q, k, l, n
  <2>9. Callers * (k + l) <= (1 + n) * Capacity
    <3>1. Callers * (k + l) = Callers * k + Callers * l /\ (1 + n) * Capacity = Capacity + n * Capacity
      BY <1>1, <2>7, <2>8
    <3>2. Callers * k \in Nat /\ Callers * l \in Nat /\ n * Capacity \in Nat
      BY <1>1, <2>7, <2>8
    <3> QED BY <1>1, <2>1, <2>3, <3>1, <3>2
  <2> QED BY <2>4, <2>5, <2>7, <2>8, <2>9 DEF g
<1>5. Whole(Request) \subseteq W
  <2>1. W \subseteq Seq(Byte) /\ Closed(Request, W)
    <3>1. W \subseteq Seq(Byte)
      BY <1>2
    <3> HIDE DEF W
    <3> QED BY <1>3, <1>4, <3>1 DEF Closed
  <2> HIDE DEF W
  <2> QED BY <2>1, WholeInduction
<1> QED BY <1>5

-----------------------------------------------------------------------------
(***************************************************************************)
(* The bytes on their way: those of a size that was read, those of the     *)
(* read under way, those in the kernel and those of the write under way.   *)
(***************************************************************************)

SizeOrNull == Size \cup {Null}
SizeRead(sz) == IF sz = Null THEN <<>> ELSE htonl(sz)
Join(sz, b, w, u) == SizeRead(sz) \o b \o w \o u

\* Bytes are cut in two.
LEMMA TwoParts ==
  ASSUME NEW s \in Seq(Byte), NEW k \in 0..Len(s)
  PROVE  /\ SubSeq(s, 1, k) \in Seq(Byte) /\ SubSeq(s, k + 1, Len(s)) \in Seq(Byte)
         /\ s = SubSeq(s, 1, k) \o SubSeq(s, k + 1, Len(s))
<1>1. Len(s) \in Nat
  OBVIOUS
<1>2. 1 \in 1..Len(s) + 1 /\ k \in 1 - 1..Len(s) /\ k + 1 \in 1..Len(s) + 1 /\ Len(s) \in (k + 1) - 1..Len(s)
  BY <1>1
<1> QED BY <1>2, Part, Parts, Zenon

\* The bytes on their way are bytes, and are joined in either order.
LEMMA JoinIs ==
  ASSUME NEW sz \in SizeOrNull, NEW b \in Seq(Byte), NEW w \in Seq(Byte), NEW u \in Seq(Byte)
  PROVE  /\ SizeRead(sz) \in Seq(Byte) /\ Join(sz, b, w, u) \in Seq(Byte)
         /\ Join(sz, b, w, u) = SizeRead(sz) \o (b \o (w \o u))
         /\ Len(w) <= Len(Join(sz, b, w, u))
<1> DEFINE h == SizeRead(sz)
           p == h \o b
           q == w \o u
<1>1. h \in Seq(Byte)
  <2>1. CASE sz = Null
    BY <2>1 DEF SizeRead
  <2>2. CASE sz # Null
    BY <2>2, SizeBytes DEF SizeRead, SizeOrNull
  <2> QED BY <2>1, <2>2
<1>2. Join(sz, b, w, u) = (p \o w) \o u
  BY DEF Join
<1> HIDE DEF h
<1>3. p \in Seq(Byte) /\ q \in Seq(Byte)
  BY <1>1
<1> HIDE DEF p, q
<1>4. (p \o w) \o u = p \o q /\ (p \o w) \o u \in Seq(Byte)
  <2>1. p \in Seq(Byte)
    BY <1>3
  <2>2. (p \o w) \o u = p \o (w \o u)
    BY <2>1, Associates, Zenon
  <2>3. (p \o w) \o u \in Seq(Byte)
    BY <2>1, Associates, Zenon
  <2> QED BY <2>2, <2>3, Zenon DEF q
<1>5. p \o q = h \o (b \o q)
  <2>1. q \in Seq(Byte)
    BY <1>3
  <2>2. (h \o b) \o q = h \o (b \o q)
    BY <1>1, <2>1, Associates, ZenonT(30)
  <2> QED BY <2>2, Zenon DEF p
<1>6. Len(w) <= Len(p \o q)
  <2>1. Len(p \o q) = Len(p) + Len(q) /\ Len(p) \in Nat /\ Len(q) \in Nat
    BY <1>3
  <2>2. Len(q) = Len(w) + Len(u) /\ Len(w) \in Nat /\ Len(u) \in Nat
    BY DEF q
  <2> QED BY <2>1, <2>2
<1> QED BY <1>1, <1>2, <1>4, <1>5, <1>6 DEF h, q

\* Bytes move from one part to the part before it.
LEMMA JoinMoves ==
  ASSUME NEW sz \in SizeOrNull, NEW b \in Seq(Byte), NEW p \in Seq(Byte), NEW s \in Seq(Byte), NEW u \in Seq(Byte)
  PROVE  /\ Join(sz, b, u \o p, s) = Join(sz, b, u, p \o s)
         /\ Join(sz, b \o p, s, u) = Join(sz, b, p \o s, u)
<1> DEFINE h == SizeRead(sz)
           x == h \o b
           y == x \o u
<1>1. h \in Seq(Byte)
  BY JoinIs, Zenon
<1> HIDE DEF h
<1>2. x \in Seq(Byte)
  BY <1>1, Associates
<1>3. h \o (b \o p) = x \o p
  BY <1>1, Associates, Zenon
<1> HIDE DEF x
<1>4. y \in Seq(Byte)
  BY <1>2, Associates
<1>5. x \o (u \o p) = y \o p
  BY <1>2, Associates, ZenonT(30)
<1>6. (x \o p) \o s = x \o (p \o s)
  BY <1>2, Associates, Zenon
<1> HIDE DEF y
<1>7. (y \o p) \o s = y \o (p \o s)
  BY <1>4, Associates, Zenon
<1>8. Join(sz, b, u \o p, s) = (x \o (u \o p)) \o s /\ Join(sz, b, u, p \o s) = y \o (p \o s)
  BY DEF Join, h, x, y
<1>9. Join(sz, b \o p, s, u) = ((h \o (b \o p)) \o s) \o u /\ Join(sz, b, p \o s, u) = (x \o (p \o s)) \o u
  BY DEF Join, h, x
<1> QED BY <1>3, <1>5, <1>6, <1>7, <1>8, <1>9, Zenon

\* The kernel takes k bytes of a write.
LEMMA JoinWritten ==
  ASSUME NEW sz \in SizeOrNull, NEW b \in Seq(Byte), NEW w \in Seq(Byte), NEW u \in Seq(Byte), NEW k \in 0..Len(u)
  PROVE  Join(sz, b, w \o SubSeq(u, 1, k), SubSeq(u, k + 1, Len(u))) = Join(sz, b, w, u)
<1> DEFINE p == SubSeq(u, 1, k)
           s == SubSeq(u, k + 1, Len(u))
<1>1. p \in Seq(Byte) /\ s \in Seq(Byte) /\ u = p \o s
  BY TwoParts, Zenon
<1> HIDE DEF p, s
<1>2. Join(sz, b, w \o p, s) = Join(sz, b, w, p \o s)
  <2>1. p \in Seq(Byte) /\ s \in Seq(Byte)
    BY <1>1
  <2> QED BY <2>1, JoinMoves
<1> QED BY <1>1, <1>2, Zenon DEF p, s

\* The kernel gives k bytes to a read.
LEMMA JoinRead ==
  ASSUME NEW sz \in SizeOrNull, NEW b \in Seq(Byte), NEW w \in Seq(Byte), NEW u \in Seq(Byte), NEW k \in 0..Len(w)
  PROVE  Join(sz, b \o SubSeq(w, 1, k), SubSeq(w, k + 1, Len(w)), u) = Join(sz, b, w, u)
<1> DEFINE p == SubSeq(w, 1, k)
           s == SubSeq(w, k + 1, Len(w))
<1>1. p \in Seq(Byte) /\ s \in Seq(Byte) /\ w = p \o s
  BY TwoParts, Zenon
<1> HIDE DEF p, s
<1>2. Join(sz, b \o p, s, u) = Join(sz, b, p \o s, u)
  <2>1. p \in Seq(Byte) /\ s \in Seq(Byte)
    BY <1>1
  <2> QED BY <2>1, JoinMoves
<1> QED BY <1>1, <1>2, Zenon DEF p, s

\* The size is read.
LEMMA JoinSize ==
  ASSUME NEW b \in Seq(Byte), Len(b) = MESSAGE_SIZE_LENGTH, NEW w \in Seq(Byte), NEW u \in Seq(Byte)
  PROVE  ntohl(b) \in Size /\ Join(ntohl(b), <<>>, w, u) = Join(Null, b, w, u)
<1>1. ntohl(b) \in Size /\ htonl(ntohl(b)) = b
  BY BytesSize
<1>2. ntohl(b) # Null
  BY <1>1, FramingAssumption DEF Size
<1>3. SizeRead(ntohl(b)) = b /\ SizeRead(Null) = <<>>
  BY <1>1, <1>2 DEF SizeRead
<1>4. b \o <<>> = b /\ <<>> \o b = b
  BY ConcatEmptySeq
<1> QED BY <1>1, <1>3, <1>4 DEF Join

\* The contents are read, to the last byte.
LEMMA JoinReceived ==
  ASSUME NEW b \in Seq(Byte), Len(b) \in Size, NEW w \in Seq(Byte), NEW u \in Seq(Byte)
  PROVE  /\ Join(Null, <<>>, w, u) \in Seq(Byte)
         /\ Frames[Join(Len(b), b, w, u)] = <<ParseFromArray(b)>> \o Frames[Join(Null, <<>>, w, u)]
         /\ \A M \in SUBSET Message : Join(Len(b), b, w, u) \in Whole(M) => Join(Null, <<>>, w, u) \in Whole(M)
<1> DEFINE r == w \o u
           h == htonl(Len(b))
<1>1. Len(b) # Null /\ r \in Seq(Byte)
  BY FramingAssumption DEF Size
<1>2. h \in Seq(Byte) /\ Len(h) = MESSAGE_SIZE_LENGTH /\ ntohl(h) = Len(b)
  BY SizeBytes
<1>3. Join(Len(b), b, w, u) = h \o (b \o r)
  <2> HIDE DEF h, r
  <2>1. Len(b) \in SizeOrNull /\ SizeRead(Len(b)) = h
    BY <1>1 DEF SizeRead, SizeOrNull, h
  <2> QED BY <2>1, JoinIs, Zenon DEF r
<1>4. Join(Null, <<>>, w, u) = r
  <2>1. <<>> \o w = w /\ <<>> \in Seq(Byte)
    BY ConcatEmptySeq
  <2>2. <<>> \o <<>> = <<>>
    BY <2>1, ConcatEmptySeq
  <2>3. Join(Null, <<>>, w, u) = ((<<>> \o <<>>) \o w) \o u
    BY DEF Join, SizeRead
  <2> QED BY <2>1, <2>2, <2>3
<1> HIDE DEF r
<1>5. Frames[h \o (b \o r)] = <<ParseFromArray(b)>> \o Frames[r]
  BY <1>1, FirstFrame, Zenon
<1>6. ASSUME NEW M \in SUBSET Message, h \o (b \o r) \in Whole(M)
      PROVE  r \in Whole(M)
  <2> HIDE DEF h
  <2>1. SubSeq(h \o (b \o r), 1, Len(h)) = h /\ SubSeq(h \o (b \o r), Len(h) + Len(b) + 1, Len(h \o (b \o r))) = r
    <3>1. h \in Seq(Byte)
      BY <1>2
    <3>2. InThree(h \o (b \o r), h, b, r)
      BY <1>1, <3>1, ThreeParts, Zenon
    <3> QED BY <3>2, Zenon DEF InThree
  <2>2. h \o (b \o r) # <<>>
    <3>1. h # <<>>
      BY <1>2, FramingAssumption
    <3>2. b \o r \in Seq(Byte)
      BY <1>1
    <3> QED BY <1>2, <3>1, <3>2, ConcatEqualIffEmpty
  <2>3. PICK m \in M : \E s \in Whole(M) : h \o (b \o r) = generateSendString(m) \o s
    BY <1>6, <2>2, WholeFirst, Zenon
  <2>4. PICK s \in Whole(M) : h \o (b \o r) = generateSendString(m) \o s
    BY <2>3, Zenon
  <2> DEFINE c == Serialized[m]
             g == htonl(Len(c))
  <2>5. m \in Message /\ c \in Seq(Byte) /\ Len(c) \in Size /\ generateSendString(m) = g \o c /\ s \in Seq(Byte)
    BY FrameIs, Zenon DEF generateSendString, Whole
  <2>6. g \in Seq(Byte) /\ Len(g) = MESSAGE_SIZE_LENGTH /\ ntohl(g) = Len(c)
    BY <2>5, SizeBytes
  <2> HIDE DEF c, g
  <2>7. (g \o c) \o s = g \o (c \o s)
    BY <2>5, <2>6, Associates, Zenon
  <2>8. SubSeq(g \o (c \o s), 1, Len(g)) = g /\ SubSeq(g \o (c \o s), Len(g) + Len(c) + 1, Len(g \o (c \o s))) = s
    <3>1. g \in Seq(Byte) /\ c \in Seq(Byte) /\ s \in Seq(Byte)
      BY <2>5, <2>6
    <3>2. InThree(g \o (c \o s), g, c, s)
      BY <3>1, ThreeParts, Zenon
    <3> QED BY <3>2, Zenon DEF InThree
  <2>9. h \o (b \o r) = g \o (c \o s)
    BY <2>4, <2>5, <2>7
  <2>10. h = g
    BY <1>2, <2>1, <2>6, <2>8, <2>9, Zenon
  <2>11. Len(b) = Len(c)
    BY <1>2, <2>6, <2>10
  <2>12. r = s
    BY <2>1, <2>8, <2>9, <2>10, <2>11, Zenon
  <2> QED BY <2>12
<1> QED BY <1>1, <1>3, <1>4, <1>5, <1>6

\* Bytes are written behind.
LEMMA JoinAppend ==
  ASSUME NEW sz \in SizeOrNull, NEW b \in Seq(Byte), NEW w \in Seq(Byte), NEW f \in Seq(Byte)
  PROVE  /\ Join(sz, b, w, f) = Join(sz, b, w, <<>>) \o f
         /\ Join(sz, b, w \o f, <<>>) = Join(sz, b, w, <<>>) \o f
<1> DEFINE h == SizeRead(sz)
           p == h \o b
<1>1. h \in Seq(Byte)
  BY JoinIs
<1>2. p \in Seq(Byte) /\ p \o w \in Seq(Byte) /\ w \o f \in Seq(Byte) /\ p \o (w \o f) \in Seq(Byte)
  BY <1>1
<1> HIDE DEF p
<1>3. (p \o w) \o <<>> = p \o w /\ (p \o (w \o f)) \o <<>> = p \o (w \o f) /\ p \o (w \o f) = (p \o w) \o f
  <2>1. (p \o w) \o <<>> = p \o w /\ (p \o (w \o f)) \o <<>> = p \o (w \o f)
    BY <1>2, ConcatEmptySeq, Zenon
  <2>2. p \in Seq(Byte)
    BY <1>2
  <2>3. (p \o w) \o f = p \o (w \o f)
    BY <2>2, Associates, Zenon
  <2> QED BY <2>1, <2>3
<1> QED BY <1>3 DEF Join, p

\* What is not written is lost.
LEMMA JoinCut ==
  ASSUME NEW sz \in SizeOrNull, NEW b \in Seq(Byte), NEW w \in Seq(Byte), NEW u \in Seq(Byte)
  PROVE  \E n \in 0..Len(Frames[Join(sz, b, w, u)]) :
           Frames[Join(sz, b, w, <<>>)] = SubSeq(Frames[Join(sz, b, w, u)], 1, n)
<1> DEFINE s == Join(sz, b, w, <<>>)
           t == Join(sz, b, w, u)
<1>1. s \in Seq(Byte) /\ t \in Seq(Byte) /\ t = s \o u
  <2>1. <<>> \in Seq(Byte)
    OBVIOUS
  <2>2. s \in Seq(Byte) /\ t \in Seq(Byte)
    BY <2>1, JoinIs, Zenon
  <2>3. t = s \o u
    BY JoinAppend, Zenon
  <2> QED BY <2>2, <2>3
<1> HIDE DEF s, t
<1>2. Len(s) \in 0..Len(t) /\ SubSeq(t, 1, Len(s)) = s
  <2>1. Len(t) = Len(s) + Len(u) /\ Len(s) \in Nat /\ Len(u) \in Nat
    BY <1>1
  <2>2. <<>> \in Seq(Byte) /\ s \o u \in Seq(Byte) /\ <<>> \o u = u
    BY <1>1, ConcatEmptySeq
  <2>3. SubSeq(s \o (<<>> \o u), 1, Len(s)) = s
    <3>1. s \in Seq(Byte) /\ <<>> \in Seq(Byte)
      BY <1>1
    <3>2. InThree(s \o (<<>> \o u), s, <<>>, u)
      BY <3>1, ThreeParts, Zenon
    <3> QED BY <3>2, Zenon DEF InThree
  <2> QED BY <1>1, <2>1, <2>2, <2>3
<1>3. \E n \in 0..Len(Frames[t]) : Frames[SubSeq(t, 1, Len(s))] = SubSeq(Frames[t], 1, n)
  BY <1>1, <1>2, CutFrames, Zenon
<1> QED BY <1>2, <1>3, Zenon DEF s, t

-----------------------------------------------------------------------------
(***************************************************************************)
(* The inductive invariant.                                                *)
(***************************************************************************)

\* The messages of a direction that are on their way or being handled.
Underway(d) == Len(Frames[Pending(d)]) + (IF inbox[d] = Null THEN 0 ELSE 1)

\* The daemon does not write while it handles a request, sizes are those that fit in
\* their bytes, and an end that is closed has nothing to handle or to write.
EndsHold ==
  /\ inbox["request"] # Null => unsent["reply"] = <<>>
  /\ \A d \in Direction :
       /\ size[d] \in SizeOrNull
       /\ Receiver(d) \notin open => inbox[d] = Null
       /\ Sender(d) \notin open => unsent[d] = <<>>

\* While both ends are open, the bytes on their way are frames, to the last.
WholeFrames ==
  open = {"program", "daemon"} => Pending("request") \in Whole(Request) /\ Pending("reply") \in Whole(Message)

\* There is no message that no thread of the program waits for.
AllAwaited == "program" \in open => Underway("request") + Underway("reply") <= waiting

FramingInv == FramingTypeOK /\ RequestTakenWhole /\ EndsHold /\ WholeFrames /\ AllAwaited

\* Who sends and who receives.
LEMMA EndsAre ==
  /\ Direction = {"request", "reply"}
  /\ Receiver("request") = "daemon" /\ Sender("request") = "program"
  /\ Receiver("reply") = "program" /\ Sender("reply") = "daemon"
BY DEF Direction, Receiver, Sender

\* What the invariant says of a direction.
LEMMA DirectionIs ==
  ASSUME FramingInv, NEW d \in Direction
  PROVE  /\ size[d] \in SizeOrNull /\ buffer[d] \in Seq(Byte) /\ unsent[d] \in Seq(Byte)
         /\ wire[d] \in Seq(Byte) /\ Len(wire[d]) <= Capacity
         /\ Pending(d) = IF Receiver(d) \in open THEN Join(size[d], buffer[d], wire[d], unsent[d]) ELSE <<>>
         /\ Pending(d) \in Seq(Byte)
         /\ Frames[Pending(d)] \in Seq(Parsed) /\ Len(Frames[Pending(d)]) \in Nat
<1>1. size[d] \in SizeOrNull
  BY DEF FramingInv, EndsHold
<1>2. buffer[d] \in Seq(Byte) /\ unsent[d] \in Seq(Byte) /\ wire[d] \in Seq(Byte) /\ Len(wire[d]) <= Capacity
  BY DEF FramingInv, FramingTypeOK
<1>3. Pending(d) = IF Receiver(d) \in open THEN Join(size[d], buffer[d], wire[d], unsent[d]) ELSE <<>>
  BY Zenon DEF Pending, Join, SizeRead
<1>4. Pending(d) \in Seq(Byte)
  <2>1. Join(size[d], buffer[d], wire[d], unsent[d]) \in Seq(Byte)
    BY <1>1, <1>2, JoinIs, Zenon
  <2>2. <<>> \in Seq(Byte)
    OBVIOUS
  <2> QED BY <1>3, <2>1, <2>2, Zenon
<1>5. Frames[Pending(d)] \in Seq(Parsed)
  BY <1>4, FramesType, Zenon
<1>6. Len(Frames[Pending(d)]) \in Nat
  <2> DEFINE q == Frames[Pending(d)]
  <2> HIDE DEF q
  <2>1. q \in Seq(Parsed) => Len(q) \in Nat
    OBVIOUS
  <2> QED BY <1>5, <2>1 DEF q
<1> QED BY <1>1, <1>2, <1>3, <1>4, <1>5, <1>6, Zenon

\* What the invariant says of the messages of a direction.
LEMMA UnderwayIs ==
  ASSUME FramingInv, NEW d \in Direction
  PROVE  /\ Underway(d) \in Nat /\ Len(Frames[Pending(d)]) <= Underway(d) /\ waiting \in Nat
         /\ inbox[d] # Null => Underway(d) = Len(Frames[Pending(d)]) + 1
<1> DEFINE n == Len(Frames[Pending(d)])
<1>1. n \in Nat
  BY DirectionIs
<1> HIDE DEF n
<1>2. Underway(d) = n + (IF inbox[d] = Null THEN 0 ELSE 1)
  BY Zenon DEF Underway, n
<1>3. waiting \in Nat
  BY FramingAssumption DEF FramingInv, FramingTypeOK
<1>4. Underway(d) \in Nat /\ n <= Underway(d) /\ (inbox[d] # Null => Underway(d) = n + 1)
  BY <1>1, <1>2
<1> QED BY <1>3, <1>4, Zenon DEF n

\* The bytes on their way after a step.
LEMMA PendingAfter ==
  ASSUME NEW d \in Direction
  PROVE  Pending(d)' = IF Receiver(d) \in open' THEN Join(size'[d], buffer'[d], wire'[d], unsent'[d]) ELSE <<>>
BY Zenon DEF Pending, Join, SizeRead, Receiver

\* The messages on their way, as the specification of a channel has them.
Queues == [d \in Direction |-> Frames[Pending(d)]]

\* The messages of a direction before a step and after it.
LEMMA QueuesAre ==
  /\ \A d \in Direction : Queues[d] = Frames[Pending(d)]
  /\ \A d \in Direction : Queues'[d] = Frames[Pending(d)']
BY DEF Queues

\* A step that changes the messages of one direction only.
LEMMA QueuesExcept ==
  ASSUME NEW d \in Direction, NEW q, Frames[Pending(d)'] = q, \A c \in Direction \ {d} : Pending(c)' = Pending(c)
  PROVE  Queues' = [Queues EXCEPT ![d] = q]
<1>1. Queues'[d] = q
  BY QueuesAre
<1>2. \A c \in Direction \ {d} : Queues'[c] = Queues[c]
  BY QueuesAre
<1>3. Queues' = [c \in Direction |-> Queues'[c]] /\ Queues = [c \in Direction |-> Queues[c]]
  BY DEF Queues
<1> QED BY <1>1, <1>2, <1>3, Zenon

\* A step that moves bytes only.
LEMMA BytesMove ==
  ASSUME FramingInv, UNCHANGED <<open, inbox, waiting>>, \A d \in Direction : Pending(d)' = Pending(d)
  PROVE  WholeFrames' /\ AllAwaited' /\ UNCHANGED C!channelVars
<1>1. Pending("request")' = Pending("request") /\ Pending("reply")' = Pending("reply")
  BY EndsAre
<1>2. WholeFrames'
  BY <1>1 DEF FramingInv, WholeFrames
<1>3. Underway("request")' = Underway("request") /\ Underway("reply")' = Underway("reply")
  BY <1>1, Zenon DEF Underway
<1>4. AllAwaited'
  BY <1>3 DEF FramingInv, AllAwaited
<1>5. Queues' = Queues
  BY DEF Queues
<1> QED BY <1>2, <1>4, <1>5 DEF C!channelVars, Queues

-----------------------------------------------------------------------------
(***************************************************************************)
(* Steps that move bytes: they are none of the channel.                    *)
(***************************************************************************)

\* A number of bytes within two bounds.
LEMMA SmallerIs ==
  ASSUME NEW i \in Int, NEW j \in Int, NEW n \in 1..Smaller(i, j)
  PROVE  n \in Nat /\ 1 <= n /\ n <= i /\ n <= j
BY DEF Smaller

\* The kernel takes bytes of a write; it is one of the daemon.
LEMMA WriteStep ==
  ASSUME FramingInv, NEW d \in Direction, write_some(d)
  PROVE  FramingInv' /\ UNCHANGED C!channelVars
<1>1. d = "reply" /\ inbox["request"] = Null
  BY EndsAre DEF FramingInv, RequestTakenWhole, EndsHold, write_some
<1>2. PICK n \in 1..Smaller(Room(d), Len(unsent[d])) :
         /\ wire' = [wire EXCEPT ![d] = @ \o SubSeq(unsent[d], 1, n)]
         /\ unsent' = [unsent EXCEPT ![d] = SubSeq(@, n + 1, Len(@))]
  BY ZenonT(30) DEF write_some
<1>3. /\ size[d] \in SizeOrNull /\ buffer[d] \in Seq(Byte) /\ unsent[d] \in Seq(Byte)
      /\ wire[d] \in Seq(Byte) /\ Len(wire[d]) <= Capacity
  BY DirectionIs
<1> DEFINE p == SubSeq(unsent[d], 1, n)
           s == SubSeq(unsent[d], n + 1, Len(unsent[d]))
           w == wire[d] \o p
<1>4. n \in 0..Len(unsent[d]) /\ n <= Capacity - Len(wire[d])
  <2>1. Len(wire[d]) \in Nat /\ Len(unsent[d]) \in Nat /\ Capacity \in Nat
    BY <1>3, FramingAssumption
  <2>2. Room(d) \in Int /\ Room(d) = Capacity - Len(wire[d])
    BY <2>1 DEF Room
  <2>3. n \in Nat /\ n <= Room(d) /\ n <= Len(unsent[d])
    BY <2>1, <2>2, SmallerIs
  <2> QED BY <2>1, <2>2, <2>3
<1>5. p \in Seq(Byte) /\ s \in Seq(Byte) /\ Len(p) = n
  <2>1. p \in Seq(Byte) /\ s \in Seq(Byte)
    BY <1>3, <1>4, TwoParts, Zenon
  <2>2. Len(p) = n
    BY <1>3, <1>4
  <2> QED BY <2>1, <2>2
<1>6. Join(size[d], buffer[d], w, s) = Join(size[d], buffer[d], wire[d], unsent[d])
  BY <1>3, <1>4, JoinWritten, Zenon
<1> HIDE DEF p, s
<1>7. w \in Seq(Byte) /\ Len(w) <= Capacity
  <2>1. w \in Seq(Byte) /\ Len(w) = Len(wire[d]) + n /\ Len(wire[d]) \in Nat
    <3>1. w \in Seq(Byte) /\ Len(w) = Len(wire[d]) + Len(p) /\ Len(wire[d]) \in Nat
      <4>1. wire[d] \in Seq(Byte) /\ p \in Seq(Byte)
        BY <1>3, <1>5
      <4> QED BY <4>1
    <3> QED BY <1>5, <3>1
  <2> QED BY <1>4, <2>1, FramingAssumption
<1> HIDE DEF w
<1>8. wire' = [wire EXCEPT ![d] = w] /\ unsent' = [unsent EXCEPT ![d] = s]
  BY <1>2 DEF w, p, s
<1>9. UNCHANGED <<open, buffer, size, inbox, waiting>>
  BY DEF write_some, readVars
<1>10. wire'[d] = w /\ unsent'[d] = s /\ \A c \in Direction \ {d} : wire'[c] = wire[c] /\ unsent'[c] = unsent[c]
  BY <1>8 DEF FramingInv, FramingTypeOK
<1>11. FramingTypeOK'
  BY <1>5, <1>7, <1>8, <1>9, SMTT(30) DEF FramingInv, FramingTypeOK
<1>12. RequestTakenWhole'
  BY <1>1, <1>10, EndsAre, SMTT(30) DEF FramingInv, RequestTakenWhole
<1>13. EndsHold'
  <2>1. Sender(d) \in open
    BY DEF write_some
  <2> QED BY <1>1, <1>9, <1>10, <2>1, EndsAre DEF FramingInv, EndsHold
<1>14. ASSUME NEW c \in Direction PROVE Pending(c)' = Pending(c)
  <2>1. Join(size'[c], buffer'[c], wire'[c], unsent'[c]) = Join(size[c], buffer[c], wire[c], unsent[c])
    <3>1. CASE c = d
      BY <1>6, <1>9, <1>10, <3>1, SMTT(30)
    <3>2. CASE c # d
      BY <1>9, <1>10, <3>2
    <3> QED BY <3>1, <3>2
  <2> QED BY <1>9, <2>1, DirectionIs, PendingAfter, SMTT(30)
<1> QED BY <1>9, <1>11, <1>12, <1>13, <1>14, BytesMove DEF FramingInv

\* The kernel gives bytes to a read.
LEMMA ReadStep ==
  ASSUME FramingInv, NEW d \in Direction, read_some(d)
  PROVE  FramingInv' /\ UNCHANGED C!channelVars
<1>1. PICK n \in 1..Smaller(Need(d) - Len(buffer[d]), Len(wire[d])) :
         /\ buffer' = [buffer EXCEPT ![d] = @ \o SubSeq(wire[d], 1, n)]
         /\ wire' = [wire EXCEPT ![d] = SubSeq(@, n + 1, Len(@))]
  BY Zenon DEF read_some
<1>2. /\ size[d] \in SizeOrNull /\ buffer[d] \in Seq(Byte) /\ unsent[d] \in Seq(Byte)
      /\ wire[d] \in Seq(Byte) /\ Len(wire[d]) <= Capacity
  BY DirectionIs
<1> DEFINE p == SubSeq(wire[d], 1, n)
           s == SubSeq(wire[d], n + 1, Len(wire[d]))
           b == buffer[d] \o p
<1>3. n \in 0..Len(wire[d])
  <2>1. Len(wire[d]) \in Nat /\ Len(buffer[d]) \in Nat
    BY <1>2
  <2>2. Need(d) \in Nat
    BY <1>2, FramingAssumption DEF Need, SizeOrNull, Size
  <2>3. Need(d) - Len(buffer[d]) \in Int
    BY <2>1, <2>2
  <2>4. n \in Nat /\ n <= Len(wire[d])
    BY <2>1, <2>3, SmallerIs
  <2> QED BY <2>1, <2>4
<1>4. p \in Seq(Byte) /\ s \in Seq(Byte)
  BY <1>2, <1>3, TwoParts, Zenon
<1>5. Len(s) <= Capacity
  <2>1. Len(s) = Len(wire[d]) - n /\ Len(wire[d]) \in Nat
    BY <1>2, <1>3
  <2> QED BY <1>2, <1>3, <2>1, FramingAssumption
<1>6. Join(size[d], b, s, unsent[d]) = Join(size[d], buffer[d], wire[d], unsent[d])
  BY <1>2, <1>3, JoinRead, Zenon
<1> HIDE DEF p, s
<1>7. b \in Seq(Byte)
  BY <1>2, <1>4
<1> HIDE DEF b
<1>8. wire' = [wire EXCEPT ![d] = s] /\ buffer' = [buffer EXCEPT ![d] = b]
  BY <1>1 DEF b, p, s
<1>9. UNCHANGED <<unsent, open, size, inbox, waiting>>
  BY DEF read_some
<1>10. wire'[d] = s /\ buffer'[d] = b /\ \A c \in Direction \ {d} : wire'[c] = wire[c] /\ buffer'[c] = buffer[c]
  BY <1>8 DEF FramingInv, FramingTypeOK
<1>11. FramingTypeOK'
  BY <1>4, <1>5, <1>7, <1>8, <1>9, SMTT(30) DEF FramingInv, FramingTypeOK
<1>12. RequestTakenWhole' /\ EndsHold'
  BY <1>9, SMTT(30) DEF FramingInv, RequestTakenWhole, EndsHold
<1>13. ASSUME NEW c \in Direction PROVE Pending(c)' = Pending(c)
  <2>1. Join(size'[c], buffer'[c], wire'[c], unsent'[c]) = Join(size[c], buffer[c], wire[c], unsent[c])
    <3>1. CASE c = d
      BY <1>6, <1>9, <1>10, <3>1, SMTT(30)
    <3>2. CASE c # d
      BY <1>9, <1>10, <3>2
    <3> QED BY <3>1, <3>2, SMTT(30)
  <2> QED BY <1>9, <2>1, DirectionIs, PendingAfter, SMTT(30)
<1> QED BY <1>9, <1>11, <1>12, <1>13, BytesMove DEF FramingInv

\* The size of a message has been read.
LEMMA SizeStep ==
  ASSUME FramingInv, NEW d \in Direction, handleReceiveSize(d)
  PROVE  FramingInv' /\ UNCHANGED C!channelVars
<1> DEFINE n == ntohl(buffer[d])
<1>1. /\ buffer[d] \in Seq(Byte) /\ unsent[d] \in Seq(Byte) /\ wire[d] \in Seq(Byte)
  BY DirectionIs
<1>2. size[d] = Null /\ Len(buffer[d]) = MESSAGE_SIZE_LENGTH
  BY DEF handleReceiveSize, ReadEnds, Need
<1>3. n \in Size /\ Join(n, <<>>, wire[d], unsent[d]) = Join(size[d], buffer[d], wire[d], unsent[d])
  BY <1>1, <1>2, JoinSize
<1> HIDE DEF n
<1>4. size' = [size EXCEPT ![d] = n] /\ buffer' = [buffer EXCEPT ![d] = <<>>] /\ UNCHANGED <<unsent, wire, open, inbox, waiting>>
  BY DEF handleReceiveSize, streamVars, n
<1>5. size'[d] = n /\ buffer'[d] = <<>> /\ \A c \in Direction \ {d} : size'[c] = size[c] /\ buffer'[c] = buffer[c]
  BY <1>4 DEF FramingInv, FramingTypeOK
<1>6. FramingTypeOK'
  <2>1. n \in Nat /\ <<>> \in Seq(Byte)
    BY <1>3, SMTT(30) DEF Size
  <2> QED BY <1>4, <2>1 DEF FramingInv, FramingTypeOK
<1>7. RequestTakenWhole' /\ EndsHold'
  BY <1>3, <1>4, <1>5, SMTT(30) DEF FramingInv, RequestTakenWhole, EndsHold, SizeOrNull
<1>8. ASSUME NEW c \in Direction PROVE Pending(c)' = Pending(c)
  <2>1. Join(size'[c], buffer'[c], wire'[c], unsent'[c]) = Join(size[c], buffer[c], wire[c], unsent[c])
    <3>1. CASE c = d
      BY <1>3, <1>4, <1>5, <3>1
    <3>2. CASE c # d
      BY <1>4, <1>5, <3>2
    <3> QED BY <3>1, <3>2, Zenon
  <2> QED BY <1>4, <2>1, DirectionIs, PendingAfter
<1> QED BY <1>4, <1>6, <1>7, <1>8, BytesMove DEF FramingInv

-----------------------------------------------------------------------------
(***************************************************************************)
(* Steps of the channel.                                                   *)
(***************************************************************************)

\* The first of a queue, and the others.
LEMMA HeadTail ==
  ASSUME NEW S, NEW x \in S, NEW q \in Seq(S)
  PROVE  /\ <<x>> \o q # <<>> /\ Head(<<x>> \o q) = x /\ Tail(<<x>> \o q) = q /\ Len(<<x>> \o q) = Len(q) + 1
<1> DEFINE t == <<x>> \o q
<1>1. t \in Seq(S) /\ Len(t) = Len(q) + 1 /\ Len(q) \in Nat
  OBVIOUS
<1>2. t[1] = x /\ \A i \in 1..Len(q) : t[i + 1] = q[i]
  OBVIOUS
<1> HIDE DEF t
<1>3. t # <<>> /\ Head(t) = x
  BY <1>1, <1>2
<1>4. Tail(t) \in Seq(S) /\ Len(Tail(t)) = Len(q) /\ \A i \in 1..Len(q) : Tail(t)[i] = q[i]
  BY <1>1, <1>2, <1>3
<1>5. Tail(t) = q
  BY <1>4, SeqEqual
<1> QED BY <1>1, <1>3, <1>5 DEF t

\* A message has been read: it leaves the queue.
LEMMA ReceiveStep ==
  ASSUME FramingInv, NEW d \in Direction, handleReceive(d)
  PROVE  FramingInv' /\ C!Deliver(d)
<1> DEFINE x == ParseFromArray(buffer[d])
           r == Join(Null, <<>>, wire[d], unsent[d])
<1>1. /\ buffer[d] \in Seq(Byte) /\ unsent[d] \in Seq(Byte) /\ wire[d] \in Seq(Byte) /\ size[d] \in SizeOrNull
  BY DirectionIs
<1>2. size[d] # Null /\ Len(buffer[d]) = size[d] /\ Reads(d)
  BY DEF handleReceive, ReadEnds, Need
<1>3. size[d] \in Size /\ Len(buffer[d]) \in Size
  BY <1>1, <1>2 DEF SizeOrNull
<1>4. Receiver(d) \in open /\ inbox[d] = Null /\ (d = "request" => unsent["reply"] = <<>>)
  BY <1>2 DEF Reads
<1>5. /\ r \in Seq(Byte)
      /\ Frames[Join(size[d], buffer[d], wire[d], unsent[d])] = <<x>> \o Frames[r]
      /\ \A M \in SUBSET Message : Join(size[d], buffer[d], wire[d], unsent[d]) \in Whole(M) => r \in Whole(M)
  <2>1. /\ r \in Seq(Byte)
        /\ Frames[Join(Len(buffer[d]), buffer[d], wire[d], unsent[d])] = <<x>> \o Frames[r]
        /\ \A M \in SUBSET Message : Join(Len(buffer[d]), buffer[d], wire[d], unsent[d]) \in Whole(M) => r \in Whole(M)
    BY <1>1, <1>3, JoinReceived, Zenon
  <2> QED BY <1>2, <2>1, Zenon
<1>6. x \in Parsed
  BY <1>1, ParseType
<1>7. inbox' = [inbox EXCEPT ![d] = x] /\ size' = [size EXCEPT ![d] = Null] /\ buffer' = [buffer EXCEPT ![d] = <<>>]
      /\ UNCHANGED <<unsent, wire, open, waiting>>
  BY DEF handleReceive, streamVars
<1> HIDE DEF x
<1>8. inbox'[d] = x /\ size'[d] = Null /\ buffer'[d] = <<>>
      /\ \A c \in Direction \ {d} : inbox'[c] = inbox[c] /\ size'[c] = size[c] /\ buffer'[c] = buffer[c]
  BY <1>7 DEF FramingInv, FramingTypeOK
<1>9. FramingTypeOK'
  <2>1. x \in Message \cup {Null, Unparsed} /\ <<>> \in Seq(Byte)
    BY <1>6 DEF Parsed
  <2> QED BY <1>7, <2>1 DEF FramingInv, FramingTypeOK
<1>10. RequestTakenWhole' /\ EndsHold'
  BY <1>4, <1>7, <1>8, EndsAre, SMTT(30) DEF FramingInv, RequestTakenWhole, EndsHold, SizeOrNull
<1>11. Pending(d) = Join(size[d], buffer[d], wire[d], unsent[d]) /\ Pending(d)' = r
  BY <1>4, <1>7, <1>8, DirectionIs, PendingAfter, SMTT(30)
<1>12. ASSUME NEW c \in Direction \ {d} PROVE Pending(c)' = Pending(c)
  BY <1>7, <1>8, DirectionIs, PendingAfter
<1> HIDE DEF r
<1>13. Frames[Pending(d)] = <<x>> \o Frames[Pending(d)'] /\ Frames[Pending(d)'] \in Seq(Parsed)
  <2>1. Frames[r] \in Seq(Parsed)
    BY <1>5, FramesType, Zenon
  <2> QED BY <1>5, <1>11, <2>1, Zenon
<1>14. WholeFrames'
  <2>1. \A M \in SUBSET Message : Pending(d) \in Whole(M) => Pending(d)' \in Whole(M)
    BY <1>5, <1>11, Zenon
  <2>2. Request \in SUBSET Message /\ Message \in SUBSET Message
    BY FramingAssumption
  <2> QED BY <1>7, <1>12, <2>1, <2>2, EndsAre DEF FramingInv, WholeFrames
<1> DEFINE q == Frames[Pending(d)']
<1>15. q \in Seq(Parsed) /\ Frames[Pending(d)] = <<x>> \o q
  BY <1>13
<1> HIDE DEF q
<1>16. Frames[Pending(d)] # <<>> /\ Head(Frames[Pending(d)]) = x /\ Tail(Frames[Pending(d)]) = q
       /\ Len(Frames[Pending(d)]) = Len(q) + 1 /\ Len(q) \in Nat
  BY <1>6, <1>15, HeadTail
<1>17. AllAwaited'
  <2>1. Underway(d)' <= Underway(d) /\ Underway(d)' \in Nat /\ Underway(d) \in Nat
    <3>1. Underway(d)' = Len(q) + (IF inbox'[d] = Null THEN 0 ELSE 1)
      BY Zenon DEF Underway, q
    <3>2. Underway(d) = Len(q) + 1
      BY <1>4, <1>16 DEF Underway
    <3> QED BY <1>16, <3>1, <3>2
  <2>2. ASSUME NEW c \in Direction \ {d} PROVE Underway(c)' = Underway(c) /\ Underway(c) \in Nat
    <3>1. Underway(c)' = Underway(c)
      BY <1>8, <1>12, Zenon DEF Underway
    <3> QED BY <3>1, UnderwayIs
  <2>3. waiting \in Nat
    BY UnderwayIs
  <2> QED BY <1>7, <2>1, <2>2, <2>3, EndsAre, SMTT(30) DEF FramingInv, AllAwaited
<1>18. C!Deliver(d)
  <2>1. Queues[d] # <<>> /\ Head(Queues[d]) = x /\ Tail(Queues[d]) = q
    BY <1>16, QueuesAre
  <2>2. Queues' = [Queues EXCEPT ![d] = q]
    BY <1>12, QueuesExcept DEF q
  <2> QED BY <1>4, <1>7, <2>1, <2>2, Zenon DEF C!Deliver, Queues
<1> QED BY <1>9, <1>10, <1>14, <1>17, <1>18, SMTT(30) DEF FramingInv

\* A reply is handled, and a thread goes on.
LEMMA ReplyStep ==
  ASSUME FramingInv, handleReply
  PROVE  FramingInv' /\ C!Handle("reply")
<1>1. inbox["reply"] # Null /\ inbox' = [inbox EXCEPT !["reply"] = Null] /\ waiting' = waiting - 1
      /\ UNCHANGED <<unsent, wire, open, buffer, size>>
  BY DEF handleReply, streamVars, readVars
<1>2. inbox'["reply"] = Null /\ inbox'["request"] = inbox["request"]
  BY <1>1, EndsAre DEF FramingInv, FramingTypeOK
<1>3. "program" \in open
  BY <1>1, EndsAre DEF FramingInv, EndsHold
<1>4. /\ Underway("request") \in Nat /\ Underway("reply") \in Nat /\ waiting \in Nat
      /\ Underway("reply") = Len(Frames[Pending("reply")]) + 1 /\ Len(Frames[Pending("reply")]) \in Nat
      /\ Underway("request") + Underway("reply") <= waiting
  <2>1. "request" \in Direction /\ "reply" \in Direction
    BY EndsAre
  <2>2. Underway("request") + Underway("reply") <= waiting
    BY <1>3 DEF FramingInv, AllAwaited
  <2> QED BY <1>1, <2>1, <2>2, UnderwayIs, DirectionIs
<1>5. FramingTypeOK'
  <2>1. waiting' \in 0..Callers
    BY <1>1, <1>4, FramingAssumption DEF FramingInv, FramingTypeOK
  <2> QED BY <1>1, <2>1, Zenon DEF FramingInv, FramingTypeOK
<1>6. RequestTakenWhole' /\ EndsHold'
  BY <1>1, <1>2, EndsAre, SMTT(30) DEF FramingInv, RequestTakenWhole, EndsHold
<1>7. ASSUME NEW c \in Direction PROVE Pending(c)' = Pending(c)
  BY <1>1, DirectionIs, PendingAfter
<1>8. Pending("request")' = Pending("request") /\ Pending("reply")' = Pending("reply")
  BY <1>7, EndsAre
<1>9. WholeFrames'
  BY <1>1, <1>8 DEF FramingInv, WholeFrames
<1>10. AllAwaited'
  <2>1. Underway("request")' = Underway("request")
    BY <1>2, <1>8, Zenon DEF Underway
  <2>2. Underway("reply")' = Len(Frames[Pending("reply")])
    <3>1. Underway("reply")' = Len(Frames[Pending("reply")]) + 0
      BY <1>2, <1>8, Zenon DEF Underway
    <3> QED BY <1>4, <3>1
  <2>3. Underway("request")' + Underway("reply")' <= waiting'
    BY <1>1, <1>4, <2>1, <2>2
  <2> QED BY <2>3 DEF AllAwaited
<1>11. C!Handle("reply")
  <2>1. Queues' = Queues
    BY <1>7 DEF Queues
  <2> QED BY <1>1, <2>1 DEF C!Handle, Queues
<1> QED BY <1>5, <1>6, <1>9, <1>10, <1>11 DEF FramingInv

\* A message is written behind the others when both ends are open.
LEMMA MessageAppended ==
  ASSUME FramingInv, NEW d \in Direction, NEW M, M \subseteq Message, NEW m \in M, Pending(d) \in Whole(M),
         Receiver(d) \in open, Pending(d)' = Pending(d) \o generateSendString(m)
  PROVE  /\ Pending(d)' \in Whole(M)
         /\ Frames[Pending(d)'] = Append(Frames[Pending(d)], m)
         /\ Len(Frames[Pending(d)']) = Len(Frames[Pending(d)]) + 1
<1>1. Pending(d)' \in Whole(M) /\ Frames[Pending(d)'] = Append(Frames[Pending(d)], m)
  BY WholeAppend, Zenon
<1> DEFINE q == Frames[Pending(d)]
<1>2. q \in Seq(Parsed)
  BY DirectionIs
<1> HIDE DEF q
<1>3. Len(Append(q, m)) = Len(q) + 1
  BY <1>2
<1> QED BY <1>1, <1>3, Zenon DEF q

\* The daemon handles a request: a reply is queued behind the others, or none.
LEMMA ProcessStep ==
  ASSUME FramingInv, process
  PROVE  FramingInv' /\ C!Handle("request")
<1>1. inbox["request"] # Null /\ inbox' = [inbox EXCEPT !["request"] = Null]
      /\ UNCHANGED <<wire, open, buffer, size, waiting>>
  BY DEF process, readVars
<1>2. inbox'["request"] = Null /\ inbox'["reply"] = inbox["reply"]
  BY <1>1, EndsAre DEF FramingInv, FramingTypeOK
<1>3. "daemon" \in open /\ unsent["reply"] = <<>>
  BY <1>1, EndsAre DEF FramingInv, EndsHold
<1>4. /\ Underway("request") \in Nat /\ Underway("reply") \in Nat /\ waiting \in Nat
      /\ Underway("request") = Len(Frames[Pending("request")]) + 1
      /\ Len(Frames[Pending("request")]) \in Nat /\ Len(Frames[Pending("reply")]) \in Nat
  <2>1. "request" \in Direction /\ "reply" \in Direction
    BY EndsAre
  <2> QED BY <1>1, <2>1, UnderwayIs, DirectionIs
<1>5. unsent'["request"] = unsent["request"]
  <2>1. \/ UNCHANGED unsent
        \/ \E m \in Message : unsent' = [unsent EXCEPT !["reply"] = generateSendString(m)]
    BY DEF process, send
  <2> QED BY <2>1, EndsAre DEF FramingInv, FramingTypeOK
<1>6. Pending("request")' = Pending("request")
  BY <1>1, <1>5, DirectionIs, PendingAfter, EndsAre
<1>7. Underway("request")' = Len(Frames[Pending("request")])
  <2>1. Underway("request")' = Len(Frames[Pending("request")]) + 0
    BY <1>2, <1>6, Zenon DEF Underway
  <2> QED BY <1>4, <2>1
<1>8. CASE UNCHANGED unsent
  <2>1. Pending("reply")' = Pending("reply")
    BY <1>1, <1>8, DirectionIs, PendingAfter, EndsAre
  <2>2. Underway("reply")' = Underway("reply")
    BY <1>2, <2>1, ZenonT(30) DEF Underway
  <2>3. FramingTypeOK' /\ RequestTakenWhole' /\ EndsHold'
    <3>1. FramingTypeOK'
      BY <1>1, <1>8, Zenon DEF FramingInv, FramingTypeOK
    <3> QED BY <1>1, <1>2, <1>8, <3>1, EndsAre DEF FramingInv, RequestTakenWhole, EndsHold
  <2>4. WholeFrames'
    BY <1>1, <1>6, <2>1 DEF FramingInv, WholeFrames
  <2>5. AllAwaited'
    BY <1>1, <1>4, <1>7, <2>2 DEF FramingInv, AllAwaited
  <2>6. Queues' = Queues
    BY <1>6, <2>1, EndsAre DEF Queues
  <2>7. C!Handle("request")
    BY <1>1, <2>6 DEF C!Handle, Queues
  <2> QED BY <2>3, <2>4, <2>5, <2>7, SMTT(30) DEF FramingInv
<1>9. CASE \E m \in Message : send(m)
  <2>1. PICK m \in Message : unsent' = [unsent EXCEPT !["reply"] = generateSendString(m)]
    BY <1>9, Zenon DEF send
  <2> DEFINE f == generateSendString(m)
  <2>2. f \in Seq(Byte)
    BY FrameIs
  <2>3. unsent'["reply"] = f
    BY <2>1, EndsAre DEF FramingInv, FramingTypeOK
  <2> HIDE DEF f
  <2>4. FramingTypeOK' /\ RequestTakenWhole' /\ EndsHold'
    <3>1. FramingTypeOK'
      BY <1>1, <2>1, <2>2, Zenon DEF FramingInv, FramingTypeOK, f
    <3>2. RequestTakenWhole'
      BY <1>5 DEF FramingInv, RequestTakenWhole
    <3> QED BY <1>1, <1>2, <1>3, <1>5, <3>1, <3>2, EndsAre DEF FramingInv, EndsHold
  <2>5. CASE "program" \in open
    <3>1. Pending("reply")' = Pending("reply") \o f
      <4> DEFINE sz == size["reply"]
                 b == buffer["reply"]
                 w == wire["reply"]
      <4>1. sz \in SizeOrNull /\ b \in Seq(Byte) /\ w \in Seq(Byte) /\ Pending("reply") = Join(sz, b, w, <<>>)
        BY <1>3, <2>5, DirectionIs, EndsAre, SMTT(30)
      <4>2. Pending("reply")' = Join(sz, b, w, f)
        BY <1>1, <2>3, <2>5, PendingAfter, EndsAre
      <4> HIDE DEF sz, b, w
      <4>3. Join(sz, b, w, f) = Join(sz, b, w, <<>>) \o f
        BY <2>2, <4>1, JoinAppend, Zenon
      <4> QED BY <4>1, <4>2, <4>3, ZenonT(30)
    <3>2. Pending("request") \in Whole(Request) /\ Pending("reply") \in Whole(Message) /\ open = {"program", "daemon"}
      <4>1. open = {"program", "daemon"}
        BY <1>3, <2>5, Zenon DEF FramingInv, FramingTypeOK
      <4> QED BY <4>1 DEF FramingInv, WholeFrames
    <3>3. /\ Pending("reply")' \in Whole(Message)
          /\ Frames[Pending("reply")'] = Append(Frames[Pending("reply")], m)
          /\ Len(Frames[Pending("reply")']) = Len(Frames[Pending("reply")]) + 1
      <4>1. "reply" \in Direction /\ Receiver("reply") \in open /\ Message \subseteq Message
        BY <2>5, EndsAre
      <4> QED BY <3>1, <3>2, <4>1, MessageAppended, Zenon DEF f
    <3>4. WholeFrames'
      BY <1>6, <3>2, <3>3, Zenon DEF WholeFrames
    <3>5. AllAwaited'
      <4>1. Underway("reply")' = Underway("reply") + 1
        <5> DEFINE n == Len(Frames[Pending("reply")])
        <5>1. Underway("reply")' = (n + 1) + (IF inbox["reply"] = Null THEN 0 ELSE 1)
          BY <1>2, <3>3, Zenon DEF Underway
        <5>2. Underway("reply") = n + (IF inbox["reply"] = Null THEN 0 ELSE 1)
          BY Zenon DEF Underway
        <5>3. n \in Nat
          BY <1>4
        <5> HIDE DEF n
        <5> QED BY <5>1, <5>2, <5>3
      <4> QED BY <1>1, <1>4, <1>7, <4>1 DEF FramingInv, AllAwaited
    <3>6. Queues' = [Queues EXCEPT !["reply"] = Append(Queues["reply"], m)]
      <4>1. \A c \in Direction \ {"reply"} : Pending(c)' = Pending(c)
        BY <1>6, EndsAre
      <4>2. "reply" \in Direction /\ Frames[Pending("reply")'] = Append(Queues["reply"], m)
        BY <3>3, EndsAre, QueuesAre
      <4> QED BY <4>1, <4>2, QueuesExcept
    <3>7. C!Handle("request")
      BY <1>1, <3>6, Zenon DEF C!Handle, Queues
    <3> QED BY <2>4, <3>4, <3>5, <3>7 DEF FramingInv
  <2>6. CASE "program" \notin open
    <3>1. Pending("reply")' = Pending("reply")
      BY <1>1, <2>6, DirectionIs, PendingAfter, EndsAre, SMTT(30)
    <3>2. WholeFrames' /\ AllAwaited'
      BY <1>1, <2>6 DEF WholeFrames, AllAwaited
    <3>3. Queues' = Queues
      BY <1>6, <3>1, EndsAre DEF Queues
    <3>4. C!Handle("request")
      BY <1>1, <3>3 DEF C!Handle, Queues
    <3> QED BY <2>4, <3>2, <3>4 DEF FramingInv
  <2> QED BY <2>5, <2>6
<1> QED BY <1>8, <1>9 DEF process

\* Where the frames on their way are fewer than the callers, there is room for another.
LEMMA RoomForOne ==
  ASSUME NEW callers \in Nat \ {0}, NEW capacity \in Nat, NEW k \in Nat, k < callers,
         NEW p \in Nat, callers * p <= k * capacity, NEW f \in Nat, callers * f <= capacity
  PROVE  p + f <= capacity
<1>1. k * capacity <= (callers - 1) * capacity
  <2>1. callers - 1 - k \in Nat
    OBVIOUS
  <2>2. (callers - 1 - k) * capacity \in Nat
    BY <2>1
  <2>3. (callers - 1) * capacity = k * capacity + (callers - 1 - k) * capacity
    OBVIOUS
  <2>4. k * capacity \in Nat /\ (callers - 1) * capacity \in Int
    OBVIOUS
  <2> QED BY <2>2, <2>3, <2>4
<1>2. (callers - 1) * capacity = callers * capacity - capacity
  OBVIOUS
<1>3. callers * (p + f) = callers * p + callers * f
  OBVIOUS
<1>4. callers * (p + f) <= callers * capacity
  <2>1. k * capacity \in Int /\ callers * capacity \in Int /\ callers * p \in Int /\ callers * f \in Int
    OBVIOUS
  <2> QED BY <1>1, <1>2, <1>3, <2>1
<1>5. ASSUME p + f > capacity PROVE FALSE
  <2>1. (p + f) - capacity \in Nat \ {0}
    BY <1>5
  <2>2. callers * ((p + f) - capacity) = callers * (p + f) - callers * capacity
    OBVIOUS
  <2>3. callers * ((p + f) - capacity) > 0
    <3> DEFINE e == (p + f) - capacity
    <3>1. e \in Nat \ {0}
      BY <2>1
    <3> HIDE DEF e
    <3>2. callers * e > 0
      BY <3>1
    <3> QED BY <3>2 DEF e
  <2>4. callers * (p + f) \in Int /\ callers * capacity \in Int
    OBVIOUS
  <2> QED BY <1>4, <2>2, <2>3, <2>4
<1> QED BY <1>5

\* Of a string that is written there is no rest.
LEMMA NoBytes ==
  ASSUME NEW S, NEW rest \in [1..0 -> S]
  PROVE  rest = <<>>
<1>1. rest \in Seq(S) /\ Len(rest) = 0
  OBVIOUS
<1> QED BY <1>1

\* A request is sent: the kernel has room for it, and it is queued behind the others.
LEMMA AsyncSendStep ==
  ASSUME FramingInv, NEW m \in Request, asyncSend(m)
  PROVE  FramingInv' /\ (C!Send("request", m) \/ UNCHANGED C!channelVars)
<1> DEFINE f == generateSendString(m)
           n == Smaller(Room("request"), Len(f))
<1>1. "program" \in open /\ waiting < Callers /\ waiting' = waiting + 1 /\ UNCHANGED <<open, buffer, size, inbox>>
  BY DEF asyncSend, AwaitReply, readVars
<1>2. unsent["request"] = <<>>
  BY DEF FramingInv, RequestTakenWhole
<1>3. "request" \in Direction /\ "reply" \in Direction
  BY EndsAre
<1>4. /\ Underway("request") \in Nat /\ Underway("reply") \in Nat /\ waiting \in Nat
      /\ Underway("request") + Underway("reply") <= waiting
      /\ Len(Frames[Pending("request")]) \in Nat /\ Len(Frames[Pending("request")]) <= Underway("request")
  <2>1. Underway("request") + Underway("reply") <= waiting
    BY <1>1 DEF FramingInv, AllAwaited
  <2> QED BY <1>3, <2>1, UnderwayIs, DirectionIs
<1>5. CASE "daemon" \in open
  <2> DEFINE sz == size["request"]
             b == buffer["request"]
             w == wire["request"]
             P == Pending("request")
  <2>1. m \in Message /\ f \in Seq(Byte) /\ Len(f) \in Nat /\ Callers * Len(f) <= Capacity
    <3>1. m \in Message /\ Callers * (MESSAGE_SIZE_LENGTH + Len(Serialized[m])) <= Capacity
      BY FramingAssumption
    <3>2. f \in Seq(Byte) /\ Len(f) = MESSAGE_SIZE_LENGTH + Len(Serialized[m])
      BY <3>1, FrameIs
    <3> HIDE DEF f
    <3>3. Len(f) \in Nat
      BY <3>2, SMTT(30)
    <3> QED BY <3>1, <3>2, <3>3
  <2>2. sz \in SizeOrNull /\ b \in Seq(Byte) /\ w \in Seq(Byte) /\ P = Join(sz, b, w, <<>>) /\ P \in Seq(Byte)
    BY <1>2, <1>3, <1>5, DirectionIs, EndsAre
  <2>3. open = {"program", "daemon"} /\ P \in Whole(Request) /\ Pending("reply") \in Whole(Message)
    <3>1. open = {"program", "daemon"}
      BY <1>1, <1>5, Zenon DEF FramingInv, FramingTypeOK
    <3> QED BY <3>1 DEF FramingInv, WholeFrames
  <2>4. Callers * Len(P) <= Len(Frames[P]) * Capacity
    BY <2>3, WholeLength
  <2>5. wire' = [wire EXCEPT !["request"] = @ \o SubSeq(f, 1, n)]
        /\ \E rest \in [1..Len(f) - n -> Byte] : unsent' = [unsent EXCEPT !["request"] = rest]
    BY <1>5, Zenon DEF asyncSend
  <2>6. Len(w) \in Nat /\ Len(P) \in Nat /\ Len(w) <= Len(P)
    <3>1. <<>> \in Seq(Byte)
      OBVIOUS
    <3>2. Len(w) <= Len(Join(sz, b, w, <<>>))
      BY <2>2, <3>1, JoinIs, Zenon
    <3> HIDE DEF w, P, sz, b
    <3> QED BY <2>2, <3>2
  <2> HIDE DEF f, P, w, sz, b
  <2>7. Len(P) + Len(f) <= Capacity
    <3> DEFINE k == Len(Frames[P])
    <3>1. k \in Nat /\ k < Callers /\ Callers * Len(P) <= k * Capacity
      BY <1>1, <1>4, <2>4, FramingAssumption DEF P
    <3>2. Callers \in Nat \ {0} /\ Capacity \in Nat
      BY FramingAssumption
    <3> HIDE DEF k
    <3> QED BY <2>1, <2>6, <3>1, <3>2, RoomForOne
  <2>8. n = Len(f)
    <3>1. Room("request") = Capacity - Len(w)
      BY DEF Room, w
    <3> QED BY <2>1, <2>6, <2>7, <3>1, FramingAssumption DEF Smaller
  <2> HIDE DEF n
  <2>9. wire' = [wire EXCEPT !["request"] = w \o f]
    <3>1. SubSeq(f, 1, n) = f
      BY <2>1, <2>8, SubSeqFull
    <3> QED BY <2>5, <3>1, Zenon DEF w
  <2>10. unsent' = [unsent EXCEPT !["request"] = <<>>]
    <3>1. Len(f) - n = 0
      BY <2>1, <2>8
    <3> QED BY <2>5, <3>1, NoBytes, Zenon
  <2>11. w \o f \in Seq(Byte) /\ Len(w \o f) <= Capacity
    <3>1. w \o f \in Seq(Byte) /\ Len(w \o f) = Len(w) + Len(f)
      BY <2>1, <2>2
    <3> QED BY <2>1, <2>6, <2>7, <3>1, FramingAssumption
  <2>12. wire'["request"] = w \o f /\ wire'["reply"] = wire["reply"] /\ unsent'["request"] = <<>> /\ unsent'["reply"] = unsent["reply"]
    BY <2>9, <2>10, EndsAre DEF FramingInv, FramingTypeOK
  <2>13. FramingTypeOK'
    <3>1. waiting' \in 0..Callers
      BY <1>1, <1>4, FramingAssumption
    <3> DEFINE v == w \o f
    <3>2. wire' = [wire EXCEPT !["request"] = v] /\ v \in Seq(Byte) /\ Len(v) <= Capacity /\ <<>> \in Seq(Byte)
      BY <2>9, <2>11
    <3> HIDE DEF v
    <3> QED BY <1>1, <2>10, <3>1, <3>2, Zenon DEF FramingInv, FramingTypeOK
  <2>14. RequestTakenWhole' /\ EndsHold'
    BY <1>1, <1>2, <2>12, EndsAre, SMTT(30) DEF FramingInv, RequestTakenWhole, EndsHold
  <2>15. Pending("reply")' = Pending("reply")
    BY <1>1, <2>12, DirectionIs, PendingAfter, EndsAre
  <2>16. Pending("request")' = P \o f
    <3>1. Pending("request")' = Join(sz, b, w \o f, <<>>)
      BY <1>1, <1>5, <2>12, PendingAfter, EndsAre, Zenon DEF sz, b
    <3>2. Join(sz, b, w \o f, <<>>) = Join(sz, b, w, <<>>) \o f
      <4>1. sz \in SizeOrNull /\ b \in Seq(Byte) /\ w \in Seq(Byte) /\ f \in Seq(Byte)
        BY <2>1, <2>2
      <4> QED BY <4>1, JoinAppend, Zenon
    <3> QED BY <2>2, <3>1, <3>2, Zenon
  <2>17. /\ Pending("request")' \in Whole(Request)
         /\ Frames[Pending("request")'] = Append(Frames[Pending("request")], m)
         /\ Len(Frames[Pending("request")']) = Len(Frames[Pending("request")]) + 1
    <3>1. Receiver("request") \in open /\ Request \subseteq Message
      BY <1>5, EndsAre, FramingAssumption
    <3> QED BY <1>3, <2>3, <2>16, <3>1, MessageAppended, Zenon DEF f, P
  <2>18. WholeFrames'
    BY <2>3, <2>15, <2>17, Zenon DEF WholeFrames
  <2>19. AllAwaited'
    <3>1. Underway("reply")' = Underway("reply")
      BY <1>1, <2>15, Zenon DEF Underway
    <3>2. Underway("request")' = Underway("request") + 1
      <4> DEFINE k == Len(Frames[Pending("request")])
      <4>1. Underway("request")' = (k + 1) + (IF inbox["request"] = Null THEN 0 ELSE 1)
        BY <1>1, <2>17, Zenon DEF Underway
      <4>2. Underway("request") = k + (IF inbox["request"] = Null THEN 0 ELSE 1)
        BY Zenon DEF Underway
      <4>3. k \in Nat
        BY <1>4
      <4> HIDE DEF k
      <4> QED BY <4>1, <4>2, <4>3
    <3> QED BY <1>1, <1>4, <3>1, <3>2 DEF AllAwaited
  <2>20. C!Send("request", m)
    <3>1. Queues' = [Queues EXCEPT !["request"] = Append(Queues["request"], m)]
      <4>1. \A c \in Direction \ {"request"} : Pending(c)' = Pending(c)
        BY <2>15, EndsAre
      <4>2. Frames[Pending("request")'] = Append(Queues["request"], m)
        BY <1>3, <2>17, QueuesAre
      <4> QED BY <1>3, <4>1, <4>2, QueuesExcept
    <3> QED BY <1>1, <3>1 DEF C!Send, Queues
  <2> QED BY <2>13, <2>14, <2>18, <2>19, <2>20, SMTT(30) DEF FramingInv
<1>6. CASE "daemon" \notin open
  <2>1. UNCHANGED <<wire, unsent>>
    BY <1>6 DEF asyncSend
  <2>2. FramingTypeOK' /\ RequestTakenWhole' /\ EndsHold'
    <3>1. waiting' \in 0..Callers
      BY <1>1, <1>4, FramingAssumption
    <3> QED BY <1>1, <2>1, <3>1, SMTT(30) DEF FramingInv, FramingTypeOK, RequestTakenWhole, EndsHold
  <2>3. ASSUME NEW c \in Direction PROVE Pending(c)' = Pending(c)
    BY <1>1, <2>1, DirectionIs, PendingAfter
  <2>4. Pending("request")' = Pending("request") /\ Pending("reply")' = Pending("reply")
    BY <2>3, EndsAre
  <2>5. WholeFrames'
    BY <1>1, <2>4 DEF FramingInv, WholeFrames
  <2>6. AllAwaited'
    <3>1. Underway("request")' = Underway("request") /\ Underway("reply")' = Underway("reply")
      BY <1>1, <2>4, Zenon DEF Underway
    <3> QED BY <1>1, <1>4, <3>1 DEF AllAwaited
  <2>7. UNCHANGED C!channelVars
    <3>1. Queues' = Queues
      BY <2>3 DEF Queues
    <3> QED BY <1>1, <3>1 DEF C!channelVars, Queues
  <2> QED BY <2>2, <2>5, <2>6, <2>7 DEF FramingInv
<1> QED BY <1>5, <1>6

\* The frames of bytes that are cut short, or of none.
LEMMA CutIs ==
  ASSUME FramingInv, NEW d \in Direction,
         \/ Pending(d)' = <<>>
         \/ Pending(d)' = Pending(d)
         \/ /\ Pending(d) = Join(size[d], buffer[d], wire[d], unsent[d])
            /\ Pending(d)' = Join(size[d], buffer[d], wire[d], <<>>)
  PROVE  /\ \E n \in 0..Len(Frames[Pending(d)]) : Frames[Pending(d)'] = SubSeq(Frames[Pending(d)], 1, n)
         /\ Len(Frames[Pending(d)']) \in Nat /\ Len(Frames[Pending(d)']) <= Len(Frames[Pending(d)])
<1> DEFINE q == Frames[Pending(d)]
           s == Frames[Pending(d)']
<1>1. q \in Seq(Parsed) /\ Len(q) \in Nat
  BY DirectionIs, SMTT(30)
<1>2. \E n \in 0..Len(q) : s = SubSeq(q, 1, n)
  <2>1. CASE Pending(d)' = <<>>
    <3>1. s = <<>>
      BY <2>1, EmptyFrames, Zenon
    <3> HIDE DEF q
    <3>2. SubSeq(q, 1, 0) = <<>> /\ 0 \in 0..Len(q)
      <4>1. SubSeq(q, 1, 0) = <<>>
        BY <1>1, SubSeqEmpty
      <4> QED BY <1>1, <4>1
    <3> QED BY <3>1, <3>2
  <2>2. CASE Pending(d)' = Pending(d)
    <3>1. s = q
      BY <2>2, Zenon
    <3> HIDE DEF q, s
    <3>2. SubSeq(q, 1, Len(q)) = q /\ Len(q) \in 0..Len(q)
      BY <1>1, SubSeqFull
    <3> QED BY <3>1, <3>2, Zenon
  <2>3. CASE /\ Pending(d) = Join(size[d], buffer[d], wire[d], unsent[d])
             /\ Pending(d)' = Join(size[d], buffer[d], wire[d], <<>>)
    <3>1. size[d] \in SizeOrNull /\ buffer[d] \in Seq(Byte) /\ wire[d] \in Seq(Byte) /\ unsent[d] \in Seq(Byte)
      BY DirectionIs
    <3>2. \E n \in 0..Len(Frames[Join(size[d], buffer[d], wire[d], unsent[d])]) :
             Frames[Join(size[d], buffer[d], wire[d], <<>>)] = SubSeq(Frames[Join(size[d], buffer[d], wire[d], unsent[d])], 1, n)
      BY <3>1, JoinCut, ZenonT(30)
    <3> QED BY <2>3, <3>2, ZenonT(30)
  <2> QED BY <2>1, <2>2, <2>3
<1> HIDE DEF q, s
<1>3. PICK n \in 0..Len(q) : s = SubSeq(q, 1, n)
  BY <1>2
<1>4. Len(s) = n
  BY <1>1, <1>3, SMTT(30)
<1>5. Len(s) \in Nat /\ Len(s) <= Len(q)
  BY <1>1, <1>4
<1> QED BY <1>2, <1>5, ZenonT(30) DEF q, s

\* An end is closed: a part of a frame may be lost, and the frames behind it.
LEMMA CloseEndStep ==
  ASSUME FramingInv, NEW e \in {"program", "daemon"}, CloseEnd(e)
  PROVE  FramingInv' /\ C!Close
<1>1. /\ e \in open /\ open' = open \ {e} /\ waiting' = IF e = "program" THEN 0 ELSE waiting
      /\ \A d \in Direction :
           /\ unsent'[d] = IF Sender(d) = e THEN <<>> ELSE unsent[d]
           /\ wire'[d] = IF Receiver(d) = e THEN <<>> ELSE wire[d]
           /\ buffer'[d] = IF Receiver(d) = e THEN <<>> ELSE buffer[d]
           /\ size'[d] = IF Receiver(d) = e THEN Null ELSE size[d]
           /\ inbox'[d] = IF Receiver(d) = e THEN Null ELSE inbox[d]
  BY DEF CloseEnd
<1>2. FramingTypeOK'
  <2>1. <<>> \in Seq(Byte) /\ Len(<<>>) = 0 /\ Capacity \in Nat /\ Callers \in Nat
    BY FramingAssumption
  <2>2. unsent' \in [Direction -> Seq(Byte)]
    BY <2>1 DEF CloseEnd, FramingInv, FramingTypeOK
  <2>3. wire' \in [Direction -> Seq(Byte)] /\ \A d \in Direction : Len(wire'[d]) <= Capacity
    BY <2>1 DEF CloseEnd, FramingInv, FramingTypeOK
  <2>4. buffer' \in [Direction -> Seq(Byte)]
    BY <2>1 DEF CloseEnd, FramingInv, FramingTypeOK
  <2>5. size' \in [Direction -> Nat \cup {Null}] /\ inbox' \in [Direction -> Message \cup {Null, Unparsed}]
    BY DEF CloseEnd, FramingInv, FramingTypeOK
  <2>6. waiting' \in 0..Callers /\ open' \subseteq {"program", "daemon"}
    BY <1>1, <2>1 DEF FramingInv, FramingTypeOK
  <2> QED BY <2>2, <2>3, <2>4, <2>5, <2>6 DEF FramingTypeOK
<1>3. RequestTakenWhole'
  BY <1>1, EndsAre DEF FramingInv, RequestTakenWhole
<1>4. EndsHold'
  <2>1. inbox'["request"] # Null => unsent'["reply"] = <<>>
    BY <1>1, EndsAre DEF FramingInv, EndsHold
  <2>2. ASSUME NEW d \in Direction
        PROVE  /\ size'[d] \in SizeOrNull
               /\ Receiver(d) \notin open' => inbox'[d] = Null
               /\ Sender(d) \notin open' => unsent'[d] = <<>>
    <3>1. Null \in SizeOrNull
      BY DEF SizeOrNull
    <3> QED BY <1>1, <3>1 DEF FramingInv, EndsHold
  <2> QED BY <2>1, <2>2 DEF EndsHold, Receiver, Sender
<1>5. WholeFrames'
  BY <1>1, SMTT(30) DEF WholeFrames
<1>6. ASSUME NEW d \in Direction
      PROVE  \/ Pending(d)' = <<>>
             \/ Pending(d)' = Pending(d)
             \/ /\ Pending(d) = Join(size[d], buffer[d], wire[d], unsent[d])
                /\ Pending(d)' = Join(size[d], buffer[d], wire[d], <<>>)
  <2>1. CASE Receiver(d) \notin open'
    BY <2>1, PendingAfter, ZenonT(30)
  <2>2. CASE Receiver(d) \in open'
    <3>1. Receiver(d) \in open /\ Receiver(d) # e /\ Sender(d) = e
      BY <1>1, <2>2, EndsAre
    <3>2. Pending(d) = Join(size[d], buffer[d], wire[d], unsent[d])
      BY <3>1, DirectionIs
    <3>3. Pending(d)' = Join(size[d], buffer[d], wire[d], <<>>)
      <4>1. size'[d] = size[d] /\ buffer'[d] = buffer[d] /\ wire'[d] = wire[d] /\ unsent'[d] = <<>>
        BY <1>1, <3>1, Zenon
      <4> QED BY <2>2, <4>1, PendingAfter, Zenon
    <3> QED BY <3>2, <3>3
  <2> QED BY <2>1, <2>2
<1>7. ASSUME NEW d \in Direction
      PROVE  /\ \E n \in 0..Len(Frames[Pending(d)]) : Frames[Pending(d)'] = SubSeq(Frames[Pending(d)], 1, n)
             /\ Len(Frames[Pending(d)']) \in Nat /\ Len(Frames[Pending(d)']) <= Len(Frames[Pending(d)])
  BY <1>6, CutIs, Zenon
<1>8. AllAwaited'
  <2> SUFFICES ASSUME "program" \in open' PROVE Underway("request")' + Underway("reply")' <= waiting'
    BY DEF AllAwaited
  <2>1. e = "daemon" /\ "program" \in open /\ waiting' = waiting
    BY <1>1
  <2>2. "request" \in Direction /\ "reply" \in Direction
    BY EndsAre
  <2>3. Underway("request")' = 0
    <3>1. Pending("request")' = <<>> /\ inbox'["request"] = Null
      BY <1>1, <2>1, <2>2, PendingAfter, EndsAre, Zenon
    <3>2. Underway("request")' = Len(<<>>) + 0
      BY <3>1, EmptyFrames, Zenon DEF Underway
    <3> QED BY <3>2
  <2>4. Underway("reply")' \in Nat /\ Underway("reply")' <= Underway("reply")
    <3> DEFINE i == IF inbox["reply"] = Null THEN 0 ELSE 1
               j == Len(Frames[Pending("reply")])
               k == Len(Frames[Pending("reply")'])
    <3>1. inbox'["reply"] = inbox["reply"]
      BY <1>1, <2>1, <2>2, EndsAre, Zenon
    <3>2. Underway("reply")' = k + i /\ Underway("reply") = j + i
      BY <3>1, Zenon DEF Underway
    <3>3. j \in Nat /\ k \in Nat /\ k <= j
      BY <1>7, <2>2, DirectionIs
    <3>4. i \in Nat
      OBVIOUS
    <3> HIDE DEF i, j, k
    <3> QED BY <3>2, <3>3, <3>4
  <2>5. Underway("request") \in Nat /\ Underway("reply") \in Nat /\ waiting \in Nat /\ Underway("request") + Underway("reply") <= waiting
    BY <2>1, <2>2, UnderwayIs DEF FramingInv, AllAwaited
  <2> QED BY <2>1, <2>3, <2>4, <2>5
<1>9. C!Close
  <2>1. ASSUME NEW d \in Direction
        PROVE  (\E n \in 0..Len(Queues[d]) : Queues'[d] = SubSeq(Queues[d], 1, n)) /\ inbox'[d] \in {inbox[d], Null}
    BY <1>1, <1>7, QueuesAre, SMTT(30)
  <2>2. open' \subseteq open /\ open' # {"program", "daemon"}
    BY <1>1
  <2> QED BY <2>1, <2>2 DEF C!Close, C!Direction, C!End, Direction, Queues
<1> QED BY <1>2, <1>3, <1>4, <1>5, <1>8, <1>9, SMTT(30) DEF FramingInv

\* The program begins to read again when the daemon has closed its end.
LEMMA RereadStep ==
  ASSUME FramingInv, Reads("reply"), wire["reply"] = <<>>, "daemon" \notin open,
         buffer' = [buffer EXCEPT !["reply"] = <<>>], size' = [size EXCEPT !["reply"] = Null],
         UNCHANGED <<unsent, wire, open, inbox, waiting>>
  PROVE  FramingInv' /\ C!Close
<1>1. "request" \in Direction /\ "reply" \in Direction
  BY EndsAre
<1>2. "program" \in open /\ unsent["reply"] = <<>>
  BY <1>1, EndsAre DEF FramingInv, EndsHold, Reads
<1>3. buffer'["reply"] = <<>> /\ size'["reply"] = Null /\ buffer'["request"] = buffer["request"] /\ size'["request"] = size["request"]
  BY <1>1 DEF FramingInv, FramingTypeOK
<1>4. FramingTypeOK'
  BY Zenon DEF FramingInv, FramingTypeOK
<1>5. RequestTakenWhole' /\ EndsHold'
  BY <1>3, EndsAre, SMTT(30) DEF FramingInv, RequestTakenWhole, EndsHold, SizeOrNull
<1>6. WholeFrames'
  BY DEF WholeFrames
<1>7. Pending("request") = <<>> /\ Pending("request")' = <<>>
  BY <1>1, DirectionIs, PendingAfter, EndsAre
<1>8. Pending("reply")' = <<>>
  <2>1. Pending("reply")' = Join(Null, <<>>, <<>>, <<>>)
    BY <1>1, <1>2, <1>3, PendingAfter, EndsAre
  <2>2. <<>> \o <<>> = <<>>
    BY ConcatEmptySeq
  <2> QED BY <2>1, <2>2 DEF Join, SizeRead
<1>9. ASSUME NEW d \in Direction
      PROVE  /\ \E n \in 0..Len(Frames[Pending(d)]) : Frames[Pending(d)'] = SubSeq(Frames[Pending(d)], 1, n)
             /\ Len(Frames[Pending(d)']) \in Nat /\ Len(Frames[Pending(d)']) <= Len(Frames[Pending(d)])
  <2>1. Pending(d)' = <<>>
    BY <1>7, <1>8, EndsAre
  <2> QED BY <2>1, CutIs, Zenon
<1>10. AllAwaited'
  <2>1. ASSUME NEW d \in Direction PROVE Underway(d)' \in Nat /\ Underway(d)' <= Underway(d)
    <3> DEFINE i == IF inbox[d] = Null THEN 0 ELSE 1
               j == Len(Frames[Pending(d)])
               k == Len(Frames[Pending(d)'])
    <3>1. Underway(d)' = k + i /\ Underway(d) = j + i
      BY Zenon DEF Underway
    <3>2. j \in Nat /\ k \in Nat /\ k <= j
      BY <1>9, DirectionIs
    <3>3. i \in Nat
      OBVIOUS
    <3> HIDE DEF i, j, k
    <3> QED BY <3>1, <3>2, <3>3
  <2>2. Underway("request") \in Nat /\ Underway("reply") \in Nat /\ waiting \in Nat /\ Underway("request") + Underway("reply") <= waiting
    BY <1>1, <1>2, UnderwayIs DEF FramingInv, AllAwaited
  <2>3. Underway("request")' + Underway("reply")' <= waiting'
    BY <1>1, <2>1, <2>2
  <2> QED BY <2>3 DEF AllAwaited
<1>11. C!Close
  <2>1. ASSUME NEW d \in Direction
        PROVE  (\E n \in 0..Len(Queues[d]) : Queues'[d] = SubSeq(Queues[d], 1, n)) /\ inbox'[d] \in {inbox[d], Null}
    BY <1>9, QueuesAre
  <2>2. open' \subseteq open /\ open' # {"program", "daemon"}
    OBVIOUS
  <2> QED BY <2>1, <2>2 DEF C!Close, C!Direction, C!End, Direction, Queues
<1> QED BY <1>4, <1>5, <1>6, <1>10, <1>11 DEF FramingInv

\* The invariant holds at first, and the queues are empty.
LEMMA FramingStart == FramingInit => FramingInv /\ C!ChannelInit
<1> SUFFICES ASSUME FramingInit PROVE FramingInv /\ C!ChannelInit
  OBVIOUS
<1>1. /\ open = {"program", "daemon"} /\ waiting = 0
      /\ \A d \in Direction : unsent[d] = <<>> /\ wire[d] = <<>> /\ buffer[d] = <<>> /\ size[d] = Null /\ inbox[d] = Null
  BY DEF FramingInit, None
<1>2. FramingTypeOK
  <2>1. <<>> \in Seq(Byte) /\ Len(<<>>) = 0 /\ Capacity \in Nat /\ Callers \in Nat
    BY FramingAssumption
  <2> QED BY <2>1 DEF FramingInit, None, FramingTypeOK
<1>3. RequestTakenWhole /\ EndsHold
  BY <1>1, EndsAre DEF RequestTakenWhole, EndsHold, SizeOrNull
<1>4. ASSUME NEW d \in Direction PROVE Pending(d) = <<>>
  <2>1. Pending(d) = Join(Null, <<>>, <<>>, <<>>)
    BY <1>1, EndsAre DEF Pending, Join, SizeRead
  <2>2. <<>> \o <<>> = <<>>
    BY ConcatEmptySeq
  <2> QED BY <2>1, <2>2, SMTT(30) DEF Join, SizeRead
<1>5. WholeFrames
  <2>1. Request \subseteq Message /\ Message \subseteq Message
    BY FramingAssumption
  <2>2. <<>> \in Whole(Request) /\ <<>> \in Whole(Message)
    BY <2>1, WholeClosed DEF Closed
  <2> QED BY <1>4, <2>2, EndsAre DEF WholeFrames
<1>6. ASSUME NEW d \in Direction PROVE Frames[Pending(d)] = <<>>
  BY <1>4, EmptyFrames, Zenon
<1>7. AllAwaited
  <2>1. ASSUME NEW d \in Direction PROVE Underway(d) = 0
    <3>1. Underway(d) = Len(<<>>) + 0
      BY <1>1, <1>6, Zenon DEF Underway
    <3> QED BY <3>1
  <2> QED BY <1>1, <2>1, EndsAre DEF AllAwaited
<1>8. C!ChannelInit
  <2>1. Queues = [d \in Direction |-> <<>>]
    BY <1>6 DEF Queues
  <2> QED BY <2>1 DEF C!ChannelInit, C!Direction, C!End, Direction, Queues, FramingInit
<1> QED BY <1>2, <1>3, <1>5, <1>7, <1>8 DEF FramingInv

\* A read meets the end of the stream.
LEMMA ReadErrorStep ==
  ASSUME FramingInv, NEW d \in Direction, readError(d)
  PROVE  FramingInv' /\ C!Close
<1>1. CASE d = "request" /\ CloseEnd("daemon")
  BY <1>1, CloseEndStep
<1>2. CASE /\ d = "reply"
           /\ buffer' = [buffer EXCEPT ![d] = <<>>] /\ size' = [size EXCEPT ![d] = Null]
           /\ UNCHANGED <<streamVars, inbox, waiting>>
  <2>1. Reads("reply") /\ wire["reply"] = <<>> /\ "daemon" \notin open
    BY <1>2, EndsAre DEF readError
  <2>2. UNCHANGED <<unsent, wire, open, inbox, waiting>>
    BY <1>2 DEF streamVars
  <2>3. buffer' = [buffer EXCEPT !["reply"] = <<>>] /\ size' = [size EXCEPT !["reply"] = Null]
    BY <1>2
  <2> QED BY <2>1, <2>2, <2>3, RereadStep
<1> QED BY <1>1, <1>2 DEF readError

\* Every step preserves the invariant, and is a step of the channel or none.
LEMMA FramingSteps ==
  ASSUME FramingInv, [FramingNext]_framingVars
  PROVE  FramingInv' /\ [C!ChannelNext]_C!channelVars
<1>1. ASSUME NEW m \in Request, asyncSend(m) PROVE FramingInv' /\ (C!ChannelNext \/ UNCHANGED C!channelVars)
  <2>1. m \in Message
    BY FramingAssumption
  <2>2. FramingInv' /\ (C!Send("request", m) \/ UNCHANGED C!channelVars)
    BY <1>1, AsyncSendStep
  <2> QED BY <2>1, <2>2 DEF C!ChannelNext, C!Direction
<1>2. CASE process
  BY <1>2, ProcessStep DEF C!ChannelNext, C!Direction
<1>3. CASE handleReply
  BY <1>3, ReplyStep DEF C!ChannelNext, C!Direction
<1>4. CASE writeError
  BY <1>4, CloseEndStep DEF writeError, C!ChannelNext
<1>5. ASSUME NEW d \in Direction, write_some(d) \/ read_some(d) \/ handleReceiveSize(d)
      PROVE  FramingInv' /\ UNCHANGED C!channelVars
  BY <1>5, WriteStep, ReadStep, SizeStep
<1>6. ASSUME NEW d \in Direction, handleReceive(d) PROVE FramingInv' /\ C!ChannelNext
  BY <1>6, ReceiveStep DEF C!ChannelNext, C!Direction, Direction
<1>7. ASSUME NEW d \in Direction, readError(d) PROVE FramingInv' /\ C!ChannelNext
  BY <1>7, ReadErrorStep DEF C!ChannelNext
<1>8. ASSUME NEW e \in {"program", "daemon"}, CloseEnd(e) PROVE FramingInv' /\ C!ChannelNext
  BY <1>8, CloseEndStep DEF C!ChannelNext
<1>9. CASE UNCHANGED framingVars
  <2>1. UNCHANGED <<unsent, wire, open, buffer, size, inbox, waiting>>
    BY <1>9 DEF framingVars, streamVars, readVars
  <2>2. FramingTypeOK' /\ RequestTakenWhole' /\ EndsHold'
    BY <2>1, SMTT(30) DEF FramingInv, FramingTypeOK, RequestTakenWhole, EndsHold
  <2>3. ASSUME NEW d \in Direction PROVE Pending(d)' = Pending(d)
    BY <2>1, DirectionIs, PendingAfter
  <2> QED BY <2>1, <2>2, <2>3, BytesMove DEF FramingInv
<1> QED BY <1>1, <1>2, <1>3, <1>4, <1>5, <1>6, <1>7, <1>8, <1>9, SMTT(30) DEF FramingNext

\* The invariant holds.
LEMMA FramingInductive == FramingSpec => []FramingInv
<1>1. FramingInit => FramingInv
  BY FramingStart
<1>2. FramingInv /\ [FramingNext]_framingVars => FramingInv'
  BY FramingSteps
<1> QED BY <1>1, <1>2, PTL DEF FramingSpec

\* The variables of the socket keep their types; in particular the kernel never holds
\* more bytes of a direction than the socket has room for.
THEOREM FramingTypeCorrect == FramingSpec => []FramingTypeOK
<1>1. FramingInv => FramingTypeOK
  BY DEF FramingInv
<1> QED BY <1>1, FramingInductive, PTL

\* Whatever the messages, the number of threads and the room of the socket, if the socket
\* has room for a request of every thread, asyncSend() never leaves a part of a request to
\* be written from a string that is gone (UnixAPISocket.cpp:97).
THEOREM RequestsTakenWhole == FramingSpec => []RequestTakenWhole
<1>1. FramingInv => RequestTakenWhole
  BY DEF FramingInv
<1> QED BY <1>1, FramingInductive, PTL

\* Whatever the messages and however the kernel cuts their bytes, asyncSend(), send() and
\* asyncReceive() implement a queue of messages in each direction: each arrives whole, once
\* and in order, and those that are lost when an end is closed are the last ones.
THEOREM ChannelImplemented == FramingSpec => ChannelSpec
<1>1. FramingInit => C!ChannelInit
  BY FramingStart
<1>2. FramingInv /\ [FramingNext]_framingVars => [C!ChannelNext]_C!channelVars
  BY FramingSteps
<1> QED BY <1>1, <1>2, FramingInductive, PTL DEF FramingSpec, ChannelSpec, C!ChannelSpec
=============================================================================
