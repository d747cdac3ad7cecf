----------------------------- MODULE SumProofs -----------------------------
(* Facts about sums, and the form of induction that the proofs about the    *)
(* components use.                                                          *)
EXTENDS Sums, TLAPS, WellFoundedInduction

(* A non-empty set of numbers has a least one: induction in the form that   *)
(* the proofs need.                                                         *)
LEMMA Least ==
  ASSUME NEW T, T \subseteq Nat, T # {}
  PROVE  \E x \in T : \A y \in T : x <= y
<1> DEFINE R == OpToRel(<, Nat)
<1>1. IsWellFoundedOn(R, Nat)
  BY NatLessThanWellFounded
<1>2. \A x, y \in Nat : x < y => <<x, y>> \in R
  BY DEF OpToRel
<1> HIDE DEF R
<1>3. PICK x \in T : \A y \in T : ~(<<y, x>> \in R)
  BY <1>1, WFMin
<1>4. \A y \in T : ~(y < x)
  BY <1>2, <1>3
<1> QED  BY <1>3, <1>4

(* f lists the sums of the first 0, 1, ..., n numbers of q.                 *)
IsSums(f, q, n) == /\ f \in [0..n -> Nat] /\ f[0] = 0
                   /\ \A k \in 1..n : f[k] = f[k-1] + q[k]

(* The sums exist.                                                          *)
LEMMA SumsExist ==
  ASSUME NEW q \in Seq(Nat)
  PROVE  \E f : IsSums(f, q, Len(q))
<1> DEFINE T == {n \in 0..Len(q) : ~ \E f : IsSums(f, q, n)}
<1>1. SUFFICES ASSUME T # {} PROVE FALSE
  BY Len(q) \in 0..Len(q)
<1>2. PICK n \in T : \A m \in T : n <= m
  <2>1. T \subseteq Nat
    OBVIOUS
  <2> HIDE DEF T
  <2> QED  BY <1>1, <2>1, Least
<1>3. n # 0
  <2> DEFINE z == [k \in 0..0 |-> 0]
  <2>1. IsSums(z, q, 0)
    BY DEF IsSums
  <2> QED  BY <1>2, <2>1
<1>4. n \in Nat /\ n - 1 \in 0..Len(q) /\ n \in 1..Len(q) /\ n - 1 \notin T
  BY <1>2, <1>3
<1>5. PICK f : IsSums(f, q, n - 1)
  BY <1>4
<1> DEFINE g == [k \in 0..n |-> IF k = n THEN f[n-1] + q[n] ELSE f[k]]
<1>6. q[n] \in Nat /\ f \in [0..(n-1) -> Nat] /\ f[n-1] \in Nat
  BY <1>4, <1>5 DEF IsSums
<1>7. g \in [0..n -> Nat] /\ g[0] = 0 /\ g[n] = f[n-1] + q[n]
      /\ \A k \in 0..(n-1) : g[k] = f[k]
  <2>1. \A k \in 0..n : k = n \/ k \in 0..(n-1)
    BY <1>4
  <2>2. 0 \in 0..n /\ n \in 0..n /\ 0 # n /\ \A k \in 0..(n-1) : k \in 0..n /\ k # n
    BY <1>3, <1>4
  <2>3. g \in [0..n -> Nat]
    BY <1>6, <2>1
  <2> QED  BY <1>5, <2>2, <2>3 DEF IsSums
<1> HIDE DEF g
<1>8. \A k \in 1..n : g[k] = g[k-1] + q[k]
  <2> SUFFICES ASSUME NEW k \in 1..n PROVE g[k] = g[k-1] + q[k]
    OBVIOUS
  <2>1. CASE k = n
    BY <1>4, <1>7, <2>1
  <2>2. CASE k # n
    <3>1. k \in 1..(n-1) /\ k \in 0..(n-1) /\ k - 1 \in 0..(n-1)
      BY <1>4, <2>2
    <3> QED  BY <1>5, <1>7, <3>1 DEF IsSums
  <2> QED  BY <2>1, <2>2
<1>9. IsSums(g, q, n)
  BY <1>7, <1>8 DEF IsSums
<1> QED  BY <1>2, <1>9

(* Total() is the last of the sums.                                         *)
LEMMA TotalIsLast ==
  ASSUME NEW q \in Seq(Nat)
  PROVE  \E f : IsSums(f, q, Len(q)) /\ Total(q) = f[Len(q)]
<1> DEFINE F(f) == [k \in 0..Len(q) |-> IF k = 0 THEN 0 ELSE f[k-1] + q[k]]
<1>1. PICK e : IsSums(e, q, Len(q))
  BY SumsExist
<1>2. e = F(e)
  BY <1>1 DEF IsSums
<1> DEFINE u == CHOOSE f : f = F(f)
<1>3. u = F(u)
  BY <1>2
<1>4. Total(q) = u[Len(q)]
  BY DEF Total
<1> HIDE DEF u
<1>5. Len(q) \in Nat /\ u[0] = 0 /\ \A k \in 1..Len(q) : u[k] = u[k-1] + q[k]
  BY <1>3
<1> HIDE DEF F
<1>6. \A k \in 0..Len(q) : u[k] = e[k]
  <2> DEFINE T == {k \in 0..Len(q) : u[k] # e[k]}
  <2>1. SUFFICES ASSUME T # {} PROVE FALSE
    OBVIOUS
  <2>2. PICK n \in T : \A m \in T : n <= m
    <3>1. T \subseteq Nat
      OBVIOUS
    <3> HIDE DEF T
    <3> QED  BY <2>1, <3>1, Least
  <2>3. n # 0
    BY <1>1, <1>5, <2>2 DEF IsSums
  <2>4. n \in 1..Len(q) /\ n - 1 \in 0..Len(q) /\ n - 1 \notin T
    BY <1>5, <2>2, <2>3
  <2> QED  BY <1>1, <1>5, <2>2, <2>4 DEF IsSums
<1> QED  BY <1>1, <1>4, <1>5, <1>6

(* A sum is a number, 0 for the empty sequence.                             *)
LEMMA TotalIsNat ==
  ASSUME NEW q \in Seq(Nat)
  PROVE  Total(q) \in Nat /\ (q = <<>> => Total(q) = 0)
<1>1. PICK f : IsSums(f, q, Len(q)) /\ Total(q) = f[Len(q)]
  BY TotalIsLast
<1>2. Len(q) \in 0..Len(q) /\ (q = <<>> => Len(q) = 0)
  OBVIOUS
<1> QED  BY <1>1, <1>2 DEF IsSums

(* Sums of a sequence determine its sum, whatever function lists them.      *)
LEMMA TotalIs ==
  ASSUME NEW q \in Seq(Nat), NEW f, f[0] = 0,
         \A k \in 1..Len(q) : f[k] = f[k-1] + q[k]
  PROVE  Total(q) = f[Len(q)]
<1>1. PICK e : IsSums(e, q, Len(q)) /\ Total(q) = e[Len(q)]
  BY TotalIsLast
<1> DEFINE T == {k \in 0..Len(q) : f[k] # e[k]}
<1>2. CASE T = {}
  BY <1>1, <1>2, Len(q) \in 0..Len(q)
<1>3. CASE T # {}
  <2>2. PICK n \in T : \A m \in T : n <= m
    <3>1. T \subseteq Nat
      OBVIOUS
    <3> HIDE DEF T
    <3> QED  BY <1>3, <3>1, Least
  <2>3. n # 0
    BY <1>1, <2>2 DEF IsSums
  <2>4. n \in 1..Len(q) /\ n - 1 \in 0..Len(q) /\ n - 1 \notin T
    BY <2>2, <2>3
  <2> QED  BY <1>1, <2>2, <2>4 DEF IsSums
<1> QED  BY <1>2, <1>3

(* One number more, as when conn_output() adds a chunk to the queue.        *)
LEMMA TotalOfAppend ==
  ASSUME NEW q \in Seq(Nat), NEW x \in Nat
  PROVE  Total(Append(q, x)) = Total(q) + x
<1> DEFINE r == Append(q, x)
<1>1. PICK e : IsSums(e, q, Len(q)) /\ Total(q) = e[Len(q)]
  BY TotalIsLast
<1>2. r \in Seq(Nat) /\ Len(r) = Len(q) + 1 /\ r[Len(q) + 1] = x /\ Len(q) \in Nat
      /\ \A k \in 1..Len(q) : r[k] = q[k]
  OBVIOUS
<1> HIDE DEF r
<1> DEFINE n == Len(q) + 1
           f == [k \in 0..n |-> IF k = n THEN e[n-1] + x ELSE e[k]]
<1>3. f[0] = 0 /\ f[n] = Total(q) + x
  BY <1>1, <1>2 DEF IsSums
<1>4. \A k \in 1..n : f[k] = f[k-1] + r[k]
  <2> SUFFICES ASSUME NEW k \in 1..n PROVE f[k] = f[k-1] + r[k]
    OBVIOUS
  <2>1. CASE k = n
    BY <1>1, <1>2, <2>1
  <2>2. CASE k # n
    <3>1. k \in 1..Len(q) /\ k \in 0..n /\ k - 1 \in 0..n /\ k - 1 # n
      BY <1>2, <2>2
    <3> QED  BY <1>1, <1>2, <2>2, <3>1 DEF IsSums
  <2> QED  BY <2>1, <2>2
<1> HIDE DEF f
<1>5. Total(r) = f[Len(r)]
  BY <1>2, <1>3, <1>4, TotalIs
<1> QED  BY <1>2, <1>3, <1>5 DEF r

(* Numbers taken off the front, as conn_drain() does.                       *)
LEMMA TotalOfRest ==
  ASSUME NEW q \in Seq(Nat), NEW k \in 0..Len(q)
  PROVE  Total(SubSeq(q, k + 1, Len(q))) <= Total(q)
<1> DEFINE r == SubSeq(q, k + 1, Len(q))
<1>1. PICK e : IsSums(e, q, Len(q)) /\ Total(q) = e[Len(q)]
  BY TotalIsLast
<1>2. r \in Seq(Nat) /\ Len(r) = Len(q) - k /\ \A i \in 1..Len(r) : r[i] = q[k+i]
  OBVIOUS
<1> HIDE DEF r
<1> DEFINE f == [i \in 0..Len(r) |-> e[k+i] - e[k]]
<1>3. e \in [0..Len(q) -> Nat] /\ e[k] \in Nat /\ e[Len(q)] \in Nat
  BY <1>1, Len(q) \in 0..Len(q) DEF IsSums
<1>4. f[0] = 0 /\ f[Len(r)] = e[Len(q)] - e[k]
  BY <1>2, <1>3
<1>5. \A i \in 1..Len(r) : f[i] = f[i-1] + r[i]
  <2> SUFFICES ASSUME NEW i \in 1..Len(r) PROVE f[i] = f[i-1] + r[i]
    OBVIOUS
  <2> DEFINE j == k + i  l == k + (i - 1)
  <2>1. /\ j \in 1..Len(q) /\ j \in 0..Len(q) /\ l \in 0..Len(q) /\ l = j - 1
        /\ i \in 0..Len(r) /\ i - 1 \in 0..Len(r)
    BY <1>2
  <2>2. f[i] = e[j] - e[k] /\ f[i-1] = e[l] - e[k] /\ r[i] = q[j]
    BY <1>2, <2>1
  <2> HIDE DEF f, j, l
  <2>3. e[j] = e[l] + q[j]
    BY <1>1, <2>1 DEF IsSums
  <2>4. e[j] \in Nat /\ e[l] \in Nat
    BY <1>3, <2>1
  <2>5. q[j] \in Nat
    BY <2>1
  <2> QED  BY <1>3, <2>2, <2>3, <2>4, <2>5
<1> HIDE DEF f
<1>6. Total(r) = f[Len(r)]
  BY <1>2, <1>4, <1>5, TotalIs
<1> QED  BY <1>1, <1>3, <1>4, <1>6 DEF r

(* Part of the first number taken off.                                      *)
LEMMA TotalOfPart ==
  ASSUME NEW q \in Seq(Nat), Len(q) > 0, NEW w \in Nat, w <= q[1]
  PROVE  Total([q EXCEPT ![1] = @ - w]) = Total(q) - w
<1> DEFINE r == [q EXCEPT ![1] = @ - w]
<1>0. Len(q) \in Nat /\ 1 \in 1..Len(q) /\ q[1] \in Nat /\ q[1] - w \in Nat
  OBVIOUS
<1>1. PICK e : IsSums(e, q, Len(q)) /\ Total(q) = e[Len(q)]
  BY TotalIsLast
<1>2. r \in Seq(Nat) /\ Len(r) = Len(q) /\ r[1] = q[1] - w
      /\ \A i \in 2..Len(q) : r[i] = q[i]
  BY <1>0
<1> HIDE DEF r
<1> DEFINE f == [i \in 0..Len(q) |-> IF i = 0 THEN 0 ELSE e[i] - w]
<1>3. e \in [0..Len(q) -> Nat] /\ e[0] = 0
  BY <1>1 DEF IsSums
<1>4. f[0] = 0 /\ f[Len(q)] = e[Len(q)] - w
  BY <1>0
<1>5. \A i \in 1..Len(q) : f[i] = f[i-1] + r[i]
  <2> SUFFICES ASSUME NEW i \in 1..Len(q) PROVE f[i] = f[i-1] + r[i]
    OBVIOUS
  <2>1. e[i] = e[i-1] + q[i] /\ i - 1 \in 0..Len(q) /\ i \in 0..Len(q) /\ q[i] \in Nat
    BY <1>0, <1>1 DEF IsSums
  <2>2. e[i] \in Nat /\ e[i-1] \in Nat /\ f[i] = e[i] - w
    BY <1>3, <2>1
  <2>3. CASE i = 1
    BY <1>0, <1>2, <1>3, <1>4, <2>1, <2>2, <2>3
  <2>4. CASE i # 1
    <3>1. f[i-1] = e[i-1] - w /\ r[i] = q[i]
      BY <1>2, <2>1, <2>4
    <3> HIDE DEF f
    <3> QED  BY <2>1, <2>2, <3>1
  <2> QED  BY <2>3, <2>4
<1> HIDE DEF f
<1>6. Total(r) = f[Len(q)]
  BY <1>2, <1>4, <1>5, TotalIs
<1> QED  BY <1>1, <1>4, <1>6 DEF r

(* The sum after one number has changed.                                    *)
LEMMA TotalOfChange ==
  ASSUME NEW q \in Seq(Nat), NEW r \in Seq(Nat), Len(r) = Len(q), NEW k \in 1..Len(q),
         \A i \in 1..Len(q) : i # k => r[i] = q[i]
  PROVE  Total(r) = Total(q) - q[k] + r[k]
<1>0. Len(q) \in Nat /\ q[k] \in Nat /\ r[k] \in Nat /\ k \in Nat /\ k >= 1 /\ k <= Len(q)
  OBVIOUS
<1>1. PICK e : IsSums(e, q, Len(q)) /\ Total(q) = e[Len(q)]
  BY TotalIsLast
<1>2. e \in [0..Len(q) -> Nat] /\ e[0] = 0 /\ \A i \in 1..Len(q) : e[i] = e[i-1] + q[i]
  BY <1>1 DEF IsSums
<1> DEFINE f == [i \in 0..Len(q) |-> IF i < k THEN e[i] ELSE e[i] - q[k] + r[k]]
<1>3. f[0] = 0 /\ f[Len(q)] = Total(q) - q[k] + r[k]
  BY <1>0, <1>1, <1>2
<1>4. \A i \in 1..Len(q) : f[i] = f[i-1] + r[i]
  <2> SUFFICES ASSUME NEW i \in 1..Len(q) PROVE f[i] = f[i-1] + r[i]
    OBVIOUS
  <2>0. i - 1 \in 0..Len(q) /\ i \in 0..Len(q) /\ i \in 1..Len(r) /\ i \in Nat
    BY <1>0
  <2>1. e[i] = e[i-1] + q[i] /\ q[i] \in Nat /\ r[i] \in Nat
    BY <1>2, <2>0
  <2>2. e[i] \in Nat /\ e[i-1] \in Nat
    BY <1>2, <2>0
  <2>3. /\ f[i] = IF i < k THEN e[i] ELSE e[i] - q[k] + r[k]
        /\ f[i-1] = IF i - 1 < k THEN e[i-1] ELSE e[i-1] - q[k] + r[k]
    BY <2>0
  <2> HIDE DEF f
  <2>4. CASE i < k
    BY <1>0, <2>0, <2>1, <2>2, <2>3, <2>4
  <2>5. CASE i = k
    <3>1. f[i] = e[i] - q[i] + r[i] /\ f[i-1] = e[i-1]
      BY <1>0, <2>0, <2>3, <2>5
    <3> DEFINE a == e[i-1]  b == q[i]  c == r[i]
    <3>2. f[i] = (a + b) - b + c /\ f[i-1] = a
      BY <2>1, <3>1
    <3> HIDE DEF a, b, c
    <3>3. a \in Nat /\ b \in Nat /\ c \in Nat
      BY <2>1, <2>2 DEF a, b, c
    <3>4. (a + b) - b + c = a + c
      BY <3>3
    <3> QED  BY <3>2, <3>4 DEF c
  <2>6. CASE i > k
    <3>1. f[i] = e[i] - q[k] + r[k] /\ f[i-1] = e[i-1] - q[k] + r[k] /\ r[i] = q[i]
      BY <1>0, <2>0, <2>3, <2>6
    <3> DEFINE a == e[i-1]  b == q[i]  c == q[k]  d == r[k]
    <3>2. f[i] = (a + b) - c + d /\ f[i-1] = a - c + d /\ r[i] = b
      BY <2>1, <3>1
    <3> HIDE DEF a, b, c, d
    <3>3. a \in Nat /\ b \in Nat /\ c \in Nat /\ d \in Nat
      BY <1>0, <2>1, <2>2 DEF a, b, c, d
    <3>4. (a + b) - c + d = (a - c + d) + b
      BY <3>3
    <3> QED  BY <3>2, <3>4
  <2> QED  BY <1>0, <2>0, <2>4, <2>5, <2>6
<1> HIDE DEF f
<1>5. Total(r) = f[Len(r)]
  BY <1>3, <1>4, TotalIs
<1> QED  BY <1>3, <1>5

(* No number exceeds the sum.                                               *)
LEMMA TotalCovers ==
  ASSUME NEW q \in Seq(Nat), NEW k \in 1..Len(q)
  PROVE  q[k] <= Total(q)
<1> DEFINE r == [q EXCEPT ![k] = 0]
<1>1. /\ r \in Seq(Nat) /\ Len(r) = Len(q) /\ r[k] = 0
      /\ \A i \in 1..Len(q) : i # k => r[i] = q[i]
  OBVIOUS
<1> HIDE DEF r
<1>2. Total(r) = Total(q) - q[k] + r[k]
  BY <1>1, TotalOfChange
<1>3. Total(r) \in Nat /\ Total(q) \in Nat /\ q[k] \in Nat
  BY <1>1, TotalIsNat
<1> QED  BY <1>1, <1>2, <1>3

(* Numbers up to m have a sum of at most m times their count.               *)
LEMMA TotalBound ==
  ASSUME NEW q \in Seq(Nat), NEW m \in Nat, \A i \in 1..Len(q) : q[i] <= m
  PROVE  Total(q) <= Len(q) * m
<1>1. PICK e : IsSums(e, q, Len(q)) /\ Total(q) = e[Len(q)]
  BY TotalIsLast
<1>2. e \in [0..Len(q) -> Nat] /\ e[0] = 0 /\ \A i \in 1..Len(q) : e[i] = e[i-1] + q[i]
  BY <1>1 DEF IsSums
<1> DEFINE T == {k \in 0..Len(q) : e[k] > k * m}
<1>3. CASE T = {}
  <2>1. Len(q) \in 0..Len(q) /\ Len(q) \notin T /\ Len(q) \in Nat
    BY <1>3
  <2>2. e[Len(q)] \in Nat /\ Len(q) * m \in Int /\ ~(e[Len(q)] > Len(q) * m)
    BY <1>2, <2>1
  <2> QED  BY <1>1, <2>2
<1>4. CASE T # {}
  <2>1. PICK n \in T : \A k \in T : n <= k
    <3>1. T \subseteq Nat
      OBVIOUS
    <3> HIDE DEF T
    <3> QED  BY <1>4, <3>1, Least
  <2>2. n \in Nat /\ n <= Len(q) /\ n # 0 /\ e[n] > n * m
    BY <1>2, <2>1
  <2>3. n \in 1..Len(q) /\ n - 1 \in 0..Len(q) /\ n - 1 \notin T
    BY <2>1, <2>2
  <2>4. e[n-1] \in Nat /\ q[n] \in Nat /\ (n - 1) * m \in Int /\ ~(e[n-1] > (n - 1) * m)
    <3>1. e[n-1] \in Nat
      BY <1>2, <2>3
    <3>4. q[n] \in Nat
      BY <2>3
    <3>2. (n - 1) * m \in Int
      BY <2>2
    <3>3. ~(e[n-1] > (n - 1) * m)
      BY <2>3
    <3> QED  BY <3>1, <3>2, <3>3, <3>4
  <2>5. e[n] = e[n-1] + q[n] /\ q[n] <= m
    BY <1>2, <2>3
  <2>6. n * m = (n - 1) * m + m /\ n * m \in Int
    BY <2>2
  <2> QED  BY <2>2, <2>4, <2>5, <2>6
<1> QED  BY <1>3, <1>4
=============================================================================
