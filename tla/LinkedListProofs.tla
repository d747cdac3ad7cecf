-------------------------- MODULE LinkedListProofs --------------------------
(* Proofs about LinkedList: its pointers always form a list, and the list   *)
(* is the sequence of objects of module ObjectList.                         *)
EXTENDS LinkedList, SumProofs

ListInv == TypeOK /\ WellLinked

(* s, of length n, is the sequence behind the pointers.                     *)
IsBehind(s, n) == /\ list # NULL /\ n \in Nat /\ n = list.length
                  /\ s \in [1..n -> Node] /\ Represents(s)

LEMMA Behind ==
  ASSUME ListInv, list # NULL
  PROVE  \E n \in Nat : \E s \in [1..n -> Node] : IsBehind(s, n)
BY DEF ListInv, TypeOK, WellLinked, IsBehind, linked_list

(* Represents(), link by link.                                              *)
LEMMA Links ==
  ASSUME NEW n, NEW s, IsBehind(s, n)
  PROVE  /\ \A i, j \in 1..n : s[i] = s[j] => i = j
         /\ Allocated = {s[i] : i \in 1..n}
         /\ list.head = IF n = 0 THEN NULL ELSE s[1]
         /\ list.tail = IF n = 0 THEN NULL ELSE s[n]
         /\ \A i \in 1..n : /\ heap[s[i]].next = IF i = n THEN NULL ELSE s[i + 1]
                            /\ heap[s[i]].prev = IF i = 1 THEN NULL ELSE s[i - 1]
BY DEF IsBehind, Represents

(* The nodes of the sequence are the allocated ones, each once.             *)
LEMMA BehindFacts ==
  ASSUME TypeOK, NEW n, NEW s, IsBehind(s, n)
  PROVE  /\ n \in Nat /\ s \in [1..n -> Node] /\ NULL \notin Node /\ NULL \notin ll_node
         /\ n = list.length /\ heap \in [Node -> ll_node \cup {NULL}]
         /\ \A i \in 1..n : s[i] \in Allocated
         /\ \A i, j \in 1..n : s[i] = s[j] => i = j
<1>1. n \in Nat /\ s \in [1..n -> Node] /\ n = list.length
  BY DEF IsBehind
<1>2. NULL \notin Node /\ NULL \notin ll_node
  BY NullAssumption
<1>3. heap \in [Node -> ll_node \cup {NULL}]
  BY DEF TypeOK
<1>4. Allocated = {s[i] : i \in 1..n} /\ \A i, j \in 1..n : s[i] = s[j] => i = j
  BY Links
<1>5. \A i \in 1..n : s[i] \in Allocated
  BY <1>4
<1> QED  BY <1>1, <1>2, <1>3, <1>4, <1>5

(* The sequence is unique: two that agree with the links cannot part.       *)
LEMMA BehindIsUnique ==
  ASSUME NEW n, NEW s, NEW t, IsBehind(s, n), IsBehind(t, n)
  PROVE  s = t
<1> DEFINE T == {i \in 1..n : s[i] # t[i]}
<1>1. n \in Nat /\ s \in [1..n -> Node] /\ t \in [1..n -> Node]
  BY DEF IsBehind
<1>2. SUFFICES ASSUME T # {} PROVE FALSE
  BY <1>1
<1>3. PICK i \in T : \A j \in T : i <= j
  <2>1. T \subseteq Nat
    BY <1>1
  <2> HIDE DEF T
  <2> QED  BY <1>2, <2>1, Least
<1>4. i # 1
  BY <1>1, <1>3, Links
<1>5. i - 1 \in 1..n /\ i - 1 \notin T /\ i \in 1..n
  BY <1>1, <1>3, <1>4
<1>6. s[i - 1] = t[i - 1] /\ i - 1 # n
  BY <1>1, <1>5
<1>7. heap[s[i - 1]].next = s[i] /\ heap[t[i - 1]].next = t[i]
  BY <1>1, <1>5, <1>6, Links
<1> QED  BY <1>3, <1>6, <1>7

LEMMA ContentsIsBehind ==
  ASSUME NEW n, NEW s, IsBehind(s, n)
  PROVE  Contents = s
<1>1. \E t \in [1..list.length -> Node] : Represents(t)
  BY DEF IsBehind
<1>2. Contents \in [1..list.length -> Node] /\ Represents(Contents)
  BY <1>1 DEF Contents
<1>3. IsBehind(Contents, n)
  BY <1>2 DEF IsBehind
<1> QED  BY <1>3, BehindIsUnique

(* A walk from the k-th node meets the k-th and all that follow.            *)
LEMMA WalkFacts ==
  ASSUME NEW n, NEW s, IsBehind(s, n), NEW k \in 1..n
  PROVE  WalkFrom(s[k]) = {s[j] : j \in k..n}
<1> DEFINE W == {s[j] : j \in k..n}
<1>1. n \in Nat /\ s \in [1..n -> Node] /\ NULL \notin Node
  BY NullAssumption DEF IsBehind
<1>0. \A m \in 1..n : m # n => heap[s[m]].next = s[m + 1]
  BY <1>1, Links
<1>2. W \in SUBSET Allocated /\ s[k] \in W
  BY <1>1, Links
<1>3. Closed(W)
  <2> SUFFICES ASSUME NEW j \in k..n, heap[s[j]].next # NULL PROVE heap[s[j]].next \in W
    BY DEF Closed
  <2>1. j # n /\ heap[s[j]].next = s[j + 1]
    BY <1>1, Links
  <2> QED  BY <1>1, <2>1
<1>4. WalkFrom(s[k]) \subseteq W
  BY <1>2, <1>3 DEF WalkFrom
<1>5. ASSUME NEW j \in k..n, NEW S \in SUBSET Allocated, s[k] \in S, Closed(S)
      PROVE  s[j] \in S
  <2> DEFINE T == {i \in k..n : s[i] \notin S}
  <2>1. SUFFICES ASSUME T # {} PROVE FALSE
    BY <1>1
  <2>2. PICK i \in T : \A m \in T : i <= m
    <3>1. T \subseteq Nat
      BY <1>1
    <3> HIDE DEF T
    <3> QED  BY <2>1, <3>1, Least
  <2>3. i # k /\ i \in k..n
    BY <1>5, <2>2
  <2>4. i - 1 \in k..n /\ i - 1 \notin T /\ i - 1 \in 1..n /\ i - 1 # n
    BY <1>1, <2>2, <2>3
  <2>5. s[i - 1] \in S
    BY <2>4
  <2>6. heap[s[i - 1]].next = s[i]
    <3>1. heap[s[i - 1]].next = s[(i - 1) + 1]
      BY <1>0, <2>4, Zenon
    <3>2. (i - 1) + 1 = i
      BY <1>1, <2>3
    <3> QED  BY <3>1, <3>2
  <2>7. s[i] # NULL
    BY <1>1, <2>3
  <2>8. s[i] \in S
    BY <2>5, <2>6, <2>7, <1>5 DEF Closed
  <2> QED  BY <2>2, <2>8
<1>6. W \subseteq WalkFrom(s[k])
  BY <1>1, <1>5 DEF WalkFrom
<1> QED  BY <1>4, <1>6

-----------------------------------------------------------------------------
(* Adding and removing *)

(* s with x behind its first k nodes, and s without its k-th node.          *)
With(s, n, k, x) == [j \in 1..(n + 1) |->
                       IF j <= k THEN s[j] ELSE IF j = k + 1 THEN x ELSE s[j - 1]]
Without(s, n, k) == [j \in 1..(n - 1) |-> IF j < k THEN s[j] ELSE s[j + 1]]

(* The step that links the new node x behind the k-th.                      *)
Inserts(s, n, k, x, object) ==
  /\ k \in 0..n /\ x \in Node /\ x \notin Allocated /\ object \in Object
  /\ heap' \in [Node -> ll_node \cup {NULL}]
  /\ heap'[x] = [next |-> IF k = n THEN NULL ELSE s[k + 1],
                 prev |-> IF k = 0 THEN NULL ELSE s[k], object |-> object]
  /\ \A i \in 1..n :
       /\ heap'[s[i]] # NULL /\ heap'[s[i]].object = heap[s[i]].object
       /\ heap'[s[i]].next = IF i = k THEN x ELSE heap[s[i]].next
       /\ heap'[s[i]].prev = IF i = k + 1 THEN x ELSE heap[s[i]].prev
  /\ \A m \in Node \ {x} : m \notin Allocated => heap'[m] = NULL
  /\ list' = [head |-> IF k = 0 THEN x ELSE list.head,
              tail |-> IF k = n THEN x ELSE list.tail, length |-> n + 1]
  /\ result' = x

(* The step that unlinks and frees the k-th node.                           *)
Deletes(s, n, k) ==
  /\ k \in 1..n
  /\ heap' \in [Node -> ll_node \cup {NULL}]
  /\ heap'[s[k]] = NULL
  /\ \A i \in 1..n : i # k =>
       /\ heap'[s[i]] # NULL /\ heap'[s[i]].object = heap[s[i]].object
       /\ heap'[s[i]].next = IF i = k - 1 THEN heap[s[k]].next ELSE heap[s[i]].next
       /\ heap'[s[i]].prev = IF i = k + 1 THEN heap[s[k]].prev ELSE heap[s[i]].prev
  /\ \A m \in Node : m \notin Allocated => heap'[m] = NULL
  /\ list' = [head |-> IF k = 1 THEN heap[s[k]].next ELSE list.head,
              tail |-> IF k = n THEN heap[s[k]].prev ELSE list.tail,
              length |-> n - 1]
  /\ result' = heap[s[k]].object

LEMMA NotNull == [head |-> NULL, tail |-> NULL, length |-> 0] # NULL
  BY NullAssumption DEF linked_list

(* Insertion keeps the pointers a list, one node longer.                    *)
LEMMA InsertsFacts ==
  ASSUME NEW n, NEW s, IsBehind(s, n), NEW k, NEW x, NEW object,
         Inserts(s, n, k, x, object)
  PROVE  TypeOK' /\ IsBehind(With(s, n, k, x), n + 1)'
<1> DEFINE t == With(s, n, k, x)
<1>1. /\ n \in Nat /\ s \in [1..n -> Node] /\ NULL \notin Node /\ k \in 0..n /\ x \in Node
      /\ Allocated = {s[i] : i \in 1..n} /\ x \notin Allocated
      /\ \A i, j \in 1..n : s[i] = s[j] => i = j
  BY NullAssumption, Links DEF IsBehind, Inserts
<1>2. t \in [1..(n + 1) -> Node]
  BY <1>1 DEF With
<1>3. /\ \A j \in 1..k : t[j] = s[j] /\ j \in 1..n
      /\ t[k + 1] = x
      /\ \A j \in (k + 2)..(n + 1) : t[j] = s[j - 1] /\ j - 1 \in 1..n
  BY <1>1 DEF With
<1>4. \A j \in 1..(n + 1) : j \in 1..k \/ j = k + 1 \/ j \in (k + 2)..(n + 1)
  BY <1>1
<1>5. /\ list.head = IF n = 0 THEN NULL ELSE s[1]
      /\ list.tail = IF n = 0 THEN NULL ELSE s[n]
      /\ list \in linked_list => list.head \in Node \cup {NULL} /\ list.tail \in Node \cup {NULL}
  BY <1>1, Links DEF linked_list
<1>6. /\ list' \in linked_list /\ list' # NULL /\ list'.length = n + 1
      /\ list'.head = (IF k = 0 THEN x ELSE list.head)
      /\ list'.tail = (IF k = n THEN x ELSE list.tail)
  BY <1>1, <1>5, NullAssumption DEF Inserts, linked_list
<1>7. TypeOK'
  BY <1>6 DEF TypeOK, Inserts
<1>8. \A i, j \in 1..(n + 1) : t[i] = t[j] => i = j
  <2>1. \A i \in 1..n : s[i] # x
    BY <1>1
  <2> HIDE DEF t
  <2> QED  BY <1>1, <1>3, <1>4, <2>1
<1>9. Allocated' = {t[i] : i \in 1..(n + 1)}
  <2>1. \A m \in Node : heap'[m] # NULL <=> m = x \/ m \in Allocated
    <3>1. heap'[x] # NULL
      BY NullAssumption, <1>1 DEF Inserts, ll_node
    <3> QED  BY <1>1, <3>1 DEF Inserts
  <2>2. \A i \in 1..n : \E j \in 1..(n + 1) : s[i] = t[j]
    <3> TAKE i \in 1..n
    <3>1. CASE i <= k
      BY <1>1, <1>3, <3>1
    <3>2. CASE i > k
      <4>1. i + 1 \in 1..(n + 1) /\ ~(i + 1 <= k) /\ i + 1 # k + 1 /\ (i + 1) - 1 = i
        BY <1>1, <3>2
      <4>2. t[i + 1] = s[(i + 1) - 1]
        BY <4>1 DEF With
      <4> QED  BY <4>1, <4>2
    <3> QED  BY <1>1, <3>1, <3>2
  <2>3. \A j \in 1..(n + 1) : t[j] = x \/ t[j] \in Allocated
    BY <1>1, <1>3, <1>4
  <2>4. x = t[k + 1] /\ k + 1 \in 1..(n + 1)
    BY <1>1, <1>3
  <2> HIDE DEF t
  <2> QED  BY <1>1, <1>2, <2>1, <2>2, <2>3, <2>4 DEF Allocated
<1>10. /\ list'.head = t[1] /\ list'.tail = t[n + 1]
  <2>1. CASE k = 0
    BY <1>1, <1>3, <1>5, <1>6, <2>1
  <2>2. CASE k # 0
    BY <1>1, <1>3, <1>5, <1>6, <2>2
  <2> QED  BY <2>1, <2>2
<1>11. ASSUME NEW i \in 1..(n + 1)
       PROVE  /\ heap'[t[i]].next = IF i = n + 1 THEN NULL ELSE t[i + 1]
              /\ heap'[t[i]].prev = IF i = 1 THEN NULL ELSE t[i - 1]
  <2>0. \A j \in 1..n :
          /\ heap'[s[j]].next = IF j = k THEN x ELSE IF j = n THEN NULL ELSE s[j + 1]
          /\ heap'[s[j]].prev = IF j = k + 1 THEN x ELSE IF j = 1 THEN NULL ELSE s[j - 1]
    <3>1. \A j \in 1..n : /\ heap[s[j]].next = IF j = n THEN NULL ELSE s[j + 1]
                          /\ heap[s[j]].prev = IF j = 1 THEN NULL ELSE s[j - 1]
      BY Links
    <3>2. \A j \in 1..n : /\ heap'[s[j]].next = IF j = k THEN x ELSE heap[s[j]].next
                          /\ heap'[s[j]].prev = IF j = k + 1 THEN x ELSE heap[s[j]].prev
      BY Zenon DEF Inserts
    <3> QED  BY <3>1, <3>2, Zenon
  <2>1. CASE i \in 1..k
    <3>1. t[i] = s[i] /\ i \in 1..n /\ i # n + 1 /\ i # k + 1
      BY <1>1, <1>3, <2>1
    <3>2. t[i + 1] = IF i = k THEN x ELSE s[i + 1]
      BY <1>1, <2>1 DEF With
    <3>3. i # 1 => t[i - 1] = s[i - 1]
      BY <1>1, <2>1 DEF With
    <3>4. i = n => i = k
      BY <1>1, <2>1
    <3> HIDE DEF t
    <3> QED  BY <2>0, <3>1, <3>2, <3>3, <3>4
  <2>2. CASE i = k + 1
    BY <1>1, <1>3, <2>2 DEF Inserts
  <2>3. CASE i \in (k + 2)..(n + 1)
    <3>1. t[i] = s[i - 1] /\ i - 1 \in 1..n /\ i - 1 # k /\ i # 1
      BY <1>1, <1>3, <2>3
    <3>2. i # n + 1 => t[i + 1] = s[(i - 1) + 1] /\ i - 1 # n
      BY <1>1, <2>3 DEF With
    <3>3. t[i - 1] = IF i - 1 = k + 1 THEN x ELSE s[(i - 1) - 1]
      BY <1>1, <2>3 DEF With
    <3>4. (i = n + 1 <=> i - 1 = n) /\ (i - 1 = 1 => i - 1 = k + 1)
      BY <1>1, <2>3
    <3> HIDE DEF t
    <3> QED  BY <2>0, <3>1, <3>2, <3>3, <3>4, Zenon
  <2> QED  BY <1>4, <2>1, <2>2, <2>3
<1> HIDE DEF t
<1>12. Represents(t)'
  BY <1>1, <1>6, <1>8, <1>9, <1>10, <1>11 DEF Represents
<1>13. IsBehind(t, n + 1)'
  BY <1>1, <1>2, <1>6, <1>12 DEF IsBehind
<1> QED  BY <1>7, <1>13 DEF t

(* Removal keeps the pointers a list, one node shorter.                     *)
LEMMA DeletesFacts ==
  ASSUME NEW n, NEW s, IsBehind(s, n), NEW k, Deletes(s, n, k)
  PROVE  TypeOK' /\ IsBehind(Without(s, n, k), n - 1)'
<1> DEFINE t == Without(s, n, k)
<1>1. /\ n \in Nat /\ s \in [1..n -> Node] /\ NULL \notin Node /\ k \in 1..n
      /\ Allocated = {s[i] : i \in 1..n}
      /\ \A i, j \in 1..n : s[i] = s[j] => i = j
  BY NullAssumption, Links DEF IsBehind, Deletes
<1>0. n - 1 \in Nat
  BY <1>1
<1>2. t \in [1..(n - 1) -> Node]
  BY <1>1 DEF Without
<1>3. /\ \A j \in 1..(k - 1) : t[j] = s[j] /\ j \in 1..n /\ j # k
      /\ \A j \in k..(n - 1) : t[j] = s[j + 1] /\ j + 1 \in 1..n /\ j + 1 # k
  BY <1>1 DEF Without
<1>4. \A j \in 1..(n - 1) : j \in 1..(k - 1) \/ j \in k..(n - 1)
  BY <1>1
<1>5. /\ list.head = s[1] /\ list.tail = s[n]
      /\ heap[s[k]].next = (IF k = n THEN NULL ELSE s[k + 1])
      /\ heap[s[k]].prev = (IF k = 1 THEN NULL ELSE s[k - 1])
  BY <1>1, Links
<1>6. /\ list' # NULL /\ list' \in linked_list /\ list'.length = n - 1
      /\ list'.head = (IF k = 1 THEN heap[s[k]].next ELSE list.head)
      /\ list'.tail = (IF k = n THEN heap[s[k]].prev ELSE list.tail)
  <2>1. /\ heap[s[k]].next \in Node \cup {NULL} /\ heap[s[k]].prev \in Node \cup {NULL}
        /\ list.head \in Node /\ list.tail \in Node
    BY <1>1, <1>5
  <2> QED  BY <1>0, <2>1, NullAssumption DEF Deletes, linked_list
<1>7. TypeOK'
  BY <1>6 DEF TypeOK, Deletes
<1>8. \A i, j \in 1..(n - 1) : t[i] = t[j] => i = j
  <2> HIDE DEF t
  <2> QED  BY <1>1, <1>3, <1>4
<1>9. Allocated' = {t[i] : i \in 1..(n - 1)}
  <2>1. \A m \in Node : heap'[m] # NULL <=> \E i \in 1..n : i # k /\ m = s[i]
    BY <1>1 DEF Deletes
  <2>2. \A i \in 1..n : i # k => \E j \in 1..(n - 1) : s[i] = t[j]
    <3> TAKE i \in 1..n
    <3>1. CASE i < k
      BY <1>1, <1>3, <3>1
    <3>2. CASE i > k
      <4>1. i - 1 \in 1..(n - 1) /\ ~(i - 1 < k) /\ (i - 1) + 1 = i
        BY <1>1, <3>2
      <4>2. t[i - 1] = s[(i - 1) + 1]
        BY <4>1 DEF Without
      <4> QED  BY <4>1, <4>2
    <3> QED  BY <1>1, <3>1, <3>2
  <2>3. \A j \in 1..(n - 1) : \E i \in 1..n : i # k /\ t[j] = s[i]
    BY <1>1, <1>3, <1>4
  <2> HIDE DEF t
  <2> QED  BY <1>1, <1>2, <2>1, <2>2, <2>3 DEF Allocated
<1>10. /\ list'.head = (IF n - 1 = 0 THEN NULL ELSE t[1])
       /\ list'.tail = (IF n - 1 = 0 THEN NULL ELSE t[n - 1])
  <2>1. n - 1 # 0 => t[1] = (IF k = 1 THEN s[2] ELSE s[1])
    BY <1>1 DEF Without
  <2>2. n - 1 # 0 => t[n - 1] = (IF k = n THEN s[n - 1] ELSE s[n])
    BY <1>1 DEF Without
  <2> HIDE DEF t
  <2> QED  BY <1>1, <1>5, <1>6, <2>1, <2>2
<1>11. ASSUME NEW i \in 1..(n - 1)
       PROVE  /\ heap'[t[i]].next = IF i = n - 1 THEN NULL ELSE t[i + 1]
              /\ heap'[t[i]].prev = IF i = 1 THEN NULL ELSE t[i - 1]
  <2>0. \A j \in 1..n : j # k =>
          /\ heap'[s[j]].next = IF j = k - 1 THEN (IF k = n THEN NULL ELSE s[k + 1])
                                ELSE IF j = n THEN NULL ELSE s[j + 1]
          /\ heap'[s[j]].prev = IF j = k + 1 THEN (IF k = 1 THEN NULL ELSE s[k - 1])
                                ELSE IF j = 1 THEN NULL ELSE s[j - 1]
    <3>1. \A j \in 1..n : /\ heap[s[j]].next = IF j = n THEN NULL ELSE s[j + 1]
                          /\ heap[s[j]].prev = IF j = 1 THEN NULL ELSE s[j - 1]
      BY Links
    <3>2. \A j \in 1..n : j # k =>
            /\ heap'[s[j]].next = IF j = k - 1 THEN heap[s[k]].next ELSE heap[s[j]].next
            /\ heap'[s[j]].prev = IF j = k + 1 THEN heap[s[k]].prev ELSE heap[s[j]].prev
      BY Zenon DEF Deletes
    <3> QED  BY <1>1, <3>1, <3>2, Zenon
  <2>1. CASE i \in 1..(k - 1)
    <3>1. t[i] = s[i] /\ i \in 1..n /\ i # k /\ i # k + 1 /\ i # n
      BY <1>1, <1>3, <2>1
    <3>2. i # n - 1 => t[i + 1] = IF i = k - 1 THEN s[k + 1] ELSE s[i + 1]
      BY <1>1, <2>1 DEF Without
    <3>3. i # 1 => t[i - 1] = s[i - 1]
      BY <1>1, <2>1 DEF Without
    <3>4. i = n - 1 => i = k - 1 /\ k = n
      BY <1>1, <2>1
    <3>5. i = k - 1 => (i = n - 1 <=> k = n)
      BY <1>1, <2>1
    <3> HIDE DEF t
    <3> QED  BY <2>0, <3>1, <3>2, <3>3, <3>4, <3>5, Zenon
  <2>2. CASE i \in k..(n - 1)
    <3>1. t[i] = s[i + 1] /\ i + 1 \in 1..n /\ i + 1 # k /\ i + 1 # k - 1 /\ i + 1 # 1
      BY <1>1, <1>3, <2>2
    <3>2. i # n - 1 => t[i + 1] = s[(i + 1) + 1]
      BY <1>1, <2>2 DEF Without
    <3>3. i # 1 => t[i - 1] = IF i + 1 = k + 1 THEN s[k - 1] ELSE s[(i + 1) - 1]
      BY <1>1, <2>2 DEF Without
    <3>4. (i = n - 1 <=> i + 1 = n) /\ (i = 1 => i + 1 = k + 1)
          /\ (i + 1 = k + 1 => (i = 1 <=> k = 1))
      BY <1>1, <2>2
    <3> HIDE DEF t
    <3> QED  BY <2>0, <3>1, <3>2, <3>3, <3>4, Zenon
  <2> QED  BY <1>4, <2>1, <2>2
<1> HIDE DEF t
<1>12. Represents(t)'
  BY <1>1, <1>6, <1>8, <1>9, <1>10, <1>11 DEF Represents
<1>13. IsBehind(t, n - 1)'
  BY <1>0, <1>2, <1>6, <1>12 DEF IsBehind
<1> QED  BY <1>7, <1>13 DEF t

(* The heap in which the new node x is linked behind the k-th.              *)
LinkedHeap(s, n, k, x, object) ==
  [m \in Node |->
     IF m = x THEN [next |-> IF k = n THEN NULL ELSE s[k + 1],
                    prev |-> IF k = 0 THEN NULL ELSE s[k], object |-> object]
     ELSE IF k > 0 /\ m = s[k] THEN [heap[m] EXCEPT !.next = x]
     ELSE IF k < n /\ m = s[k + 1] THEN [heap[m] EXCEPT !.prev = x]
     ELSE heap[m]]

LEMMA LinkedHeapInserts ==
  ASSUME TypeOK, NEW n, NEW s, IsBehind(s, n), NEW k \in 0..n,
         NEW x \in Node, x \notin Allocated, NEW object \in Object,
         heap' = LinkedHeap(s, n, k, x, object),
         Added(x, IF k = 0 THEN x ELSE list.head, IF k = n THEN x ELSE list.tail)
  PROVE  Inserts(s, n, k, x, object)
<1> DEFINE r == [next |-> IF k = n THEN NULL ELSE s[k + 1],
                 prev |-> IF k = 0 THEN NULL ELSE s[k], object |-> object]
<1>1. /\ n \in Nat /\ s \in [1..n -> Node] /\ NULL \notin Node /\ NULL \notin ll_node
      /\ n = list.length /\ heap \in [Node -> ll_node \cup {NULL}]
      /\ \A i \in 1..n : s[i] \in Allocated
      /\ \A i, j \in 1..n : s[i] = s[j] => i = j
  BY BehindFacts, Zenon
<1>2. \A i \in 1..n : heap[s[i]] \in ll_node /\ s[i] # x /\ s[i] \in Node
  BY <1>1 DEF Allocated
<1>3. r \in ll_node
  BY <1>1 DEF ll_node
<1>4. ASSUME NEW i \in 1..n
      PROVE  /\ heap'[s[i]] \in ll_node
             /\ heap'[s[i]].object = heap[s[i]].object
             /\ heap'[s[i]].next = IF i = k THEN x ELSE heap[s[i]].next
             /\ heap'[s[i]].prev = IF i = k + 1 THEN x ELSE heap[s[i]].prev
  <2>1. heap[s[i]] \in ll_node /\ s[i] # x /\ s[i] \in Node
    BY <1>2
  <2>2. CASE i = k
    <3>1. heap'[s[i]] = [heap[s[i]] EXCEPT !.next = x] /\ i # k + 1
      BY <1>1, <2>1, <2>2 DEF LinkedHeap
    <3> QED  BY <2>1, <2>2, <3>1 DEF ll_node
  <2>3. CASE i = k + 1
    <3>1. (k > 0 => s[i] # s[k]) /\ k < n /\ i # k
      BY <1>1, <2>3
    <3>2. heap'[s[i]] = [heap[s[i]] EXCEPT !.prev = x]
      BY <2>1, <2>3, <3>1 DEF LinkedHeap
    <3> QED  BY <2>1, <2>3, <3>1, <3>2 DEF ll_node
  <2>4. CASE i # k /\ i # k + 1
    <3>1. (k > 0 => s[i] # s[k]) /\ (k < n => s[i] # s[k + 1])
      BY <1>1, <2>4
    <3>2. heap'[s[i]] = heap[s[i]]
      BY <2>1, <3>1 DEF LinkedHeap
    <3> QED  BY <2>1, <2>4, <3>2
  <2> QED  BY <2>2, <2>3, <2>4
<1>5. heap'[x] = r
  BY DEF LinkedHeap
<1>6. \A m \in Node \ {x} : m \notin Allocated => heap'[m] = NULL
  <2> SUFFICES ASSUME NEW m \in Node \ {x}, m \notin Allocated PROVE heap'[m] = NULL
    OBVIOUS
  <2>1. heap[m] = NULL /\ \A i \in 1..n : m # s[i]
    BY <1>1 DEF Allocated
  <2>2. (k > 0 => m # s[k]) /\ (k < n => m # s[k + 1])
    BY <1>1, <2>1
  <2> QED  BY <2>1, <2>2 DEF LinkedHeap
<1>7. heap' \in [Node -> ll_node \cup {NULL}]
  <2>1. Allocated = {s[i] : i \in 1..n}
    BY Links
  <2>2. \A m \in Node : heap'[m] \in ll_node \cup {NULL}
    BY <1>3, <1>4, <1>5, <1>6, <2>1
  <2>3. heap' = [m \in Node |-> heap'[m]]
    BY DEF LinkedHeap
  <2> QED  BY <2>2, <2>3
<1>8. \A i \in 1..n : heap'[s[i]] # NULL
  BY <1>1, <1>4
<1> QED  BY <1>1, <1>4, <1>5, <1>6, <1>7, <1>8 DEF Inserts, Added

(* ll_add() inserts behind the last node, ll_add_front() before the first,  *)
(* ll_add_after() behind the given one.                                     *)
LEMMA FirstInserts ==
  ASSUME TypeOK, NEW n, NEW s, IsBehind(s, n), NEW object \in Object,
         NEW x \in Node \ Allocated, AddFirst(x, object)
  PROVE  n = 0 /\ Inserts(s, n, n, x, object)
<1>1. /\ n \in Nat /\ s \in [1..n -> Node] /\ NULL \notin Node
      /\ heap \in [Node -> ll_node \cup {NULL}]
      /\ list.head = (IF n = 0 THEN NULL ELSE s[1])
  BY BehindFacts, Links, Zenon
<1>2. n = 0 /\ n \in 0..n
  BY <1>1 DEF AddFirst
<1>3. heap' = LinkedHeap(s, n, n, x, object)
  <2>1. ~(n > 0) /\ ~(n < n)
    BY <1>2
  <2>2. heap' = [heap EXCEPT ![x] = [next |-> NULL, prev |-> NULL, object |-> object]]
    BY DEF AddFirst, ll_create_node
  <2>3. LinkedHeap(s, n, n, x, object)
          = [m \in Node |-> IF m = x THEN [next |-> NULL, prev |-> NULL, object |-> object]
                            ELSE heap[m]]
    BY <1>2, <2>1, Zenon DEF LinkedHeap
  <2> QED  BY <1>1, <2>2, <2>3
<1> QED  BY <1>2, <1>3, LinkedHeapInserts DEF AddFirst

LEMMA AddInserts ==
  ASSUME TypeOK, NEW n, NEW s, IsBehind(s, n), NEW object \in Object, ll_add(object)
  PROVE  \E x \in Node : Inserts(s, n, n, x, object)
<1>1. PICK x \in Node \ Allocated :
        \/ AddFirst(x, object)
        \/ /\ list.head # NULL
           /\ heap' = SetNext(ll_create_node(heap, x, list.tail, NULL, object), list.tail, x)
           /\ Added(x, list.head, x)
  BY DEF ll_add
<1>2. /\ n \in Nat /\ s \in [1..n -> Node] /\ heap \in [Node -> ll_node \cup {NULL}]
      /\ list.head = (IF n = 0 THEN NULL ELSE s[1])
      /\ list.tail = (IF n = 0 THEN NULL ELSE s[n])
      /\ Allocated = {s[i] : i \in 1..n}
  BY Links DEF IsBehind, TypeOK
<1>3. CASE AddFirst(x, object)
  BY <1>3, FirstInserts
<1>4. CASE /\ list.head # NULL
           /\ heap' = SetNext(ll_create_node(heap, x, list.tail, NULL, object), list.tail, x)
           /\ Added(x, list.head, x)
  <2>1. n # 0 /\ n \in 0..n /\ list.tail = s[n] /\ s[n] # x /\ s[n] \in Node
    BY <1>1, <1>2, <1>4
  <2>2. n > 0 /\ ~(n < n)
    BY <1>2, <2>1
  <2>3. heap' = SetNext(ll_create_node(heap, x, s[n], NULL, object), s[n], x)
    BY <1>4, <2>1
  <2>4. heap' = LinkedHeap(s, n, n, x, object)
    BY <1>2, <2>1, <2>2, <2>3 DEF SetNext, ll_create_node, LinkedHeap
  <2>5. Added(x, IF n = 0 THEN x ELSE list.head, IF n = n THEN x ELSE list.tail)
    BY <1>4, <2>1
  <2> QED  BY <1>1, <2>1, <2>4, <2>5, LinkedHeapInserts
<1> QED  BY <1>1, <1>3, <1>4

LEMMA AddFrontInserts ==
  ASSUME TypeOK, NEW n, NEW s, IsBehind(s, n), NEW object \in Object, ll_add_front(object)
  PROVE  \E x \in Node : Inserts(s, n, 0, x, object)
<1>1. PICK x \in Node \ Allocated :
        \/ AddFirst(x, object)
        \/ /\ list.head # NULL
           /\ heap' = SetPrev(ll_create_node(heap, x, NULL, list.head, object), list.head, x)
           /\ Added(x, x, list.tail)
  BY DEF ll_add_front
<1>2. /\ n \in Nat /\ s \in [1..n -> Node] /\ heap \in [Node -> ll_node \cup {NULL}]
      /\ list.head = (IF n = 0 THEN NULL ELSE s[1])
      /\ Allocated = {s[i] : i \in 1..n}
  BY Links DEF IsBehind, TypeOK
<1>3. CASE AddFirst(x, object)
  BY <1>3, FirstInserts
<1>4. CASE /\ list.head # NULL
           /\ heap' = SetPrev(ll_create_node(heap, x, NULL, list.head, object), list.head, x)
           /\ Added(x, x, list.tail)
  <2>1. n # 0 /\ 0 # n /\ 0 \in 0..n /\ list.head = s[1] /\ s[1] # x /\ s[1] \in Node
    BY <1>1, <1>2, <1>4
  <2>2. 0 < n /\ ~(0 > 0) /\ 0 + 1 = 1
    BY <1>2, <2>1
  <2>3. heap' = [m \in Node |->
                   IF m = x THEN [next |-> s[1], prev |-> NULL, object |-> object]
                   ELSE IF m = s[1] THEN [heap[m] EXCEPT !.prev = x] ELSE heap[m]]
    BY <1>2, <1>4, <2>1 DEF SetPrev, ll_create_node
  <2>4. heap' = LinkedHeap(s, n, 0, x, object)
    BY <2>1, <2>2, <2>3 DEF LinkedHeap
  <2>5. Added(x, IF 0 = 0 THEN x ELSE list.head, IF 0 = n THEN x ELSE list.tail)
    BY <1>4, <2>1
  <2> QED  BY <1>1, <2>1, <2>4, <2>5, LinkedHeapInserts
<1> QED  BY <1>1, <1>3, <1>4

LEMMA AddAfterInserts ==
  ASSUME TypeOK, NEW n, NEW s, IsBehind(s, n), NEW object \in Object,
         NEW k \in 1..n, ll_add_after(s[k], object)
  PROVE  \E x \in Node : Inserts(s, n, k, x, object)
<1> DEFINE next == heap[s[k]].next
<1>1. PICK x \in Node \ Allocated :
        LET created == ll_create_node(heap, x, s[k], next, object)
            linked == IF next # NULL THEN SetPrev(created, next, x) ELSE created
        IN  /\ heap' = SetNext(linked, s[k], x)
            /\ Added(x, list.head, IF s[k] = list.tail THEN x ELSE list.tail)
  BY DEF ll_add_after
<1>2. /\ n \in Nat /\ s \in [1..n -> Node] /\ heap \in [Node -> ll_node \cup {NULL}]
      /\ list.tail = (IF n = 0 THEN NULL ELSE s[n])
      /\ Allocated = {s[i] : i \in 1..n} /\ NULL \notin Node
      /\ next = (IF k = n THEN NULL ELSE s[k + 1])
      /\ \A i, j \in 1..n : s[i] = s[j] => i = j
  BY Links, NullAssumption DEF IsBehind, TypeOK
<1>3. /\ k \in 0..n /\ k > 0 /\ k # 0 /\ s[k] # x /\ s[k] \in Node
      /\ s[k] = list.tail <=> k = n
  BY <1>1, <1>2
<1>4. Added(x, IF k = 0 THEN x ELSE list.head, IF k = n THEN x ELSE list.tail)
  BY <1>1, <1>3
<1>5. CASE k = n
  <2>1. next = NULL /\ ~(k < n)
    BY <1>2, <1>5
  <2>2. heap' = SetNext(ll_create_node(heap, x, s[k], next, object), s[k], x)
    BY <1>1, <2>1
  <2> HIDE DEF next
  <2>3. heap' = LinkedHeap(s, n, k, x, object)
    BY <1>2, <1>3, <1>5, <2>1, <2>2 DEF SetNext, ll_create_node, LinkedHeap
  <2> QED  BY <1>3, <1>4, <2>3, LinkedHeapInserts
<1>6. CASE k # n
  <2>1. /\ next = s[k + 1] /\ next # NULL /\ k < n /\ s[k + 1] # x /\ s[k + 1] \in Node
        /\ s[k + 1] # s[k]
    BY <1>1, <1>2, <1>6
  <2>2. heap' = SetNext(SetPrev(ll_create_node(heap, x, s[k], next, object), next, x), s[k], x)
    BY <1>1, <2>1
  <2> HIDE DEF next
  <2>3. heap' = LinkedHeap(s, n, k, x, object)
    BY <1>2, <1>3, <1>6, <2>1, <2>2 DEF SetNext, SetPrev, ll_create_node, LinkedHeap
  <2> QED  BY <1>3, <1>4, <2>3, LinkedHeapInserts
<1> QED  BY <1>5, <1>6

(* The heap without the k-th node.                                          *)
UnlinkedHeap(s, n, k) ==
  [m \in Node |->
     IF m = s[k] THEN NULL
     ELSE IF k > 1 /\ m = s[k - 1] THEN [heap[m] EXCEPT !.next = heap[s[k]].next]
     ELSE IF k < n /\ m = s[k + 1] THEN [heap[m] EXCEPT !.prev = heap[s[k]].prev]
     ELSE heap[m]]

LEMMA UnlinkedHeapDeletes ==
  ASSUME TypeOK, NEW n, NEW s, IsBehind(s, n), NEW k \in 1..n,
         heap' = UnlinkedHeap(s, n, k),
         list' = [head |-> IF k = 1 THEN heap[s[k]].next ELSE list.head,
                  tail |-> IF k = n THEN heap[s[k]].prev ELSE list.tail,
                  length |-> list.length - 1],
         result' = heap[s[k]].object
  PROVE  Deletes(s, n, k)
<1>1. /\ n \in Nat /\ s \in [1..n -> Node] /\ NULL \notin Node /\ NULL \notin ll_node
      /\ n = list.length /\ heap \in [Node -> ll_node \cup {NULL}]
      /\ \A i \in 1..n : s[i] \in Allocated
      /\ \A i, j \in 1..n : s[i] = s[j] => i = j
  BY BehindFacts, Zenon
<1>0. \A m \in Allocated : \E i \in 1..n : m = s[i]
  BY Links
<1>2. \A i \in 1..n : heap[s[i]] \in ll_node /\ s[i] \in Node
  BY <1>1 DEF Allocated
<1>9. n \in Nat /\ k \in 1..n /\ \A i, j \in 1..n : s[i] = s[j] => i = j
  BY <1>1
<1>3. /\ heap[s[k]].next \in Node \cup {NULL} /\ heap[s[k]].prev \in Node \cup {NULL}
  BY <1>2 DEF ll_node
<1>4. ASSUME NEW i \in 1..n, i # k
      PROVE  /\ heap'[s[i]] \in ll_node
             /\ heap'[s[i]].object = heap[s[i]].object
             /\ heap'[s[i]].next = IF i = k - 1 THEN heap[s[k]].next ELSE heap[s[i]].next
             /\ heap'[s[i]].prev = IF i = k + 1 THEN heap[s[k]].prev ELSE heap[s[i]].prev
  <2>1. heap[s[i]] \in ll_node /\ s[i] \in Node /\ s[i] # s[k]
    BY <1>1, <1>2, <1>4
  <2>2. CASE i = k - 1
    <3>1. k > 1 /\ s[i] = s[k - 1] /\ i # k + 1
      BY <1>9, <2>2
    <3>2. heap'[s[i]] = [heap[s[i]] EXCEPT !.next = heap[s[k]].next]
      BY <2>1, <3>1 DEF UnlinkedHeap
    <3> QED  BY <1>3, <2>1, <2>2, <3>1, <3>2 DEF ll_node
  <2>3. CASE i = k + 1
    <3>1. (k > 1 => s[i] # s[k - 1]) /\ k < n /\ i # k - 1 /\ s[i] = s[k + 1]
      BY <1>9, <2>3
    <3>2. heap'[s[i]] = [heap[s[i]] EXCEPT !.prev = heap[s[k]].prev]
      BY <2>1, <3>1 DEF UnlinkedHeap
    <3> QED  BY <1>3, <2>1, <2>3, <3>1, <3>2 DEF ll_node
  <2>4. CASE i # k - 1 /\ i # k + 1
    <3>1. (k > 1 => s[i] # s[k - 1]) /\ (k < n => s[i] # s[k + 1])
      BY <1>9, <2>4
    <3>2. heap'[s[i]] = heap[s[i]]
      BY <2>1, <3>1 DEF UnlinkedHeap
    <3> QED  BY <2>1, <2>4, <3>2
  <2> QED  BY <2>2, <2>3, <2>4
<1>5. heap'[s[k]] = NULL
  BY <1>2 DEF UnlinkedHeap
<1>6. \A m \in Node : m \notin Allocated => heap'[m] = NULL
  <2> SUFFICES ASSUME NEW m \in Node, m \notin Allocated PROVE heap'[m] = NULL
    OBVIOUS
  <2>1. heap[m] = NULL /\ \A i \in 1..n : m # s[i]
    BY <1>1 DEF Allocated
  <2>2. (k > 1 => m # s[k - 1]) /\ (k < n => m # s[k + 1])
    BY <1>1, <2>1
  <2> QED  BY <2>1, <2>2 DEF UnlinkedHeap
<1>7. heap' \in [Node -> ll_node \cup {NULL}]
  <2>1. \A m \in Node : heap'[m] \in ll_node \cup {NULL}
    BY <1>0, <1>4, <1>5, <1>6
  <2>2. heap' = [m \in Node |-> heap'[m]]
    BY DEF UnlinkedHeap
  <2> QED  BY <2>1, <2>2
<1>8. \A i \in 1..n : i # k => heap'[s[i]] # NULL
  BY <1>1, <1>4
<1> QED  BY <1>1, <1>4, <1>5, <1>6, <1>7, <1>8 DEF Deletes

LEMMA RemoveDeletes ==
  ASSUME TypeOK, NEW n, NEW s, IsBehind(s, n), NEW k \in 1..n, ll_remove(s[k])
  PROVE  Deletes(s, n, k)
<1> DEFINE next == heap[s[k]].next
           prev == heap[s[k]].prev
           ahead == IF s[k] = list.head THEN heap ELSE SetNext(heap, prev, next)
           behind == IF s[k] = list.tail THEN ahead ELSE SetPrev(ahead, next, prev)
<1>1. /\ n \in Nat /\ s \in [1..n -> Node] /\ heap \in [Node -> ll_node \cup {NULL}]
      /\ list.head = s[1] /\ list.tail = s[n]
      /\ next = (IF k = n THEN NULL ELSE s[k + 1])
      /\ prev = (IF k = 1 THEN NULL ELSE s[k - 1])
      /\ \A i, j \in 1..n : s[i] = s[j] => i = j
  BY Links DEF IsBehind, TypeOK
<1>2. /\ s[k] \in Node /\ (s[k] = list.head <=> k = 1) /\ (s[k] = list.tail <=> k = n)
  BY <1>1
<1>3. /\ heap' = [behind EXCEPT ![s[k]] = NULL]
      /\ list' = [head |-> IF s[k] = list.head THEN next ELSE list.head,
                  tail |-> IF s[k] = list.tail THEN prev ELSE list.tail,
                  length |-> list.length - 1]
      /\ result' = heap[s[k]].object
  BY Zenon DEF ll_remove
<1>4. list' = [head |-> IF k = 1 THEN heap[s[k]].next ELSE list.head,
               tail |-> IF k = n THEN heap[s[k]].prev ELSE list.tail,
               length |-> list.length - 1]
  BY <1>2, <1>3
<1>5. ahead = IF k = 1 THEN heap ELSE SetNext(heap, s[k - 1], next)
  BY <1>1, <1>2, Zenon
<1>6. behind = IF k = n THEN ahead ELSE SetPrev(ahead, s[k + 1], prev)
  BY <1>1, <1>2, Zenon
<1>7. /\ k # 1 => k > 1 /\ s[k - 1] \in Node /\ s[k - 1] # s[k]
      /\ k # n => k < n /\ s[k + 1] \in Node /\ s[k + 1] # s[k]
      /\ k # 1 /\ k # n => s[k - 1] # s[k + 1]
      /\ (k > 1 => k # 1) /\ (k < n => k # n)
  BY <1>1
<1> HIDE DEF ahead, behind
<1>8. heap' = UnlinkedHeap(s, n, k)
  <2>1. /\ DOMAIN ahead = Node
        /\ \A m \in Node : ahead[m] = IF k # 1 /\ m = s[k - 1]
                                      THEN [heap[m] EXCEPT !.next = next] ELSE heap[m]
    BY <1>1, <1>5, <1>7 DEF SetNext
  <2>2. /\ DOMAIN behind = Node
        /\ \A m \in Node : behind[m] = IF k # n /\ m = s[k + 1]
                                       THEN [ahead[m] EXCEPT !.prev = prev] ELSE ahead[m]
    BY <1>6, <1>7, <2>1 DEF SetPrev
  <2>3. \A m \in Node : behind[m] =
          IF k # 1 /\ m = s[k - 1] THEN [heap[m] EXCEPT !.next = next]
          ELSE IF k # n /\ m = s[k + 1] THEN [heap[m] EXCEPT !.prev = prev] ELSE heap[m]
    BY <1>7, <2>1, <2>2, Zenon
  <2>4. (k # 1 <=> k > 1) /\ (k # n <=> k < n)
    BY <1>7
  <2>5. heap' = [m \in Node |-> IF m = s[k] THEN NULL ELSE behind[m]]
    BY <1>2, <1>3, <2>2
  <2>6. ASSUME NEW m \in Node
        PROVE  heap'[m] = UnlinkedHeap(s, n, k)[m]
    BY <2>3, <2>4, <2>5, Zenon DEF UnlinkedHeap
  <2> QED  BY <2>5, <2>6, Zenon DEF UnlinkedHeap
<1> QED  BY <1>3, <1>4, <1>8, UnlinkedHeapDeletes
-----------------------------------------------------------------------------
(* The invariant *)

LEMMA BehindIsWellLinked ==
  ASSUME NEW n, NEW s, IsBehind(s, n)
  PROVE  WellLinked
BY DEF IsBehind, WellLinked

LEMMA CreateFacts ==
  ASSUME ListInv, ll_create
  PROVE  TypeOK' /\ IsBehind(<<>>, 0)'
<1>1. list = NULL /\ Allocated = {} /\ heap' = heap
  BY DEF ll_create, ListInv, WellLinked
<1>2. list' # NULL /\ list' \in linked_list /\ list' = [head |-> NULL, tail |-> NULL, length |-> 0]
  BY NotNull DEF ll_create, linked_list
<1>3. TypeOK'
  BY <1>1, <1>2 DEF ListInv, TypeOK
<1>4. Allocated' = {}
  BY <1>1 DEF Allocated
<1>5. 1..0 = {} /\ <<>> \in [1..0 -> Node]
  OBVIOUS
<1>6. Represents(<<>>)'
  BY <1>2, <1>4, <1>5 DEF Represents
<1> QED  BY <1>2, <1>3, <1>5, <1>6 DEF IsBehind

(* ll_destroy() meets every node.                                           *)
LEMMA DestroyFacts ==
  ASSUME ListInv, ll_destroy
  PROVE  TypeOK' /\ Allocated' = {} /\ list' = NULL
<1>1. PICK n \in Nat : \E s \in [1..n -> Node] : IsBehind(s, n)
  BY Behind DEF ll_destroy
<1>2. PICK s \in [1..n -> Node] : IsBehind(s, n)
  BY <1>1
<1>3. /\ Allocated = {s[i] : i \in 1..n} /\ NULL \notin Node
      /\ list.head = IF n = 0 THEN NULL ELSE s[1]
  BY <1>2, Links, NullAssumption
<1>4. ASSUME NEW m \in Allocated
      PROVE  list.head # NULL /\ m \in WalkFrom(list.head)
  <2>1. n # 0 /\ 1 \in 1..n /\ list.head = s[1] /\ s[1] \in Node
    BY <1>3
  <2>2. WalkFrom(s[1]) = {s[j] : j \in 1..n}
    BY <1>2, <2>1, WalkFacts
  <2> QED  BY <1>3, <2>1, <2>2
<1>5. ASSUME NEW m \in Node PROVE heap'[m] = NULL
  <2>1. heap'[m] = IF list.head # NULL /\ m \in WalkFrom(list.head) THEN NULL ELSE heap[m]
    BY DEF ll_destroy
  <2> QED  BY <1>4, <2>1 DEF Allocated
<1>6. heap' \in [Node -> ll_node \cup {NULL}]
  <2>1. heap' = [m \in Node |-> heap'[m]]
    BY DEF ll_destroy
  <2> QED  BY <1>5, <2>1
<1> QED  BY <1>5, <1>6 DEF TypeOK, Allocated, ll_destroy

LEMMA ListInvStep ==
  ASSUME ListInv, [Next]_vars
  PROVE  ListInv'
<1>1. CASE UNCHANGED <<heap, list>>
  BY <1>1 DEF ListInv, TypeOK, WellLinked, Represents, Allocated
<1>2. CASE ll_create
  <2>1. TypeOK' /\ IsBehind(<<>>, 0)'
    BY <1>2, CreateFacts
  <2> QED  BY <2>1 DEF ListInv, IsBehind, WellLinked
<1>3. CASE ll_destroy
  BY <1>3, DestroyFacts DEF ListInv, WellLinked
<1>4. ASSUME NEW n \in Nat, NEW s \in [1..n -> Node], IsBehind(s, n),
             NEW k, NEW x, NEW object, Inserts(s, n, k, x, object)
      PROVE  ListInv'
  <2>1. TypeOK' /\ IsBehind(With(s, n, k, x), n + 1)'
    BY <1>4, InsertsFacts
  <2> QED  BY <2>1 DEF ListInv, IsBehind, WellLinked
<1>5. ASSUME NEW object \in Object, ll_add(object) \/ ll_add_front(object)
      PROVE  ListInv'
  <2>1. list # NULL /\ TypeOK
    BY <1>5 DEF ll_add, ll_add_front, ListInv
  <2>2. PICK n \in Nat : \E s \in [1..n -> Node] : IsBehind(s, n)
    BY <2>1, Behind
  <2>3. PICK s \in [1..n -> Node] : IsBehind(s, n)
    BY <2>2
  <2>4. \E k, x : Inserts(s, n, k, x, object)
    BY <1>5, <2>1, <2>3, AddInserts, AddFrontInserts
  <2> QED  BY <1>4, <2>3, <2>4
<1>6. ASSUME NEW node \in Allocated, list # NULL
      PROVE  \E n \in Nat : \E s \in [1..n -> Node] : \E k \in 1..n :
               IsBehind(s, n) /\ node = s[k]
  <2>1. PICK n \in Nat : \E s \in [1..n -> Node] : IsBehind(s, n)
    BY <1>6, Behind
  <2>2. PICK s \in [1..n -> Node] : IsBehind(s, n)
    BY <2>1
  <2>3. Allocated = {s[i] : i \in 1..n}
    BY <2>2, Links
  <2> QED  BY <2>2, <2>3
<1>7. ASSUME NEW node \in Allocated, NEW object \in Object, ll_add_after(node, object)
      PROVE  ListInv'
  <2>1. list # NULL /\ TypeOK
    BY <1>7 DEF ll_add_after, ListInv
  <2>2. PICK n \in Nat : \E s \in [1..n -> Node] : \E k \in 1..n :
               IsBehind(s, n) /\ node = s[k]
    BY <1>6, <2>1
  <2>3. PICK s \in [1..n -> Node] : \E k \in 1..n : IsBehind(s, n) /\ node = s[k]
    BY <2>2
  <2>4. PICK k \in 1..n : IsBehind(s, n) /\ node = s[k]
    BY <2>3
  <2>5. \E x \in Node : Inserts(s, n, k, x, object)
    BY <1>7, <2>1, <2>4, AddAfterInserts
  <2> QED  BY <1>4, <2>4, <2>5
<1>8. ASSUME NEW node \in Allocated, ll_remove(node)
      PROVE  ListInv'
  <2>1. list # NULL /\ TypeOK
    BY <1>8 DEF ll_remove, ListInv
  <2>2. PICK n \in Nat : \E s \in [1..n -> Node] : \E k \in 1..n :
               IsBehind(s, n) /\ node = s[k]
    BY <1>6, <2>1
  <2>3. PICK s \in [1..n -> Node] : \E k \in 1..n : IsBehind(s, n) /\ node = s[k]
    BY <2>2
  <2>4. PICK k \in 1..n : IsBehind(s, n) /\ node = s[k]
    BY <2>3
  <2>5. Deletes(s, n, k)
    BY <1>8, <2>1, <2>4, RemoveDeletes
  <2>6. TypeOK' /\ IsBehind(Without(s, n, k), n - 1)'
    BY <2>4, <2>5, DeletesFacts
  <2> QED  BY <2>6 DEF ListInv, IsBehind, WellLinked
<1> QED
  <2>1. \A object \in Object : ll_find(object) => UNCHANGED <<heap, list>>
    BY DEF ll_find
  <2>2. ll_front \/ ll_back \/ ll_length \/ NullCall \/ UNCHANGED vars
          => UNCHANGED <<heap, list>>
    BY DEF ll_front, ll_back, ll_length, NullCall, vars
  <2> QED  BY <1>1, <1>2, <1>3, <1>5, <1>7, <1>8, <2>1, <2>2 DEF Next

(* Nodes and list have their C types, and the pointers of ctcp_linked_list.c*)
(* form one list both ways, whose length is counted right and from which no *)
(* node leaks, for any number of nodes and objects.                         *)
THEOREM ListIsWellLinked == Spec => [](TypeOK /\ WellLinked)
<1>1. Init => ListInv
  BY DEF Init, ListInv, TypeOK, WellLinked, Allocated
<1>2. ListInv /\ [Next]_vars => ListInv'
  BY ListInvStep
<1> QED  BY <1>1, <1>2, PTL DEF Spec, ListInv

(* ll_create(), ll_add*(), ll_remove() and ll_destroy() leave in every node *)
(* and in the list only NULL or pointers to nodes, and a length in Nat.     *)
THEOREM ListTypeCorrect == Spec => []TypeOK
<1>1. TypeOK /\ WellLinked => TypeOK
  OBVIOUS
<1> QED  BY <1>1, ListIsWellLinked, PTL
-----------------------------------------------------------------------------
(* The refinement *)

LEMMA ItemsFacts ==
  ASSUME NEW n, NEW s, IsBehind(s, n)
  PROVE  /\ Items = [i \in 1..n |-> Element(s[i])] /\ n \in Nat
         /\ Len(Items) = n /\ DOMAIN Items = 1..n
         /\ Abstract!Nodes(Items) = Allocated
<1>1. n \in Nat /\ list # NULL /\ n = list.length
  BY DEF IsBehind
<1>2. Items = [i \in 1..n |-> Element(s[i])]
  BY <1>1, ContentsIsBehind DEF Items
<1>3. \A i \in 1..n : Items[i].node = s[i]
  BY <1>2 DEF Element
<1>4. Len(Items) = n /\ DOMAIN Items = 1..n
  BY <1>1, <1>2
<1>5. Abstract!Nodes(Items) = {s[i] : i \in 1..n}
  BY <1>3, <1>4 DEF Abstract!Nodes
<1>6. Allocated = {s[i] : i \in 1..n}
  BY Links
<1> QED  BY <1>1, <1>2, <1>4, <1>5, <1>6, Zenon

ItemsAreBehind ==
  \A n, s : IsBehind(s, n) => Items = [i \in 1..n |-> Element(s[i])]

LEMMA ItemsOfBehind == ItemsAreBehind
BY ItemsFacts DEF ItemsAreBehind

LEMMA InsertsIsAddAt ==
  ASSUME NEW n, NEW s, IsBehind(s, n), NEW k, NEW x, NEW object,
         Inserts(s, n, k, x, object)
  PROVE  Abstract!AddAt(k, object)
<1> DEFINE e == [node |-> x, object |-> object]
           t == With(s, n, k, x)
<1>1. /\ Items = [i \in 1..n |-> Element(s[i])] /\ n \in Nat
      /\ Len(Items) = n /\ Abstract!Nodes(Items) = Allocated
  BY ItemsFacts
<1>2. /\ k \in 0..n /\ x \in Node \ Allocated /\ object \in Object /\ result' = x
      /\ heap'[x].object = object
      /\ \A i \in 1..n : heap'[s[i]].object = heap[s[i]].object
  BY DEF Inserts
<1>3. IsBehind(t, n + 1)'
  BY InsertsFacts
<1>4. list # NULL /\ list' # NULL
  BY <1>3 DEF IsBehind
<1>5. ItemsAreBehind'
  BY ItemsOfBehind, PTL
<1>6. Items' = [i \in 1..(n + 1) |-> [node |-> t[i], object |-> heap'[t[i]].object]]
  <2> HIDE DEF t
  <2> QED  BY <1>3, <1>5 DEF Element, ItemsAreBehind
<1>7. Items' = Abstract!Insert(Items, k, e)
  <2>1. ASSUME NEW j \in 1..(n + 1)
        PROVE  [node |-> t[j], object |-> heap'[t[j]].object]
                 = IF j <= k THEN Items[j] ELSE IF j = k + 1 THEN e ELSE Items[j - 1]
    <3>1. CASE j <= k
      <4>1. t[j] = s[j] /\ j \in 1..n
        BY <1>1, <1>2, <3>1 DEF With
      <4> QED  BY <1>1, <1>2, <3>1, <4>1 DEF Element
    <3>2. CASE j = k + 1
      <4>1. t[j] = x /\ ~(j <= k)
        BY <1>1, <1>2, <3>2 DEF With
      <4> QED  BY <1>2, <3>2, <4>1
    <3>3. CASE j > k + 1
      <4>1. t[j] = s[j - 1] /\ j - 1 \in 1..n /\ ~(j <= k) /\ j # k + 1
        BY <1>1, <1>2, <3>3 DEF With
      <4> QED  BY <1>1, <1>2, <4>1 DEF Element
    <3> QED  BY <1>1, <1>2, <3>1, <3>2, <3>3
  <2>2. Abstract!Insert(Items, k, e)
          = [j \in 1..(n + 1) |->
               IF j <= k THEN Items[j] ELSE IF j = k + 1 THEN e ELSE Items[j - 1]]
    BY <1>1 DEF Abstract!Insert
  <2> HIDE DEF t, e
  <2> QED  BY <1>6, <2>1, <2>2, Zenon
<1> QED  BY <1>1, <1>2, <1>4, <1>7 DEF Abstract!AddAt

LEMMA DeletesIsRemove ==
  ASSUME NEW n, NEW s, IsBehind(s, n), NEW k, Deletes(s, n, k),
         call' = <<"ll_remove", s[k]>>
  PROVE  k \in DOMAIN Items /\ Abstract!Remove(k)
<1> DEFINE t == Without(s, n, k)
<1>1. /\ Items = [i \in 1..n |-> Element(s[i])] /\ n \in Nat
      /\ Len(Items) = n /\ DOMAIN Items = 1..n
  BY ItemsFacts
<1>2. /\ k \in 1..n /\ result' = heap[s[k]].object
      /\ \A i \in 1..n : i # k => heap'[s[i]].object = heap[s[i]].object
  BY DEF Deletes
<1>3. IsBehind(t, n - 1)'
  BY DeletesFacts
<1>4. list # NULL /\ list' # NULL
  BY <1>3 DEF IsBehind
<1>5. ItemsAreBehind'
  BY ItemsOfBehind, PTL
<1>6. Items' = [i \in 1..(n - 1) |-> [node |-> t[i], object |-> heap'[t[i]].object]]
  <2> HIDE DEF t
  <2> QED  BY <1>3, <1>5 DEF Element, ItemsAreBehind
<1>7. Items' = Abstract!Delete(Items, k)
  <2>1. ASSUME NEW j \in 1..(n - 1)
        PROVE  [node |-> t[j], object |-> heap'[t[j]].object]
                 = IF j < k THEN Items[j] ELSE Items[j + 1]
    <3>1. CASE j < k
      <4>1. t[j] = s[j] /\ j \in 1..n /\ j # k
        BY <1>1, <1>2, <3>1 DEF Without
      <4> QED  BY <1>1, <1>2, <3>1, <4>1 DEF Element
    <3>2. CASE ~(j < k)
      <4>1. t[j] = s[j + 1] /\ j + 1 \in 1..n /\ j + 1 # k
        BY <1>1, <1>2, <3>2 DEF Without
      <4> QED  BY <1>1, <1>2, <3>2, <4>1 DEF Element
    <3> QED  BY <3>1, <3>2
  <2>2. Abstract!Delete(Items, k)
          = [j \in 1..(n - 1) |-> IF j < k THEN Items[j] ELSE Items[j + 1]]
    BY <1>1 DEF Abstract!Delete
  <2> HIDE DEF t
  <2> QED  BY <1>6, <2>1, <2>2, Zenon
<1>8. result' = Items[k].object /\ Items[k].node = s[k]
  BY <1>1, <1>2 DEF Element
<1> QED  BY <1>1, <1>2, <1>4, <1>7, <1>8 DEF Abstract!Remove

(* ll_find() returns the first node with the object, if there is one.       *)
LEMMA FindFacts ==
  ASSUME NEW n, NEW s, IsBehind(s, n), NEW object \in Object, ll_find(object)
  PROVE  \/ result' = NULL /\ \A i \in 1..n : heap[s[i]].object # object
         \/ \E i \in 1..n : /\ result' = s[i] /\ heap[s[i]].object = object
                            /\ \A j \in 1..n : j < i => heap[s[j]].object # object
<1>1. /\ n \in Nat /\ s \in [1..n -> Node] /\ NULL \notin Node
      /\ list.head = (IF n = 0 THEN NULL ELSE s[1])
      /\ \A i, j \in 1..n : s[i] = s[j] => i = j
  BY NullAssumption, Links DEF IsBehind
<1>2. Holders(object) = {s[i] : i \in {j \in 1..n : heap[s[j]].object = object}}
  <2>1. CASE n = 0
    BY <1>1, <2>1 DEF Holders
  <2>2. CASE n # 0
    <3>1. 1 \in 1..n /\ list.head = s[1] /\ list.head # NULL
      BY <1>1, <2>2
    <3>2. WalkFrom(s[1]) = {s[j] : j \in 1..n}
      BY <3>1, WalkFacts
    <3> QED  BY <1>1, <3>1, <3>2 DEF Holders
  <2> QED  BY <2>1, <2>2
<1>3. CASE Holders(object) = {}
  BY <1>2, <1>3 DEF ll_find
<1>4. CASE Holders(object) # {}
  <2>1. PICK m \in Holders(object) : Holders(object) \subseteq WalkFrom(m) /\ result' = m
    BY <1>4 DEF ll_find
  <2>2. PICK i \in 1..n : m = s[i] /\ heap[s[i]].object = object
    BY <1>2, <2>1
  <2>3. WalkFrom(s[i]) = {s[j] : j \in i..n}
    BY <2>2, WalkFacts
  <2>4. ASSUME NEW j \in 1..n, j < i, heap[s[j]].object = object
        PROVE  FALSE
    <3>1. s[j] \in {s[h] : h \in i..n}
      BY <1>2, <2>1, <2>2, <2>3, <2>4
    <3>2. PICK h \in i..n : s[j] = s[h]
      BY <3>1
    <3> QED  BY <1>1, <2>4, <3>2
  <2> QED  BY <2>1, <2>2, <2>4
<1> QED  BY <1>3, <1>4

LEMMA ItemsUnchanged ==
  ASSUME NEW n, NEW s, IsBehind(s, n), UNCHANGED <<heap, list>>
  PROVE  Items' = Items
<1>1. IsBehind(s, n)'
  BY DEF IsBehind, Represents, Allocated
<1>2. ItemsAreBehind'
  BY ItemsOfBehind, PTL
<1>3. Items' = [i \in 1..n |-> Element(s[i])']
  BY <1>1, <1>2 DEF ItemsAreBehind, Element
<1>4. Items = [i \in 1..n |-> Element(s[i])]
  BY ItemsFacts
<1> QED  BY <1>3, <1>4 DEF Element

LEMMA LookupIsAbstract ==
  ASSUME NEW n, NEW s, IsBehind(s, n), UNCHANGED <<heap, list>>,
         \/ ll_front \/ ll_back \/ ll_length
         \/ \E object \in Object : ll_find(object)
  PROVE  Abstract!Next
<1>1. /\ Items = [i \in 1..n |-> Element(s[i])] /\ n \in Nat
      /\ Len(Items) = n /\ DOMAIN Items = 1..n
  BY ItemsFacts
<1>2. \A i \in 1..n : Items[i].node = s[i] /\ Items[i].object = heap[s[i]].object
  BY <1>1 DEF Element
<1>3. list # NULL /\ list' # NULL /\ Items' = Items
  BY ItemsUnchanged DEF IsBehind
<1>4. /\ list.head = (IF n = 0 THEN NULL ELSE s[1])
      /\ list.tail = (IF n = 0 THEN NULL ELSE s[n]) /\ list.length = n
  BY Links DEF IsBehind
<1>5. Items = <<>> <=> n = 0
  BY <1>1
<1>6. n # 0 => 1 \in 1..n /\ n \in 1..n
  BY <1>1
<1>7. CASE ll_front
  <2>1. result' = IF Items = <<>> THEN NULL ELSE Items[1].node
    BY <1>2, <1>4, <1>5, <1>6, <1>7, Zenon DEF ll_front
  <2> QED  BY <1>3, <1>7, <2>1 DEF Abstract!Next, Abstract!Front, ll_front
<1>8. CASE ll_back
  <2>1. result' = IF Items = <<>> THEN NULL ELSE Items[Len(Items)].node
    BY <1>1, <1>2, <1>4, <1>5, <1>6, <1>8, Zenon DEF ll_back
  <2> QED  BY <1>3, <1>8, <2>1 DEF Abstract!Next, Abstract!Back, ll_back
<1>9. CASE ll_length
  BY <1>1, <1>3, <1>4, <1>9 DEF Abstract!Next, Abstract!Length, ll_length
<1>10. ASSUME NEW object \in Object, ll_find(object)
       PROVE  Abstract!Next
  <2>1. \/ result' = NULL /\ \A i \in 1..n : heap[s[i]].object # object
        \/ \E i \in 1..n : /\ result' = s[i] /\ heap[s[i]].object = object
                           /\ \A j \in 1..n : j < i => heap[s[j]].object # object
    BY <1>10, FindFacts
  <2>2. \/ result' = NULL /\ \A i \in DOMAIN Items : Items[i].object # object
        \/ \E i \in DOMAIN Items : /\ result' = Items[i].node /\ Items[i].object = object
                           /\ \A j \in DOMAIN Items : j < i => Items[j].object # object
    <3>1. CASE result' = NULL /\ \A i \in 1..n : heap[s[i]].object # object
      BY <1>1, <1>2, <3>1
    <3>2. CASE \E i \in 1..n : /\ result' = s[i] /\ heap[s[i]].object = object
                              /\ \A j \in 1..n : j < i => heap[s[j]].object # object
      <4>1. PICK i \in 1..n : /\ result' = s[i] /\ heap[s[i]].object = object
                             /\ \A j \in 1..n : j < i => heap[s[j]].object # object
        BY <3>2
      <4>2. /\ i \in DOMAIN Items /\ result' = Items[i].node /\ Items[i].object = object
            /\ \A j \in DOMAIN Items : j < i => Items[j].object # object
        BY <1>1, <1>2, <4>1
      <4> QED  BY <4>2
    <3> QED  BY <2>1, <3>1, <3>2
  <2>4. call' = <<"ll_find", object>>
    BY <1>10 DEF ll_find
  <2>3. Abstract!Find(object)
    BY <1>3, <2>2, <2>4 DEF Abstract!Find
  <2> QED  BY <2>3 DEF Abstract!Next
<1> QED  BY <1>7, <1>8, <1>9, <1>10

LEMMA StepIsAbstract ==
  ASSUME ListInv, [Next]_vars
  PROVE  [Abstract!Next]_(Abstract!vars)
<1>0. TypeOK
  BY DEF ListInv
<1>1. CASE list = NULL
  <2>1. Items = <<>>
    BY <1>1 DEF Items
  <2>2. CASE ll_create
    <3>1. IsBehind(<<>>, 0)'
      BY <2>2, CreateFacts
    <3>2. ItemsAreBehind'
      BY ItemsOfBehind, PTL
    <3>3. list' # NULL
      BY <3>1 DEF IsBehind
    <3>5. PICK n, s : IsBehind(s, n)' /\ n = 0
      BY <3>1
    <3>6. Items' = [i \in 1..n |-> Element(s[i])']
      BY <3>2, <3>5 DEF ItemsAreBehind, Element
    <3>4. Items' = <<>>
      BY <3>5, <3>6
    <3> QED  BY <1>1, <2>1, <2>2, <3>3, <3>4 DEF Abstract!Next, Abstract!Create, ll_create
  <2>3. CASE NullCall \/ UNCHANGED vars
    <3>1. Items' = <<>> /\ list' = NULL
      BY <1>1, <2>3 DEF NullCall, vars, Items
    <3> QED  BY <1>1, <2>1, <2>3, <3>1
             DEF Abstract!Next, Abstract!NullCall, Abstract!vars, NullCall, Checking, vars
  <2> QED  BY <1>1, <2>2, <2>3
           DEF Next, ll_destroy, ll_front, ll_back, ll_length, ll_add, ll_add_front, ll_find,
               ll_add_after, ll_remove
<1>2. CASE list # NULL
  <2>1. PICK n \in Nat : \E s \in [1..n -> Node] : IsBehind(s, n)
    BY <1>2, Behind
  <2>2. PICK s \in [1..n -> Node] : IsBehind(s, n)
    BY <2>1
  <2>3. \A node \in Allocated : \E k \in 1..n : node = s[k]
    BY <2>2, Links
  <2>4. CASE ll_destroy
    <3>1. list' = NULL /\ Items' = <<>>
      BY <2>4 DEF ll_destroy, Items
    <3> QED  BY <1>2, <2>4, <3>1 DEF Abstract!Next, Abstract!Destroy, ll_destroy
  <2>5. CASE NullCall \/ UNCHANGED vars
    <3>1. UNCHANGED <<heap, list>>
      BY <2>5 DEF NullCall, vars
    <3>2. Items' = Items
      BY <2>2, <3>1, ItemsUnchanged
    <3> QED  BY <1>2, <2>5, <3>1, <3>2
             DEF Abstract!Next, Abstract!NullCall, Abstract!vars, NullCall, Checking, vars
  <2>6. CASE ll_front \/ ll_back \/ ll_length \/ \E object \in Object : ll_find(object)
    <3>1. UNCHANGED <<heap, list>>
      BY <2>6 DEF ll_front, ll_back, ll_length, ll_find
    <3> QED  BY <2>2, <2>6, <3>1, LookupIsAbstract
  <2>7. ASSUME NEW object \in Object, ll_add(object) \/ ll_add_front(object)
        PROVE  Abstract!Next
    <3>1. Len(Items) = n
      BY <2>2, ItemsFacts
    <3>2. CASE ll_add(object)
      <4>1. \E x \in Node : Inserts(s, n, n, x, object)
        BY <1>0, <2>2, <3>2, AddInserts
      <4>2. Abstract!AddAt(n, object)
        BY <2>2, <4>1, InsertsIsAddAt
      <4>3. call' = <<"ll_add", object>>
        BY <3>2 DEF ll_add
      <4>4. Abstract!Add(object)
        BY <3>1, <4>2, <4>3 DEF Abstract!Add
      <4> QED  BY <4>4 DEF Abstract!Next
    <3>3. CASE ll_add_front(object)
      <4>1. \E x \in Node : Inserts(s, n, 0, x, object)
        BY <1>0, <2>2, <3>3, AddFrontInserts
      <4>2. Abstract!AddAt(0, object)
        BY <2>2, <4>1, InsertsIsAddAt
      <4>3. call' = <<"ll_add_front", object>>
        BY <3>3 DEF ll_add_front
      <4>4. Abstract!AddFront(object)
        BY <4>2, <4>3 DEF Abstract!AddFront
      <4> QED  BY <4>4 DEF Abstract!Next
    <3> QED  BY <2>7, <3>2, <3>3
  <2>8. ASSUME NEW node \in Allocated, NEW object \in Object, ll_add_after(node, object)
        PROVE  Abstract!Next
    <3>1. PICK k \in 1..n : node = s[k]
      BY <2>3
    <3>2. \E x \in Node : Inserts(s, n, k, x, object)
      BY <1>0, <2>2, <2>8, <3>1, AddAfterInserts
    <3>3. Abstract!AddAt(k, object)
      BY <2>2, <3>2, InsertsIsAddAt
    <3>4. k \in DOMAIN Items /\ Items[k].node = s[k]
      BY <2>2, ItemsFacts DEF Element
    <3>5. call' = <<"ll_add_after", s[k], object>>
      BY <2>8, <3>1 DEF ll_add_after
    <3>6. Abstract!AddAfter(k, object)
      BY <3>3, <3>4, <3>5 DEF Abstract!AddAfter
    <3> QED  BY <3>4, <3>6 DEF Abstract!Next
  <2>9. ASSUME NEW node \in Allocated, ll_remove(node)
        PROVE  Abstract!Next
    <3>1. PICK k \in 1..n : node = s[k]
      BY <2>3
    <3>2. Deletes(s, n, k)
      BY <1>0, <2>2, <2>9, <3>1, RemoveDeletes
    <3>3. call' = <<"ll_remove", s[k]>>
      BY <2>9, <3>1 DEF ll_remove
    <3>4. k \in DOMAIN Items /\ Abstract!Remove(k)
      BY <2>2, <3>2, <3>3, DeletesIsRemove
    <3> QED  BY <3>4 DEF Abstract!Next
  <2>10. ~ll_create
    BY <1>2 DEF ll_create
  <2> QED  BY <2>4, <2>5, <2>6, <2>7, <2>8, <2>9, <2>10 DEF Next
<1> QED  BY <1>1, <1>2

(* Every call of ctcp_linked_list.c does to the sequence of objects, and    *)
(* returns, what the header file promises of that function for its          *)
(* arguments: ll_add() appends, ll_remove(n) takes out n, ll_find() returns *)
(* the first match.                                                         *)
THEOREM ListRefinement == Spec => ImplementsList
<1>1. Init => Abstract!Init
  BY DEF Init, Abstract!Init, Items
<1>2. Init => ListInv
  BY DEF Init, ListInv, TypeOK, WellLinked, Allocated
<1>3. ListInv /\ [Next]_vars => ListInv'
  BY ListInvStep
<1>4. ListInv /\ [Next]_vars => [Abstract!Next]_(Abstract!vars)
  BY StepIsAbstract
<1> QED  BY <1>1, <1>2, <1>3, <1>4, PTL DEF Spec, ImplementsList, Abstract!Spec
=============================================================================
