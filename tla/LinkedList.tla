----------------------------- MODULE LinkedList -----------------------------
(***************************************************************************)
(* The doubly linked list of ctcp_linked_list.c: a heap of nodes and one   *)
(* list.  Every function is an action; a call with a NULL argument is      *)
(* NullCall.  A caller passes nodes it was given and that are still there: *)
(* those of the list, since no node is outside of it (Represents).         *)
(***************************************************************************)
EXTENDS Integers, Sequences

CONSTANTS Node,    \* addresses calloc() may return for a node
          Object,  \* objects (pointers) put into the list
          NULL

ll_node == [next : Node \cup {NULL}, prev : Node \cup {NULL}, object : Object]
linked_list == [head : Node \cup {NULL}, tail : Node \cup {NULL}, length : Nat]

ASSUME NullAssumption == /\ NULL \notin Node /\ NULL \notin Object
                         /\ NULL \notin ll_node /\ NULL \notin linked_list

VARIABLES
  heap,   \* the nodes; NULL: not allocated
  list,   \* the list; NULL: not created or destroyed
  call,   \* the last call: function and arguments other than the list
  result  \* its value

vars == <<heap, list, call, result>>

Allocated == {n \in Node : heap[n] # NULL}

Init == /\ heap = [n \in Node |-> NULL]
        /\ list = NULL
        /\ call = <<>> /\ result = NULL

SetNext(h, n, next) == [h EXCEPT ![n] = [@ EXCEPT !.next = next]]
SetPrev(h, n, prev) == [h EXCEPT ![n] = [@ EXCEPT !.prev = prev]]

(* calloc() of a node that is linked to its neighbours already.             *)
ll_create_node(h, n, prev, next, object) ==
  [h EXCEPT ![n] = [next |-> next, prev |-> prev, object |-> object]]

-----------------------------------------------------------------------------

ll_create ==
  /\ call' = <<"ll_create">>
  /\ list = NULL
  /\ list' = [head |-> NULL, tail |-> NULL, length |-> 0]
  /\ result' = NULL
  /\ UNCHANGED heap

(* The nodes that a walk along next meets, from n on: those in every set    *)
(* that holds n and, with a node, its successor.                            *)
Closed(S) == \A m \in S : heap[m].next # NULL => heap[m].next \in S
WalkFrom(n) == {m \in Node : \A S \in SUBSET Allocated : n \in S /\ Closed(S) => m \in S}

ll_destroy ==
  /\ call' = <<"ll_destroy">>
  /\ list # NULL
  /\ heap' = [n \in Node |-> IF list.head # NULL /\ n \in WalkFrom(list.head)
                             THEN NULL ELSE heap[n]]
  /\ list' = NULL
  /\ result' = NULL

(* The list has one node more, n, which is returned.                        *)
Added_NoCount(n, head, tail) ==
  /\ list' = [head |-> head, tail |-> tail, length |-> list.length]
  /\ result' = n
Added(n, head, tail) ==
  /\ list' = [head |-> head, tail |-> tail, length |-> list.length + 1]
  /\ result' = n

AddFirst(n, object) ==
  /\ list.head = NULL
  /\ heap' = ll_create_node(heap, n, NULL, NULL, object)
  /\ Added(n, n, n)

ll_add(object) ==
  /\ call' = <<"ll_add", object>>
  /\ \E n \in Node \ Allocated :
       /\ list # NULL
       /\ \/ AddFirst(n, object)
          \/ /\ list.head # NULL
             /\ heap' = SetNext(ll_create_node(heap, n, list.tail, NULL, object),
                                list.tail, n)
             /\ Added(n, list.head, n)

ll_add_front(object) ==
  /\ call' = <<"ll_add_front", object>>
  /\ \E n \in Node \ Allocated :
       /\ list # NULL
       /\ \/ AddFirst(n, object)
          \/ /\ list.head # NULL
             /\ heap' = SetPrev(ll_create_node(heap, n, NULL, list.head, object),
                                list.head, n)
             /\ Added(n, n, list.tail)

ll_add_after(node, object) ==
  /\ call' = <<"ll_add_after", node, object>>
  /\ \E n \in Node \ Allocated :
       LET next == heap[node].next
           created == ll_create_node(heap, n, node, next, object)
           linked == IF next # NULL THEN SetPrev(created, next, n) ELSE created
       IN  /\ list # NULL
           /\ heap' = SetNext(linked, node, n)
           /\ Added(n, list.head, IF node = list.tail THEN n ELSE list.tail)

ll_remove_KeepsTail(node) ==
  LET next == heap[node].next
      prev == heap[node].prev
      ahead == IF node = list.head THEN heap ELSE SetNext(heap, prev, next)
      behind == IF next = NULL THEN ahead ELSE SetPrev(ahead, next, prev)
  IN  /\ call' = <<"ll_remove", node>>
      /\ list # NULL
      /\ heap' = [behind EXCEPT ![node] = NULL]
      /\ list' = [list EXCEPT !.head = IF node = list.head THEN next ELSE @, !.length = @ - 1]
      /\ result' = heap[node].object
ll_remove(node) ==
  LET next == heap[node].next
      prev == heap[node].prev
      ahead == IF node = list.head THEN heap ELSE SetNext(heap, prev, next)
      behind == IF node = list.tail THEN ahead ELSE SetPrev(ahead, next, prev)
  IN  /\ call' = <<"ll_remove", node>>
      /\ list # NULL
      /\ heap' = [behind EXCEPT ![node] = NULL]
      /\ list' = [head |-> IF node = list.head THEN next ELSE list.head,
                  tail |-> IF node = list.tail THEN prev ELSE list.tail,
                  length |-> list.length - 1]
      /\ result' = heap[node].object

(* The first node of the walk with the object: the walk goes on from there  *)
(* to all the others.                                                       *)
Holders(object) == {n \in Node : /\ list.head # NULL /\ n \in WalkFrom(list.head)
                                 /\ heap[n].object = object}
ll_find(object) ==
  /\ call' = <<"ll_find", object>>
  /\ list # NULL
  /\ IF Holders(object) = {} THEN result' = NULL
     ELSE \E n \in Holders(object) : /\ Holders(object) \subseteq WalkFrom(n)
                                     /\ result' = n
  /\ UNCHANGED <<heap, list>>

ll_front_Tail == /\ call' = <<"ll_front">>
                 /\ list # NULL /\ result' = list.tail /\ UNCHANGED <<heap, list>>
ll_front == /\ call' = <<"ll_front">>
            /\ list # NULL /\ result' = list.head /\ UNCHANGED <<heap, list>>
ll_back == /\ call' = <<"ll_back">>
           /\ list # NULL /\ result' = list.tail /\ UNCHANGED <<heap, list>>
ll_length == /\ call' = <<"ll_length">>
             /\ list # NULL /\ result' = list.length /\ UNCHANGED <<heap, list>>

(* The functions that add, find, remove or destroy, with a NULL argument;   *)
(* the three above follow the pointer to the list without a look at it.     *)
Checking == {"ll_destroy", "ll_add", "ll_add_front", "ll_add_after", "ll_remove", "ll_find"}
NullCall == /\ \E f \in Checking : call' = <<f, NULL>>
            /\ result' = NULL /\ UNCHANGED <<heap, list>>

Next == \/ ll_create \/ ll_destroy \/ ll_front \/ ll_back \/ ll_length \/ NullCall
        \/ \E object \in Object : ll_add(object) \/ ll_add_front(object) \/ ll_find(object)
        \/ \E node \in Allocated, object \in Object : ll_add_after(node, object)
        \/ \E node \in Allocated : ll_remove(node)

Spec == Init /\ [][Next]_vars
-----------------------------------------------------------------------------
(* Properties *)

(* Nodes and list have their C types.                                       *)
TypeOK == /\ heap \in [Node -> ll_node \cup {NULL}]
          /\ list \in linked_list \cup {NULL}

(* Head, tail, length and every link agree with the sequence s of nodes,    *)
(* and no other node is allocated.                                          *)
Represents(s) ==
  LET n == list.length IN
  /\ \A i, j \in 1..n : s[i] = s[j] => i = j
  /\ Allocated = {s[i] : i \in 1..n}
  /\ list.head = IF n = 0 THEN NULL ELSE s[1]
  /\ list.tail = IF n = 0 THEN NULL ELSE s[n]
  /\ \A i \in 1..n : /\ heap[s[i]].next = IF i = n THEN NULL ELSE s[i + 1]
                     /\ heap[s[i]].prev = IF i = 1 THEN NULL ELSE s[i - 1]

(* Whatever is added where and removed in whatever order, the pointers form *)
(* one list both ways, its length is counted right and no node leaks.       *)
WellLinked == IF list = NULL THEN Allocated = {}
              ELSE \E s \in [1..list.length -> Node] : Represents(s)

(* The sequence behind the pointers.                                        *)
Contents == CHOOSE s \in [1..list.length -> Node] : Represents(s)
Element(n) == [node |-> n, object |-> heap[n].object]
Items == IF list = NULL THEN <<>>
         ELSE LET s == Contents IN [i \in 1..list.length |-> Element(s[i])]

Abstract == INSTANCE ObjectList WITH exists <- list # NULL, items <- Items

(* The pointer operations implement a sequence of objects: every call       *)
(* changes the sequence, and returns, as the header file says of the        *)
(* function that was called and of its arguments.                           *)
ImplementsList == Abstract!Spec
=============================================================================
