----------------------------- MODULE ObjectList -----------------------------
(***************************************************************************)
(* What ctcp_linked_list.h promises: a list of objects, each in a node that*)
(* its caller gets as a handle.  The list is a sequence of nodes with their*)
(* objects.  A step is the call that call names, and returns result.       *)
(***************************************************************************)
EXTENDS Integers, Sequences

CONSTANTS Node, Object, NULL

VARIABLES
  exists,  \* has the list been created, and not destroyed?
  items,   \* its elements [node, object], front to back
  call,    \* the last call: function and arguments
  result   \* its value

vars == <<exists, items, call, result>>

Nodes(seq) == {seq[i].node : i \in DOMAIN seq}

(* seq with e behind its first i elements, and seq without the i-th one.    *)
Insert(seq, i, e) == [j \in 1..(Len(seq) + 1) |->
                        IF j <= i THEN seq[j]
                        ELSE IF j = i + 1 THEN e ELSE seq[j - 1]]
Delete(seq, i) == [j \in 1..(Len(seq) - 1) |->
                     IF j < i THEN seq[j] ELSE seq[j + 1]]

Init == exists = FALSE /\ items = <<>> /\ call = <<>> /\ result = NULL

Create == /\ call' = <<"ll_create">>
          /\ ~exists /\ exists' = TRUE
          /\ items' = <<>> /\ result' = NULL

Destroy == /\ call' = <<"ll_destroy">>
           /\ exists /\ exists' = FALSE
           /\ items' = <<>> /\ result' = NULL

(* A new node that holds the object is put behind the first i elements:     *)
(* at the end, at the front, or behind a node of the list.                  *)
AddAt(i, object) ==
  /\ exists /\ exists' = TRUE
  /\ result' \in Node /\ result' \notin Nodes(items)
  /\ items' = Insert(items, i, [node |-> result', object |-> object])

Add(object) == call' = <<"ll_add", object>> /\ AddAt(Len(items), object)
AddFront(object) == call' = <<"ll_add_front", object>> /\ AddAt(0, object)
AddAfter(i, object) == /\ call' = <<"ll_add_after", items[i].node, object>>
                       /\ AddAt(i, object)

Remove(i) == /\ call' = <<"ll_remove", items[i].node>>
             /\ exists /\ exists' = TRUE
             /\ items' = Delete(items, i)
             /\ result' = items[i].object

(* The lookups change nothing.                                              *)
Find(object) ==
  /\ call' = <<"ll_find", object>>
  /\ exists /\ UNCHANGED <<exists, items>>
  /\ \/ /\ \A i \in DOMAIN items : items[i].object # object
        /\ result' = NULL
     \/ \E i \in DOMAIN items :
          /\ items[i].object = object
          /\ \A j \in DOMAIN items : j < i => items[j].object # object
          /\ result' = items[i].node

Front == /\ call' = <<"ll_front">>
         /\ exists /\ UNCHANGED <<exists, items>>
         /\ result' = IF items = <<>> THEN NULL ELSE items[1].node
Back == /\ call' = <<"ll_back">>
        /\ exists /\ UNCHANGED <<exists, items>>
        /\ result' = IF items = <<>> THEN NULL ELSE items[Len(items)].node
Length == /\ call' = <<"ll_length">>
          /\ exists /\ UNCHANGED <<exists, items>>
          /\ result' = Len(items)

(* A call with a NULL argument, or on a list that is NULL.                  *)
NullCall == /\ \E f \in {"ll_destroy", "ll_add", "ll_add_front", "ll_add_after",
                         "ll_remove", "ll_find"} : call' = <<f, NULL>>
            /\ UNCHANGED <<exists, items>> /\ result' = NULL

Next == \/ Create \/ Destroy \/ Front \/ Back \/ Length \/ NullCall
        \/ \E object \in Object : Add(object) \/ AddFront(object) \/ Find(object)
        \/ \E i \in DOMAIN items, object \in Object : AddAfter(i, object)
        \/ \E i \in DOMAIN items : Remove(i)

Spec == Init /\ [][Next]_vars
=============================================================================
