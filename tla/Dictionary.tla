----------------------------- MODULE Dictionary -----------------------------
(***************************************************************************)
(* data_structures/dictionary and trees/binary_search_tree.c: a binary     *)
(* search tree of entries, and a linked list of the keys in the order they *)
(* were inserted.  compare_string_keys orders the keys; here they are      *)
(* numbers, and "next" leads to the smaller ones, as in the code.          *)
(***************************************************************************)
EXTENDS LinkedList

NoValue == <<>>         \* search_dict's NULL

EmptyTree == [head |-> NULL, nodes |-> <<>>]
EmptyDictionary == [bst |-> EmptyTree, keys |-> EmptyList]

(* iterate_bst: the node where the search ends, and which way it wanted to *)
(* go on: 1 to next, -1 to prev, 0 when the node has the key.              *)
IterateBST(t, key) ==
  LET from[c \in DOMAIN t.nodes] ==
        LET node == t.nodes[c]
        IN CASE node.key > key -> IF node.next # NULL THEN from[node.next] ELSE <<c, 1>>
             [] node.key < key -> IF node.prev # NULL THEN from[node.prev] ELSE <<c, -1>>
             [] OTHER          -> <<c, 0>>
  IN IF t.head = NULL THEN <<NULL, 1>> ELSE from[t.head]

Side(way) == IF way = 1 THEN "next" ELSE "prev"

Attach(t, key, value) ==
  LET a == Cardinality(DOMAIN t.nodes) + 1
      found == IterateBST(t, key)
      With == [x \in DOMAIN t.nodes \cup {a} |->
                 IF x = a THEN [key |-> key, value |-> value, next |-> NULL, prev |-> NULL]
                 ELSE t.nodes[x]]
  IN IF t.head = NULL
     THEN [head |-> a, nodes |-> With]
     ELSE [t EXCEPT !.nodes = [With EXCEPT ![found[1]][Side(found[2])] = a]]

(* Seeded fault: an entry with the same key is replaced. *)
InsertOver(t, key, value) ==
  LET found == IterateBST(t, key)
  IN IF found[2] = 0 THEN [t EXCEPT !.nodes[found[1]].value = value] ELSE Attach(t, key, value)

(* A key that is in the tree keeps its first entry. *)
InsertBST(t, key, value) ==
  IF IterateBST(t, key)[2] = 0 THEN t ELSE Attach(t, key, value)

InsertDict(d, key, value) ==
  [bst  |-> InsertBST(d.bst, key, value),
   keys |-> InsertLL(d.keys, d.keys.length, key)]

SearchDict(d, key) ==
  LET found == IterateBST(d.bst, key)
  IN IF found[2] = 0 THEN d.bst.nodes[found[1]].value ELSE NoValue

(* iterate_dict: what the callback is given, in order. *)
IterateDict(d) ==
  [k \in 1..d.keys.length |->
     LET key == RetrieveLL(d.keys, k - 1) IN <<key, SearchDict(d, key)>>]
=============================================================================
