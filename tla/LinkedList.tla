----------------------------- MODULE LinkedList -----------------------------
(***************************************************************************)
(* data_structures/lists/linked_list.c and queue.c: a singly linked list   *)
(* of heap cells with a length beside it, and the queue made of it.  A     *)
(* list is its struct together with the cells that were allocated for it.  *)
(***************************************************************************)
EXTENDS Integers, Sequences, FiniteSets

NULL == 0               \* addresses of cells are numbered from 1

EmptyList == [head |-> NULL, length |-> 0, cells |-> <<>>]

(* malloc: an address that is not in use. *)
Fresh(l) == CHOOSE a \in 1..Cardinality(DOMAIN l.cells) + 1 : a \notin DOMAIN l.cells

IterateLL(l, index) ==
  IF index < 0 \/ index >= l.length
  THEN NULL
  ELSE LET cursor[k \in 0..index] ==
             IF k = 0 THEN l.head ELSE l.cells[cursor[k - 1]].next
       IN cursor[index]

RetrieveLL(l, index) ==
  LET cursor == IterateLL(l, index)
  IN IF cursor = NULL THEN NULL ELSE l.cells[cursor].data

(* The node that goes before index; where there is no place for it, its    *)
(* cell stays allocated and nothing points to it.                          *)
InsertLL(l, index, data) ==
  LET a == Fresh(l)
      cursor == IterateLL(l, index - 1)
      With(next) == [x \in DOMAIN l.cells \cup {a} |->
                       IF x = a THEN [data |-> data, next |-> next] ELSE l.cells[x]]
  IN CASE index = 0 -> [head |-> a, length |-> l.length + 1, cells |-> With(l.head)]
       [] index # 0 /\ cursor = NULL -> [l EXCEPT !.cells = With(NULL)]
       [] OTHER -> [head   |-> l.head,
                    length |-> l.length + 1,
                    cells  |-> [With(l.cells[cursor].next) EXCEPT ![cursor].next = a]]

(* Seeded fault: the length is not counted down. *)
RemoveNoLength(l, index) ==
  IF index = 0 /\ l.head # NULL
  THEN [head   |-> l.cells[l.head].next,
        length |-> l.length,
        cells  |-> [x \in DOMAIN l.cells \ {l.head} |-> l.cells[x]]]
  ELSE l

(* At an index equal to the length the code follows a NULL pointer: index  *)
(* is below the length, or 0.                                              *)
RemoveLL(l, index) ==
  LET cursor == IterateLL(l, index - 1)
      gone   == IF index = 0 THEN l.head
                ELSE IF cursor = NULL THEN NULL ELSE l.cells[cursor].next
      next   == l.cells[gone].next
      Freed  == [x \in DOMAIN l.cells \ {gone} |-> l.cells[x]]
  IN IF gone = NULL
     THEN l
     ELSE [head   |-> IF index = 0 THEN next ELSE l.head,
           length |-> l.length - 1,
           cells  |-> IF index = 0 THEN Freed ELSE [Freed EXCEPT ![cursor].next = next]]

(* The destructor removes the head as long as a counter that goes up is    *)
(* below a length that goes down.                                          *)
DestructLL(l) ==
  LET left[k \in 0..l.length] == IF k = 0 THEN l ELSE RemoveLL(left[k - 1], 0)
      turns == CHOOSE k \in 0..l.length :
                 k >= left[k].length /\ \A j \in 0..k - 1 : j < left[j].length
  IN left[turns]

-----------------------------------------------------------------------------
(* queue.c *)

Push(q, data) == InsertLL(q, q.length, data)
Peek(q) == RetrieveLL(q, 0)
Pop(q) == RemoveLL(q, 0)

-----------------------------------------------------------------------------
(* What a list holds, read by its pointers alone; a list that turns back   *)
(* on itself, or points to a freed cell, holds nothing sensible.           *)

Chain(l) ==
  LET follow[k \in 0..Cardinality(DOMAIN l.cells)] ==
        IF k = 0 THEN <<>>
        ELSE LET before == follow[k - 1]
                 a == IF before = <<>> THEN l.head ELSE l.cells[before[Len(before)]].next
             IN IF Len(before) < k - 1 \/ a \notin DOMAIN l.cells THEN before
                ELSE Append(before, a)
  IN follow[Cardinality(DOMAIN l.cells)]

Items(l) == [k \in 1..Len(Chain(l)) |-> l.cells[Chain(l)[k]].data]

(* The list ends with NULL after length nodes and no cell is out of reach. *)
WellFormed(l) ==
  LET chain == Chain(l)
      end == IF chain = <<>> THEN l.head ELSE l.cells[chain[Len(chain)]].next
  IN /\ end = NULL
     /\ Len(chain) = l.length
     /\ {chain[k] : k \in 1..Len(chain)} = DOMAIN l.cells
=============================================================================
